--------------------------- MODULE ReliableStream ---------------------------
(***************************************************************************)
(* What the reliability layer promises the TLS connection above it: each   *)
(* direction is a stream.  Chunks are numbered by the writer; they become  *)
(* readable at the other end in order, without a gap, a repetition or an   *)
(* invention, some at a time, and are read once.                           *)
(***************************************************************************)
EXTENDS Integers, Sequences

CONSTANTS Ends, Peer(_)

VARIABLES
  sent,     (* sent[e]: chunks written at e                                *)
  stream,   (* stream[e]: chunks that became readable at e                 *)
  readBuf   (* readBuf[e]: the readable ones not read yet                  *)

vars == <<sent, stream, readBuf>>

Init ==
  /\ sent = [e \in Ends |-> 0]
  /\ stream = [e \in Ends |-> << >>]
  /\ readBuf = [e \in Ends |-> << >>]

Send(e) ==
  /\ sent' = [sent EXCEPT ![e] = @ + 1]
  /\ UNCHANGED <<stream, readBuf>>

Arrive(e) ==
  /\ \E n \in 1 .. sent[Peer(e)] - Len(stream[e]) :
       LET new == [i \in 1..n |-> Len(stream[e]) + i]
       IN /\ stream' = [stream EXCEPT ![e] = @ \o new]
          /\ readBuf' = [readBuf EXCEPT ![e] = @ \o new]
  /\ UNCHANGED sent

Consume(e) ==
  /\ \E n \in 1 .. Len(readBuf[e]) :
       readBuf' = [readBuf EXCEPT ![e] = SubSeq(@, n + 1, Len(@))]
  /\ UNCHANGED <<sent, stream>>

Next == \E e \in Ends : Send(e) \/ Arrive(e) \/ Consume(e)

Spec == Init /\ [][Next]_vars
=============================================================================
