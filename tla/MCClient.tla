------------------------------ MODULE MCClient ------------------------------
(* The client of module Client with few callers, handlers and sessions.    *)
EXTENDS Client
=============================================================================
