----------------------------- MODULE MCSession -----------------------------
(* Sessions whose key-ids come round after two or three rekeys, with users, *)
(* the server and rekeyWatch that ask for rekeys at the same time.          *)
EXTENDS Session, TLC
=============================================================================
