---------------------------- MODULE MCWatchdogs ----------------------------
(* The watchdogs of module Watchdogs with short intervals. *)
EXTENDS Watchdogs
=============================================================================
