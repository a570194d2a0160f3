---------------------------- MODULE MCLocalEvents ----------------------------
(* LocalEvents for TLC.                                                      *)
EXTENDS LocalEvents
=============================================================================
