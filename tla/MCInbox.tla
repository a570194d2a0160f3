------------------------------- MODULE MCInbox -------------------------------
(* Inbox for TLC: two messages to one process, of which it may be unable to  *)
(* open one, with and without a legacy file; one message to two processes.   *)
EXTENDS Inbox

CONSTANTS a, b

MCScenarios ==
  [procs : {{a}}, sent : {{1, 2}}, opaque : {{}, {2}}, legacy : {0, 1}]
    \cup [procs : {{a, b}}, sent : {{1}}, opaque : {{}}, legacy : {0}]
=============================================================================
