------------------------------- MODULE Mailbox -------------------------------
(***************************************************************************)
(* What the message buffer of the MCP server promises: whatever it took it *)
(* holds until it hands it over, to one call and once, or until the        *)
(* process ends, which loses what it holds.                                *)
(***************************************************************************)
EXTENDS Naturals

VARIABLES
  taken,  \* number of entries taken so far
  held,   \* the numbers of those it holds
  handed  \* the numbers of those it handed over

Init == taken = 0 /\ held = {} /\ handed = {}

Take == taken' = taken + 1 /\ held' = held \cup {taken + 1} /\ UNCHANGED handed

Hand ==
  \E given \in SUBSET held :
    held' = held \ given /\ handed' = handed \cup given /\ UNCHANGED taken

End == held' = {} /\ UNCHANGED <<taken, handed>>

Next == Take \/ Hand \/ End

Spec == Init /\ [][Next]_<<taken, held, handed>>

\* The promise as a state shows it: an entry is held or has been handed over,
\* never both, and none is made up.
Once == held \cup handed \subseteq 1 .. taken /\ held \cap handed = {}
=============================================================================
