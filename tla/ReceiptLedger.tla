---------------------------- MODULE ReceiptLedger ----------------------------
(***************************************************************************)
(* What the agent promises of delivery receipts, without saying how: a      *)
(* receipt the relay keeps is recorded at most once, and a recorded one is  *)
(* published at most once to the local programs, at the end of the durable  *)
(* event stream.  Neither is ever taken back, whatever fails.  That every   *)
(* receipt is recorded, and every recorded one published, is not promised   *)
(* here.                                                                    *)
(***************************************************************************)
EXTENDS Sequences, Functions

CONSTANT Envelope

VARIABLES
  relayed,   \* envelopes the relay keeps a receipt of
  recorded,  \* envelopes with a receipt in the local store
  published  \* the durable event stream

ledger == <<relayed, recorded, published>>

Init == relayed = {} /\ recorded = {} /\ published = <<>>

Relay(e) ==
  /\ e \notin relayed
  /\ relayed' = relayed \cup {e}
  /\ UNCHANGED <<recorded, published>>

Record(e) ==
  /\ e \in relayed \ recorded
  /\ recorded' = recorded \cup {e}
  /\ UNCHANGED <<relayed, published>>

Publish(e) ==
  /\ e \in recorded \ Range(published)
  /\ published' = Append(published, e)
  /\ UNCHANGED <<relayed, recorded>>

Next == \E e \in Envelope : Relay(e) \/ Record(e) \/ Publish(e)

Spec == Init /\ [][Next]_ledger

\* The promise as a state shows it: what is recorded the relay keeps, and the
\* stream announces recorded receipts, none of them twice.
Truthful ==
  /\ recorded \subseteq relayed
  /\ published \in Seq(recorded)
  /\ IsInjective(published)
=============================================================================
