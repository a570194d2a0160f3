----------------------------- MODULE InboxLedger -----------------------------
(***************************************************************************)
(* What the inbox promises the relay and the local client: the relay is    *)
(* told to forget a message only when the message needs nothing more, and  *)
(* the event stream never announces a message whose text is not kept.      *)
(***************************************************************************)
CONSTANT Message

VARIABLES
  opaque,    \* messages whose text this agent cannot open: nothing to keep
  stored,    \* messages whose text is on disk
  published, \* messages announced in the durable event stream
  released   \* messages the relay has forgotten

vars == <<opaque, stored, published, released>>

Init == opaque \subseteq Message /\ stored = {} /\ published = {} /\ released = {}

Store(m) ==
  /\ stored' = stored \cup {m}
  /\ UNCHANGED <<opaque, published, released>>

Publish(m) ==
  /\ m \in stored
  /\ published' = published \cup {m}
  /\ UNCHANGED <<opaque, stored, released>>

Release(m) ==
  /\ m \in published \cup opaque
  /\ released' = released \cup {m}
  /\ UNCHANGED <<opaque, stored, published>>

Next == \E m \in Message : Store(m) \/ Publish(m) \/ Release(m)

Spec == Init /\ [][Next]_vars

\* The promise as a state shows it: what the relay has forgotten is announced or
\* could not be read, and what is announced is kept.
Accounted == published \subseteq stored /\ released \subseteq published \cup opaque
=============================================================================
