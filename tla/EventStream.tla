----------------------------- MODULE EventStream -----------------------------
(***************************************************************************)
(* What the sidecar promises the local programs that read its durable      *)
(* events: a stream that only grows, of which each reader receives every   *)
(* event once, in order, whatever polls, connections and restarts it takes *)
(* to get there.  When it receives them is not promised here.              *)
(***************************************************************************)
EXTENDS Naturals, Sequences

CONSTANT Reader

VARIABLES
  written,  \* how many events the stream holds; they are numbered from 1
  seen      \* the numbers of the events each reader received, in order

Init == written = 0 /\ seen = [r \in Reader |-> <<>>]

Publish == written' = written + 1 /\ UNCHANGED seen

Read(r, n) ==
  /\ Len(seen[r]) + n <= written
  /\ seen' = [seen EXCEPT ![r] = @ \o [i \in 1 .. n |-> Len(@) + i]]
  /\ UNCHANGED written

Next == Publish \/ \E r \in Reader, n \in 1 .. written : Read(r, n)

Spec == Init /\ [][Next]_<<written, seen>>

\* The promise as a state shows it: what a reader has is the beginning of the
\* stream, each event in its place.
InOrder ==
  \A r \in Reader : Len(seen[r]) <= written /\ \A i \in 1 .. Len(seen[r]) : seen[r][i] = i
=============================================================================
