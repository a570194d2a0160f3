-------------------------- MODULE McpServer_proofs --------------------------
(***************************************************************************)
(* What McpServer guarantees for any number of overlapping tool calls, any *)
(* messages, limits and amounts, and whatever the bounds.                  *)
(***************************************************************************)
EXTENDS McpServer, WellFoundedInduction, FiniteSetTheorems, TLAPS

-----------------------------------------------------------------------------
(* Counting in sets of numbers: what Kept and since rest on.               *)

LEMMA Smallest ==
  ASSUME NEW S \in SUBSET Nat, S # {}
  PROVE  \E n \in S : \A k \in S : n <= k
<1> DEFINE R == OpToRel(<, Nat)
<1>1. IsWellFoundedOn(R, Nat)
  BY NatLessThanWellFounded
<1>2. \A x, y \in Nat : <<y, x>> \in R <=> y < x
  BY DEF OpToRel
<1> HIDE DEF R
<1>3. PICK n \in S : \A y \in S : ~(<<y, n>> \in R)
  BY <1>1, WFMin
<1>4. ASSUME NEW k \in S PROVE n <= k
  <2>1. ~(k < n)
    BY <1>2, <1>3
  <2> QED
    BY <2>1
<1> QED
  BY <1>4

LEMMA Largest ==
  ASSUME NEW S \in SUBSET Nat, S # {}, NEW b \in Nat, \A x \in S : x <= b
  PROVE  \E n \in S : \A k \in S : k <= n
<1> DEFINE T == {b - x : x \in S}
<1>1. T \in SUBSET Nat /\ T # {}
  <2>1. ASSUME NEW x \in S PROVE b - x \in Nat
    BY x \in Nat, x <= b
  <2> QED
    BY <2>1
<1>2. PICK d \in T : \A k \in T : d <= k
  BY <1>1, Smallest
<1>3. PICK n \in S : d = b - n
  BY <1>2
<1>4. ASSUME NEW k \in S PROVE k <= n
  <2>1. b - n <= b - k /\ n \in Nat /\ k \in Nat
    BY <1>2, <1>3
  <2> QED
    BY <2>1
<1> QED
  BY <1>4

\* The elements of S up to j; how many there are is the rank of j.
UpTo(S, j) == {k \in S : k <= j}

LEMMA RankRange ==
  ASSUME NEW n \in Nat, NEW S \in SUBSET (1..n), NEW j \in S
  PROVE  /\ IsFiniteSet(S) /\ Cardinality(S) \in Nat
         /\ IsFiniteSet(UpTo(S, j)) /\ Cardinality(UpTo(S, j)) \in 1..Cardinality(S)
<1>1. IsFiniteSet(1..n)
  BY FS_Interval
<1>2. IsFiniteSet(S)
  BY <1>1, FS_Subset
<1>3. UpTo(S, j) \in SUBSET S /\ j \in UpTo(S, j)
  BY DEF UpTo
<1>4. IsFiniteSet(UpTo(S, j)) /\ Cardinality(UpTo(S, j)) <= Cardinality(S)
  BY <1>2, <1>3, FS_Subset
<1>5. Cardinality(S) \in Nat /\ Cardinality(UpTo(S, j)) \in Nat
  BY <1>2, <1>4, FS_CardinalityType
<1>6. Cardinality(UpTo(S, j)) # 0
  BY <1>3, <1>4, FS_EmptySet
<1> QED
  BY <1>2, <1>4, <1>5, <1>6

LEMMA RankGrows ==
  ASSUME NEW n \in Nat, NEW S \in SUBSET (1..n), NEW j \in S, NEW k \in S, j < k
  PROVE  Cardinality(UpTo(S, j)) < Cardinality(UpTo(S, k))
<1>1. IsFiniteSet(UpTo(S, k)) /\ Cardinality(UpTo(S, j)) \in Nat /\ Cardinality(UpTo(S, k)) \in Nat
  <2>1. Cardinality(S) \in Nat /\ Cardinality(UpTo(S, j)) \in 1..Cardinality(S)
    BY RankRange
  <2>2. IsFiniteSet(UpTo(S, k)) /\ Cardinality(UpTo(S, k)) \in 1..Cardinality(S)
    BY RankRange
  <2> QED
    BY <2>1, <2>2
<1>2. UpTo(S, j) \in SUBSET UpTo(S, k)
  <2>1. ASSUME NEW x \in UpTo(S, j) PROVE x \in UpTo(S, k)
    <3>1. x \in S /\ x \in Nat /\ x <= j /\ j \in Nat /\ k \in Nat
      BY DEF UpTo
    <3>2. x <= k
      BY <3>1
    <3> QED
      BY <3>1, <3>2 DEF UpTo
  <2> QED
    BY <2>1
<1>3. k \in UpTo(S, k) /\ k \notin UpTo(S, j)
  BY DEF UpTo
<1>4. /\ Cardinality(UpTo(S, j)) <= Cardinality(UpTo(S, k))
      /\ Cardinality(UpTo(S, k)) # Cardinality(UpTo(S, j))
  BY <1>1, <1>2, <1>3, FS_Subset
<1> QED
  BY <1>1, <1>4

\* Every rank is taken.
LEMMA RankTaken ==
  ASSUME NEW n \in Nat, NEW S \in SUBSET (1..n), NEW i \in 1..Cardinality(S)
  PROVE  \E j \in S : Cardinality(UpTo(S, j)) = i
<1>1. IsFiniteSet(S) /\ Cardinality(S) \in Nat
  <2>1. IsFiniteSet(1..n)
    BY FS_Interval
  <2>2. IsFiniteSet(S)
    BY <2>1, FS_Subset
  <2> QED
    BY <2>2, FS_CardinalityType
<1> DEFINE Free == {r \in 1..Cardinality(S) : \A j \in S : Cardinality(UpTo(S, j)) # r}
<1>2. SUFFICES ASSUME Free # {} PROVE FALSE
  BY <1>1
<1>3. Free \in SUBSET Nat
  BY <1>1
<1>4. PICK r \in Free : \A k \in Free : r <= k
  BY <1>2, <1>3, Smallest
<1>5. r \in 1..Cardinality(S) /\ \A j \in S : Cardinality(UpTo(S, j)) # r
  OBVIOUS
<1>6. \E T \in SUBSET S : IsFiniteSet(T) /\ Cardinality(T) = r - 1
         /\ \A x \in S, y \in T : x <= y => x \in T
  <2>1. CASE r = 1
    BY <2>1, FS_EmptySet
  <2>2. CASE r # 1
    <3>1. r - 1 \in 1..Cardinality(S) /\ r - 1 \notin Free
      BY <1>1, <1>4, <1>5, <2>2
    <3>2. PICK j \in S : Cardinality(UpTo(S, j)) = r - 1
      BY <3>1
    <3>3. IsFiniteSet(UpTo(S, j))
      BY RankRange
    <3>4. UpTo(S, j) \in SUBSET S /\ \A x \in S, y \in UpTo(S, j) : x <= y => x \in UpTo(S, j)
      BY DEF UpTo
    <3> QED
      BY <3>2, <3>3, <3>4
  <2> QED
    BY <2>1, <2>2
<1>7. PICK T \in SUBSET S : IsFiniteSet(T) /\ Cardinality(T) = r - 1
         /\ \A x \in S, y \in T : x <= y => x \in T
  BY <1>6
<1>8. S \ T \in SUBSET Nat /\ S \ T # {}
  <2>1. ASSUME NEW x \in S PROVE x \in Nat
    OBVIOUS
  <2>2. T # S
    <3>1. r - 1 # Cardinality(S)
      BY <1>1, <1>5
    <3> QED
      BY <3>1, <1>7
  <2> QED
    BY <2>1, <2>2, <1>7
<1>9. PICK m \in S \ T : \A k \in S \ T : m <= k
  BY <1>8, Smallest
<1>10. UpTo(S, m) = T \cup {m}
  <2>1. ASSUME NEW x \in UpTo(S, m) PROVE x \in T \cup {m}
    BY <1>9 DEF UpTo
  <2>2. ASSUME NEW x \in T PROVE x \in UpTo(S, m)
    <3>1. ~(m <= x)
      BY <1>7, <1>9
    <3> QED
      BY <3>1 DEF UpTo
  <2>3. m \in UpTo(S, m)
    BY DEF UpTo
  <2> QED
    BY <2>1, <2>2, <2>3
<1>11. Cardinality(UpTo(S, m)) = r
  <2>1. Cardinality(T \cup {m}) = Cardinality(T) + 1
    BY <1>7, <1>9, FS_AddElement
  <2> QED
    BY <2>1, <1>10, <1>7, <1>5, <1>1
<1> QED
  BY <1>5, <1>9, <1>11

\* A bounded set of numbers has one newest member, which Newest picks.
LEMMA NewestIs ==
  ASSUME NEW S \in SUBSET Nat, S # {}, NEW b \in Nat, \A x \in S : x <= b
  PROVE  /\ (CHOOSE x \in Newest(S) : TRUE) \in S
         /\ \A y \in S : y <= (CHOOSE x \in Newest(S) : TRUE)
<1>1. PICK n \in S : \A k \in S : k <= n
  BY Largest
<1>2. n \in Newest(S)
  BY <1>1 DEF Newest
<1>3. (CHOOSE x \in Newest(S) : TRUE) \in Newest(S)
  BY <1>2
<1> QED
  BY <1>3 DEF Newest

\* Kept, of any sequence.
KeptOf(b, gone) ==
  LET left == DOMAIN b \ gone
      nth(i) == CHOOSE j \in left : Cardinality({k \in left : k <= j}) = i
  IN  [i \in 1..Cardinality(left) |-> b[nth(i)]]

\* f lists the m numbers of S in order.
Lists(f, m, S) ==
  /\ m \in Nat /\ f \in [1..m -> S]
  /\ \A i, k \in 1..m : i < k => f[i] < f[k]
  /\ \A j \in S : \E i \in 1..m : f[i] = j

\* The entries of b at the positions f lists.
Through(b, f, m) == [i \in 1..m |-> b[f[i]]]

\* It leaves out exactly the positions gone, and keeps the order of the rest.
LEMMA KeptKeeps ==
  ASSUME NEW E, NEW b \in Seq(E), NEW gone
  PROVE  \E m, f : Lists(f, m, DOMAIN b \ gone) /\ KeptOf(b, gone) = Through(b, f, m)
<1> DEFINE n    == Len(b)
           left == DOMAIN b \ gone
           m    == Cardinality(left)
           nth(i) == CHOOSE j \in left : Cardinality({k \in left : k <= j}) = i
           f    == [i \in 1..m |-> nth(i)]
<1>1. n \in Nat /\ left \in SUBSET (1..n) /\ \A j \in left : j \in Nat
  OBVIOUS
<1>2. m \in Nat
  <2>1. CASE left = {}
    <3>1. m = Cardinality({})
      BY <2>1
    <3>2. Cardinality({}) = 0
      BY FS_EmptySet
    <3> QED
      BY <3>1, <3>2
  <2>2. CASE left # {}
    <3>1. PICK j \in left : TRUE
      BY <2>2
    <3> HIDE DEF left
    <3> QED
      BY <1>1, <3>1, RankRange
  <2> QED
    BY <2>1, <2>2
<1>3. KeptOf(b, gone) = [i \in 1..m |-> b[nth(i)]]
  BY DEF KeptOf
<1> HIDE DEF left, n
<1>4. ASSUME NEW i \in 1..m
      PROVE  nth(i) \in left /\ Cardinality(UpTo(left, nth(i))) = i
  <2>1. \E j \in left : Cardinality(UpTo(left, j)) = i
    BY <1>1, RankTaken
  <2>2. \E j \in left : Cardinality({k \in left : k <= j}) = i
    BY <2>1 DEF UpTo
  <2>3. nth(i) \in left /\ Cardinality({k \in left : k <= nth(i)}) = i
    BY <2>2
  <2> QED
    BY <2>3 DEF UpTo
<1> HIDE DEF nth
<1>5. f \in [1..m -> left]
  BY <1>4
<1>6. ASSUME NEW i \in 1..m, NEW k \in 1..m, i < k PROVE f[i] < f[k]
  <2>1. f[i] = nth(i) /\ f[k] = nth(k) /\ nth(i) \in left /\ nth(k) \in left
    BY <1>4
  <2>2. nth(i) \in Nat /\ nth(k) \in Nat
    BY <2>1, <1>1
  <2>3. ~(nth(k) < nth(i))
    <3> SUFFICES ASSUME nth(k) < nth(i) PROVE FALSE
      OBVIOUS
    <3>1. Cardinality(UpTo(left, nth(k))) < Cardinality(UpTo(left, nth(i)))
      BY <1>1, <2>1, RankGrows
    <3>2. k < i
      BY <3>1, <1>4
    <3> QED
      BY <3>2, <1>2, <1>6
  <2>4. nth(k) # nth(i)
    <3>1. k # i
      BY <1>2, <1>6
    <3> QED
      BY <3>1, <1>4
  <2>5. nth(i) < nth(k)
    BY <2>2, <2>3, <2>4
  <2> QED
    BY <2>1, <2>5
<1>7. ASSUME NEW j \in left PROVE \E i \in 1..m : f[i] = j
  <2>1. Cardinality(UpTo(left, j)) \in 1..m
    BY <1>1, RankRange
  <2> DEFINE i == Cardinality(UpTo(left, j))
  <2>2. nth(i) \in left /\ Cardinality(UpTo(left, nth(i))) = i
    BY <2>1, <1>4
  <2> HIDE DEF i
  <2>3. nth(i) = j
    <3>1. j \in Nat /\ nth(i) \in Nat
      BY <1>1, <2>2
    <3>2. ~(nth(i) < j) /\ ~(j < nth(i))
      <4>1. ASSUME nth(i) < j PROVE FALSE
        <5>1. Cardinality(UpTo(left, nth(i))) < Cardinality(UpTo(left, j))
          BY <1>1, <2>2, <4>1, RankGrows
        <5>2. i < i /\ i \in Nat
          BY <5>1, <2>2, <2>1, <1>2 DEF i
        <5> QED
          BY <5>2
      <4>2. ASSUME j < nth(i) PROVE FALSE
        <5>1. Cardinality(UpTo(left, j)) < Cardinality(UpTo(left, nth(i)))
          BY <1>1, <2>2, <4>2, RankGrows
        <5>2. i < i /\ i \in Nat
          BY <5>1, <2>2, <2>1, <1>2 DEF i
        <5> QED
          BY <5>2
      <4> QED
        BY <4>1, <4>2
    <3> QED
      BY <3>1, <3>2
  <2>4. i \in 1..m
    BY <2>1 DEF i
  <2> QED
    BY <2>3, <2>4
<1>8. KeptOf(b, gone) = [i \in 1..m |-> b[f[i]]]
  BY <1>3
<1> HIDE DEF f, m
<1>9. Lists(f, m, left)
  BY <1>2, <1>5, <1>6, <1>7 DEF Lists
<1>10. KeptOf(b, gone) = Through(b, f, m)
  BY <1>8 DEF Through
<1> QED
  BY <1>9, <1>10 DEF left

-----------------------------------------------------------------------------
(* One socket.  Only the first call to connect opens one, and once it did  *)
(* the promise is never "none" again in that process.                      *)

Sockets ==
  /\ opened \in {0, 1}
  /\ promise = "none" <=> opened = 0
  /\ link = "joining" => opened = 1

\* The steps of a call that leave the process alone, or but take from its buffer.
LEMMA OnlyConnectOpens ==
  ASSUME NEW t, Runs(t), ~Connect(t)
  PROVE  UNCHANGED <<promise, link, opened>>
BY DEF Runs, Share, Awaited, Drain, FetchGiven, SearchRegistry, FetchWeb, FetchFromRelay,
   Request, Reply, Fetch, Buy, Terms, Pay, Paid, process

\* However tool calls overlap, a process opens at most one socket, and has the
\* promise of one exactly when it opened it (ensureConnected, connectPromise).
THEOREM SocketIsOne == Spec => []OneSocket
<1>1. Init => Sockets
  BY DEF Init, Sockets
<1>2. Sockets /\ [Next]_vars => Sockets'
  <2> SUFFICES ASSUME Sockets, [Next]_vars PROVE Sockets'
    OBVIOUS
  <2>1. ASSUME NEW t \in Task, Connect(t) PROVE Sockets'
    BY <2>1 DEF Connect, Sockets
  <2>2. ASSUME NEW t \in Task, Runs(t), ~Connect(t) PROVE Sockets'
    BY <2>2, OnlyConnectOpens DEF Sockets
  <2>3. CASE JoinReply \/ JoinFails \/ Cut
    BY <2>3 DEF JoinReply, JoinFails, Cut, Sockets
  <2>4. CASE Restart
    BY <2>4 DEF Restart, Sockets
  <2>5. ASSUME NEW m \in Message, Deliver(m) PROVE Sockets'
    BY <2>5 DEF Deliver, Sockets
  <2>6. CASE Tick \/ UNCHANGED vars
    BY <2>6 DEF Tick, vars, process, Sockets
  <2>7. ASSUME NEW t \in Task, NEW tool, NEW from, NEW limit, Begin(t, tool, from, limit)
        PROVE  Sockets'
    BY <2>7 DEF Begin, process, Sockets
  <2> QED
    BY <2>1, <2>2, <2>3, <2>4, <2>5, <2>6, <2>7 DEF Next
<1>3. Sockets => OneSocket
  BY DEF Sockets, OneSocket
<1> QED
  BY <1>1, <1>2, <1>3, PTL DEF Spec

-----------------------------------------------------------------------------
(* Type correctness.  What is paid is an amount because an offer was taken *)
(* from the terms first; positions are times because entries have them.    *)
(* No time that anyone stamps is beyond our clock and its skew.            *)

OfferAtHand == \A t \in Task : call[t].step \in {"pay", "settle"} => call[t].offer \in Amount

Numbered ==
  \A i \in DOMAIN buffer :
    /\ buffer[i].n \in 1..taken /\ buffer[i].at \in 1..clock
    /\ buffer[i].stamp <= buffer[i].at + scene.skew

Typed ==
  TypeOK /\ clock >= 1 /\ OfferAtHand /\ Numbered /\ since <= clock + scene.skew

LEMMA SkewIsNat == TypeOK => scene.skew \in Nat
BY DEF TypeOK, Scenario

\* The position in an entry is a time, by a clock that may be ahead.
LEMMA PositionIs ==
  ASSUME Typed, NEW i \in DOMAIN buffer
  PROVE  /\ Position(buffer[i]) \in Nat
         /\ Position(buffer[i]) <= clock + scene.skew
         /\ Level => Position(buffer[i]) <= buffer[i].at
<1>1. /\ buffer[i] \in Entry /\ buffer[i].at \in 1..clock /\ clock \in Nat
      /\ buffer[i].stamp <= buffer[i].at + scene.skew
  BY DEF Typed, TypeOK, Numbered
<1>2. buffer[i].at \in Nat /\ buffer[i].stamp \in Nat
  BY <1>1 DEF Entry
<1>3. scene.skew \in Nat
  BY SkewIsNat DEF Typed
<1>4. CASE scene.field = "receivedAt"
  BY <1>1, <1>2, <1>3, <1>4 DEF Position
<1>5. CASE scene.field # "receivedAt"
  BY <1>1, <1>2, <1>3, <1>5 DEF Position, Level
<1> QED
  BY <1>4, <1>5

\* What the agent remembers of a reply: the latest position, the one it had included.
LEMMA Remembers ==
  ASSUME Typed, NEW got \in SUBSET DOMAIN buffer, Remember(got)
  PROVE  /\ since' \in {since} \cup {Position(buffer[i]) : i \in got}
         /\ since' \in Nat /\ since <= since' /\ since' <= clock + scene.skew
         /\ \A i \in got : Position(buffer[i]) <= since'
<1> DEFINE S == {since} \cup {Position(buffer[i]) : i \in got}
<1>1. clock + scene.skew \in Nat
  BY SkewIsNat DEF Typed, TypeOK
<1>2. S \in SUBSET Nat /\ S # {} /\ \A x \in S : x <= clock + scene.skew
  <2>1. ASSUME NEW x \in S PROVE x \in Nat /\ x <= clock + scene.skew
    <3>1. CASE x = since
      BY <3>1 DEF Typed, TypeOK
    <3>2. ASSUME NEW i \in got, x = Position(buffer[i]) PROVE x \in Nat /\ x <= clock + scene.skew
      BY <3>2, PositionIs
    <3> QED
      BY <2>1, <3>1, <3>2
  <2> QED
    BY <2>1
<1>3. since' = CHOOSE x \in Newest(S) : TRUE
  BY DEF Remember, Latest
<1>4. since \in S /\ \A i \in got : Position(buffer[i]) \in S
  OBVIOUS
<1> HIDE DEF S
<1>5. since' \in S /\ \A y \in S : y <= since'
  BY <1>1, <1>2, <1>3, NewestIs
<1>6. since' \in Nat /\ since' <= clock + scene.skew
  BY <1>2, <1>5
<1> QED
  BY <1>4, <1>5, <1>6 DEF S

LEMMA NoCallType == NoCall \in CallState
BY DEF NoCall, CallState, Step, Tools

LEMMA TypedInit == McpAssumption /\ Init => Typed
<1> SUFFICES ASSUME McpAssumption, Init PROVE Typed
  OBVIOUS
<1>1. call \in [Task -> CallState] /\ \A t \in Task : call[t].step = "idle"
  BY NoCallType DEF Init, NoCall
<1>2. buffer \in Seq(Entry) /\ DOMAIN buffer = {}
  BY DEF Init
<1>3. scene \in Scenario
  BY DEF Init, McpAssumption
<1>4. scene.skew \in Nat
  BY <1>3 DEF Scenario
<1> QED
  BY <1>1, <1>2, <1>3, <1>4 DEF Init, Typed, TypeOK, OfferAtHand, Numbered

\* A call that keeps its type keeps that of all.
LEMMA CallSet ==
  ASSUME call \in [Task -> CallState], OfferAtHand, NEW t \in Task, NEW c \in CallState,
         c.step \in {"pay", "settle"} => c.offer \in Amount,
         call' = [call EXCEPT ![t] = c]
  PROVE  call' \in [Task -> CallState] /\ OfferAtHand'
<1>1. call' \in [Task -> CallState]
  OBVIOUS
<1>2. ASSUME NEW u \in Task, call'[u].step \in {"pay", "settle"}
      PROVE  call'[u].offer \in Amount
  <2>1. CASE u = t
    BY <1>2, <2>1
  <2>2. CASE u # t
    BY <1>2, <2>2 DEF OfferAtHand
  <2> QED
    BY <2>1, <2>2
<1> QED
  BY <1>1, <1>2 DEF OfferAtHand

LEMMA GotoTyped ==
  ASSUME call \in [Task -> CallState], OfferAtHand, NEW t \in Task, NEW s \in Step,
         s \in {"pay", "settle"} => call[t].offer \in Amount, Goto(t, s)
  PROVE  call' \in [Task -> CallState] /\ OfferAtHand'
<1> DEFINE c == [call[t] EXCEPT !.step = s]
<1>1. c \in CallState /\ c.step = s /\ c.offer = call[t].offer
  <2>1. call[t] \in CallState
    OBVIOUS
  <2> QED
    BY <2>1 DEF CallState
<1>2. call' = [call EXCEPT ![t] = c]
  BY DEF Goto
<1> HIDE DEF c
<1> QED
  BY <1>1, <1>2, CallSet

LEMMA SettleTyped ==
  ASSUME call \in [Task -> CallState], OfferAtHand, NEW t \in Task,
         NEW o \in {"ok", "failed"}, Settle(t, o)
  PROVE  call' \in [Task -> CallState] /\ OfferAtHand'
<1> DEFINE c == [call[t] EXCEPT !.step = "idle", !.since = 0, !.limit = 1, !.outcome = o]
<1>1. c \in CallState /\ c.step = "idle"
  <2>1. call[t] \in CallState
    OBVIOUS
  <2> QED
    BY <2>1 DEF CallState, Step
<1>2. call' = [call EXCEPT ![t] = c]
  BY DEF Settle
<1> HIDE DEF c
<1> QED
  BY <1>1, <1>2, CallSet

LEMMA FoundTyped ==
  ASSUME call \in [Task -> CallState], OfferAtHand, NEW t \in Task, NEW answer, Found(t, answer)
  PROVE  call' \in [Task -> CallState] /\ OfferAtHand'
<1> DEFINE c == [call[t] EXCEPT !.step = "idle", !.outcome = "failed", !.nokey = TRUE]
<1>1. CASE answer = "good"
  BY <1>1, GotoTyped DEF Found, Step
<1>2. CASE answer # "good"
  <2>1. c \in CallState /\ c.step = "idle"
    <3>1. call[t] \in CallState
      OBVIOUS
    <3> QED
      BY <3>1 DEF CallState, Step
  <2>2. call' = [call EXCEPT ![t] = c]
    BY <1>2 DEF Found
  <2> HIDE DEF c
  <2> QED
    BY <2>1, <2>2, CallSet
<1> QED
  BY <1>1, <1>2

\* A step of a call keeps the types of the calls.
LEMMA CallsTyped ==
  ASSUME McpAssumption, call \in [Task -> CallState], OfferAtHand, NEW t \in Task, Runs(t)
  PROVE  call' \in [Task -> CallState] /\ OfferAtHand'
<1>1. CASE Connect(t) \/ Share(t)
  BY <1>1, GotoTyped DEF Connect, Share, Step
<1>2. CASE Awaited(t)
  <2>1. AfterConnect(call[t].tool) \in Step \ {"pay", "settle"}
    BY DEF AfterConnect, Step
  <2>2. CASE promise = "open"
    BY <1>2, <2>1, <2>2, GotoTyped DEF Awaited
  <2>3. CASE promise # "open"
    BY <1>2, <2>3, SettleTyped DEF Awaited
  <2> QED
    BY <2>2, <2>3
<1>3. CASE Drain(t)
  BY <1>3, SettleTyped DEF Drain
<1>4. CASE FetchGiven(t) \/ SearchRegistry(t) \/ FetchWeb(t) \/ FetchFromRelay(t)
  BY <1>4, GotoTyped, FoundTyped DEF FetchGiven, SearchRegistry, FetchWeb, FetchFromRelay, Step
<1>5. CASE Request(t) \/ Buy(t)
  BY <1>5, GotoTyped DEF Request, Buy, Step
<1>6. CASE Reply(t) \/ Fetch(t)
  BY <1>6, SettleTyped DEF Reply, Fetch
<1>7. CASE Terms(t)
  <2>1. ASSUME NEW amount \in Amount,
               call' = [call EXCEPT ![t].step = "pay", ![t].offer = amount]
        PROVE  call' \in [Task -> CallState] /\ OfferAtHand'
    <3> DEFINE c == [call[t] EXCEPT !.step = "pay", !.offer = amount]
    <3>1. amount \in Nat
      BY DEF McpAssumption
    <3>2. c \in CallState /\ c.offer = amount
      <4>1. call[t] \in CallState
        OBVIOUS
      <4> QED
        BY <3>1, <4>1 DEF CallState, Step
    <3>3. call' = [call EXCEPT ![t] = c]
      BY <2>1
    <3> HIDE DEF c
    <3> QED
      BY <3>2, <3>3, CallSet
  <2> QED
    BY <1>7, <2>1, SettleTyped DEF Terms
<1>8. CASE Pay(t)
  <2>1. call[t].offer \in Amount
    BY <1>8 DEF Pay, At, OfferAtHand
  <2> QED
    BY <1>8, <2>1, GotoTyped DEF Pay, Step
<1>9. CASE Paid(t)
  <2>1. call[t].offer \in Amount /\ call[t] \in CallState
    BY <1>9 DEF Paid, At, OfferAtHand
  <2>2. Append(call[t].charged, call[t].offer) \in Seq(Amount)
    <3>1. call[t].charged \in Seq(Amount)
      BY <2>1 DEF CallState
    <3> QED
      BY <2>1, <3>1
  <2>3. ASSUME NEW o \in {"ok", "failed"},
               call' = [call EXCEPT ![t] = [Charge(t) EXCEPT !.step = "idle", !.outcome = o]]
        PROVE  call' \in [Task -> CallState] /\ OfferAtHand'
    <3> DEFINE x == Append(call[t].charged, call[t].offer)
               c == [Charge(t) EXCEPT !.step = "idle", !.outcome = o]
    <3>1. Charge(t) = [call[t] EXCEPT !.charged = x]
      BY DEF Charge
    <3>2. x \in Seq(Amount)
      BY <2>2
    <3> HIDE DEF x
    <3>3. c \in CallState /\ c.step = "idle"
      BY <2>1, <3>1, <3>2 DEF CallState, Step
    <3> HIDE DEF c
    <3>4. call' = [call EXCEPT ![t] = c]
      BY <2>3 DEF c
    <3> QED
      BY <3>3, <3>4, CallSet
  <2> QED
    BY <1>9, <2>3, SettleTyped DEF Paid
<1> QED
  BY <1>1, <1>2, <1>3, <1>4, <1>5, <1>6, <1>7, <1>8, <1>9 DEF Runs

\* What Drain leaves: the entries it did not take, in their order.
Leaves(got, m, f) ==
  /\ m \in Nat /\ f \in [1..m -> DOMAIN buffer \ got]
  /\ \A i, k \in 1..m : i < k => f[i] < f[k]
  /\ \A j \in DOMAIN buffer \ got : \E i \in 1..m : f[i] = j
  /\ buffer' = [i \in 1..m |-> buffer[f[i]]]

LEMMA DrainLeaves ==
  ASSUME buffer \in Seq(Entry), NEW t \in Task, Drain(t)
  PROVE  \E got, m, f :
           /\ got = Taken(call[t].since, call[t].limit)
           /\ got \subseteq DOMAIN buffer /\ Leaves(got, m, f)
<1>1. PICK got \in SUBSET DOMAIN buffer : got = Taken(call[t].since, call[t].limit)
  BY DEF Taken
<1>2. PICK m, f : Lists(f, m, DOMAIN buffer \ got) /\ KeptOf(buffer, got) = Through(buffer, f, m)
  BY KeptKeeps
<1>3. buffer' = Through(buffer, f, m)
  <2>1. buffer' = Kept(got)
    BY <1>1 DEF Drain
  <2>2. Kept(got) = KeptOf(buffer, got)
    BY DEF Kept, KeptOf
  <2> QED
    BY <1>2, <2>1, <2>2
<1>4. Leaves(got, m, f)
  <2>1. buffer' = [i \in 1..m |-> buffer[f[i]]]
    BY <1>3 DEF Through
  <2> QED
    BY <1>2, <2>1 DEF Leaves, Lists
<1> QED
  BY <1>1, <1>4

\* That is as well formed as what it found, and the rest was handed over.
LEMMA DrainTyped ==
  ASSUME Typed, NEW t \in Task, Drain(t)
  PROVE  /\ buffer' \in Seq(Entry) /\ Numbered'
         /\ positions' \subseteq 1..clock /\ handed' \subseteq 1..taken
         /\ since' \in Nat /\ since' <= clock + scene.skew
<1>3. PICK got, m, f : /\ got = Taken(call[t].since, call[t].limit)
                       /\ got \subseteq DOMAIN buffer /\ Leaves(got, m, f)
  BY DrainLeaves DEF Typed, TypeOK
<1>1. /\ handed' = handed \cup {buffer[i].n : i \in got}
      /\ positions' = positions \cup Newest({buffer[i].at : i \in got})
      /\ UNCHANGED <<clock, taken, scene>>
  BY <1>3 DEF Drain, Remember
<1>2. got \subseteq DOMAIN buffer
  BY <1>3
<1>4. /\ m \in Nat /\ f \in [1..m -> DOMAIN buffer \ got]
      /\ buffer' = [i \in 1..m |-> buffer[f[i]]]
  BY <1>3 DEF Leaves
<1>5. \A i \in DOMAIN buffer : buffer[i] \in Entry
  BY DEF Typed, TypeOK
<1>6. buffer' \in Seq(Entry) /\ DOMAIN buffer' = 1..m /\ \A i \in 1..m : buffer'[i] = buffer[f[i]]
  <2>1. \A i \in 1..m : buffer[f[i]] \in Entry
    BY <1>4, <1>5
  <2>2. [i \in 1..m |-> buffer[f[i]]] \in Seq(Entry)
    BY <1>4, <2>1
  <2> QED
    BY <1>4, <2>2
<1>7. Numbered'
  <2>1. \A i \in 1..m : /\ buffer[f[i]].n \in 1..taken /\ buffer[f[i]].at \in 1..clock
                        /\ buffer[f[i]].stamp <= buffer[f[i]].at + scene.skew
    BY <1>4 DEF Typed, Numbered
  <2> QED
    BY <1>1, <1>6, <2>1 DEF Numbered
<1>8. positions' \subseteq 1..clock
  BY <1>1, <1>2 DEF Typed, TypeOK, Numbered, Newest
<1>9. handed' \subseteq 1..taken
  BY <1>1, <1>2 DEF Typed, TypeOK, Numbered
<1>10. since' \in Nat /\ since' <= clock + scene.skew
  <2>1. Remember(got)
    BY <1>3 DEF Drain
  <2> QED
    BY <1>2, <2>1, Remembers
<1> QED
  BY <1>6, <1>7, <1>8, <1>9, <1>10

\* A delivered entry is the newest of all, by number and by time.
LEMMA EntryComes ==
  ASSUME Typed, NEW m \in Message, Deliver(m)
  PROVE  \E e : /\ buffer' = Append(buffer, e) /\ e \in Entry
                /\ e.n = taken + 1 /\ e.at = clock /\ e.stamp <= clock + scene.skew
<1>1. PICK stamp \in IF m \in scene.receipts THEN 1 .. (clock + scene.skew) ELSE {0} :
        buffer' = Append(buffer, [n |-> taken + 1, at |-> clock, stamp |-> stamp,
                                  created |-> scene.created[m], above |-> m \in scene.above])
  BY DEF Deliver
<1> DEFINE e == [n |-> taken + 1, at |-> clock, stamp |-> stamp,
                 created |-> scene.created[m], above |-> m \in scene.above]
<1>2. clock \in Nat /\ taken \in Nat /\ scene.skew \in Nat /\ scene.created[m] \in Nat
  BY SkewIsNat DEF Typed, TypeOK, Scenario
<1>3. stamp \in Nat /\ stamp <= clock + scene.skew
  BY <1>1, <1>2
<1>4. /\ e \in Entry /\ e.n = taken + 1 /\ e.at = clock /\ e.stamp = stamp
      /\ buffer' = Append(buffer, e)
  BY <1>1, <1>2, <1>3 DEF Entry
<1> HIDE DEF e
<1> QED
  BY <1>3, <1>4

LEMMA DeliverTyped ==
  ASSUME Typed, NEW m \in Message, Deliver(m)
  PROVE  buffer' \in Seq(Entry) /\ Numbered' /\ taken' \in Nat
<1>1. PICK e :
        /\ buffer' = Append(buffer, e) /\ e \in Entry
        /\ e.n = taken + 1 /\ e.at = clock /\ e.stamp <= clock + scene.skew
  BY EntryComes
<1>2. taken' = taken + 1 /\ clock' = clock /\ scene' = scene
  BY DEF Deliver
<1>3. taken' \in Nat /\ e.n \in 1..taken' /\ e.at \in 1..clock /\ e.stamp <= e.at + scene.skew
  BY <1>1, <1>2 DEF Typed, TypeOK
<1>4. /\ buffer' \in Seq(Entry) /\ DOMAIN buffer' = DOMAIN buffer \cup {Len(buffer) + 1}
      /\ buffer'[Len(buffer) + 1] = e /\ \A i \in DOMAIN buffer : buffer'[i] = buffer[i]
  BY <1>1 DEF Typed, TypeOK
<1>5. ASSUME NEW i \in DOMAIN buffer'
      PROVE  /\ buffer'[i].n \in 1..taken' /\ buffer'[i].at \in 1..clock'
             /\ buffer'[i].stamp <= buffer'[i].at + scene'.skew
  <2>1. CASE i = Len(buffer) + 1
    BY <2>1, <1>2, <1>3, <1>4
  <2>2. CASE i \in DOMAIN buffer
    <3>1. /\ buffer[i].n \in 1..taken /\ buffer[i].at \in 1..clock /\ taken \in Nat
          /\ buffer[i].stamp <= buffer[i].at + scene.skew
      BY <2>2 DEF Typed, TypeOK, Numbered
    <3>2. buffer[i].n \in 1..taken'
      BY <3>1, <1>2
    <3> QED
      BY <3>1, <3>2, <2>2, <1>2, <1>4
  <2> QED
    BY <2>1, <2>2, <1>4
<1> QED
  BY <1>3, <1>4, <1>5 DEF Numbered

LEMMA TypedStep ==
  ASSUME McpAssumption, Typed, [Next]_vars
  PROVE  Typed'
<1>1. ASSUME NEW t \in Task, Drain(t) PROVE Typed'
  <2>1. call' \in [Task -> CallState] /\ OfferAtHand'
    BY <1>1, CallsTyped DEF Typed, TypeOK, Runs
  <2> QED
    BY <1>1, <2>1, DrainTyped DEF Drain, Typed, TypeOK
<1>2. ASSUME NEW t \in Task, Runs(t), ~Drain(t) PROVE Typed'
  <2>1. call' \in [Task -> CallState] /\ OfferAtHand'
    BY <1>2, CallsTyped DEF Typed, TypeOK
  <2>2. UNCHANGED <<scene, buffer, clock, waiting, due, since, positions, handed, taken>>
    BY <1>2 DEF Runs, Connect, Share, Awaited, FetchGiven, SearchRegistry, FetchWeb,
       FetchFromRelay, Request, Reply, Fetch, Buy, Terms, Pay, Paid, process, outside
  <2>3. faults' \in Nat
    BY <1>2 DEF Runs, Connect, Share, Awaited, FetchGiven, SearchRegistry, FetchWeb,
       FetchFromRelay, Request, Reply, Fetch, Buy, Terms, Pay, Paid, process, outside,
       Fault, Typed, TypeOK
  <2>4. /\ opened' \in Nat /\ link' \in {"off", "joining", "up", "cut"}
        /\ promise' \in {"none", "pending", "open", "failed"}
    <3>1. CASE Connect(t)
      BY <3>1 DEF Connect, Typed, TypeOK
    <3>2. CASE ~Connect(t)
      BY <1>2, <3>2, OnlyConnectOpens DEF Typed, TypeOK
    <3> QED
      BY <3>1, <3>2
  <2>5. Numbered'
    BY <2>2 DEF Typed, Numbered
  <2> QED
    BY <2>1, <2>2, <2>3, <2>4, <2>5 DEF Typed, TypeOK
<1>3. ASSUME NEW t \in Task, NEW tool \in Tools, NEW from \in {0, since},
             NEW limit \in Limit \cup {1}, Begin(t, tool, from, limit)
      PROVE  Typed'
  <2>1. call' \in [Task -> CallState] /\ OfferAtHand'
    <3> DEFINE c == [NoCall EXCEPT !.tool = tool, !.since = from, !.limit = limit,
                                   !.step = FirstStep(tool)]
    <3>1. FirstStep(tool) \in Step \ {"pay", "settle"}
      BY DEF FirstStep, Step
    <3>2. from \in Nat /\ limit \in Nat
      BY DEF Typed, TypeOK, McpAssumption
    <3>3. c \in CallState /\ c.step = FirstStep(tool)
      BY <3>1, <3>2, NoCallType DEF CallState
    <3>4. call' = [call EXCEPT ![t] = c]
      BY <1>3 DEF Begin
    <3> HIDE DEF c
    <3> QED
      BY <3>1, <3>3, <3>4, CallSet DEF Typed, TypeOK
  <2>2. Numbered'
    BY <1>3 DEF Begin, process, outside, Typed, Numbered
  <2> QED
    BY <1>3, <2>1, <2>2 DEF Begin, process, outside, Typed, TypeOK
<1>4. CASE JoinReply \/ JoinFails \/ Cut
  <2>1. UNCHANGED <<scene, opened, buffer, call, clock, waiting, since, positions, handed, taken>>
    BY <1>4 DEF JoinReply, JoinFails, Cut
  <2>2. /\ faults' \in Nat /\ due' \subseteq Message
        /\ link' \in {"off", "joining", "up", "cut"}
        /\ promise' \in {"none", "pending", "open", "failed"}
    BY <1>4 DEF JoinReply, JoinFails, Cut, Fault, Typed, TypeOK
  <2>3. OfferAtHand' /\ Numbered'
    BY <2>1 DEF Typed, OfferAtHand, Numbered
  <2> QED
    BY <2>1, <2>2, <2>3 DEF Typed, TypeOK
<1>5. CASE Restart
  <2>1. call' \in [Task -> CallState] /\ OfferAtHand'
    <3>1. call' = [t \in Task |-> NoCall]
      BY <1>5 DEF Restart
    <3>2. NoCall.step = "idle"
      BY DEF NoCall
    <3> QED
      BY <3>1, <3>2, NoCallType DEF OfferAtHand
  <2>2. buffer' \in Seq(Entry) /\ Numbered'
    BY <1>5 DEF Restart, Numbered
  <2> QED
    BY <1>5, <2>1, <2>2 DEF Restart, Fault, Typed, TypeOK
<1>6. ASSUME NEW m \in Message, Deliver(m) PROVE Typed'
  <2>1. handed' \subseteq 1..taken'
    BY <1>6 DEF Deliver, Typed, TypeOK
  <2>2. faults' \in Nat /\ waiting' \subseteq Message /\ due' \subseteq Message
    BY <1>6 DEF Deliver, Fault, Typed, TypeOK
  <2> QED
    BY <1>6, <2>1, <2>2, DeliverTyped DEF Deliver, Typed, TypeOK, OfferAtHand
<1>7. CASE Tick
  <2>1. /\ clock' \in Nat /\ clock' >= 1 /\ 1..clock \subseteq 1..clock'
        /\ since' <= clock' + scene'.skew
    BY <1>7, SkewIsNat DEF Tick, Typed, TypeOK
  <2>2. Numbered'
    BY <1>7, <2>1 DEF Tick, process, Typed, Numbered
  <2> QED
    BY <1>7, <2>1, <2>2 DEF Tick, process, Typed, TypeOK, OfferAtHand
<1>8. CASE UNCHANGED vars
  BY <1>8 DEF vars, process, outside, Typed, TypeOK, OfferAtHand, Numbered
<1> QED
  BY <1>1, <1>2, <1>3, <1>4, <1>5, <1>6, <1>7, <1>8 DEF Next

LEMMA TypedAlways == Spec => []Typed
<1>1. Typed /\ [Next]_vars => Typed'
  BY TypedStep, McpAssumption
<1>2. Init => Typed
  BY TypedInit, McpAssumption
<1> QED
  BY <1>1, <1>2, PTL DEF Spec

\* The variables keep their types: whatever a purchase pays is an amount, and
\* whatever an agent passes as since is a time an entry had.
THEOREM McpTypes == Spec => []TypeOK
<1>1. Typed => TypeOK
  BY DEF Typed
<1> QED
  BY <1>1, TypedAlways, PTL

-----------------------------------------------------------------------------
(* The buffer as a mailbox.  Its entries stay in the order they came, by   *)
(* number and by time, so that no number is in it twice: what Drain leaves *)
(* then holds exactly the numbers it did not hand over.                    *)

Ordered ==
  \A i, k \in DOMAIN buffer :
    i < k => buffer[i].n < buffer[k].n /\ buffer[i].at <= buffer[k].at

BufferInv == Typed /\ Ordered

LEMMA DrainOrdered ==
  ASSUME BufferInv, NEW t \in Task, Drain(t)
  PROVE  Ordered'
<1>1. PICK got, m, f : got \subseteq DOMAIN buffer /\ Leaves(got, m, f)
  BY DrainLeaves DEF BufferInv, Typed, TypeOK
<1>2. /\ m \in Nat /\ f \in [1..m -> DOMAIN buffer \ got]
      /\ \A i, k \in 1..m : i < k => f[i] < f[k]
      /\ DOMAIN buffer' = 1..m /\ \A i \in 1..m : buffer'[i] = buffer[f[i]]
  BY <1>1 DEF Leaves
<1>3. ASSUME NEW i \in 1..m, NEW k \in 1..m, i < k
      PROVE  buffer'[i].n < buffer'[k].n /\ buffer'[i].at <= buffer'[k].at
  <2>1. f[i] \in DOMAIN buffer /\ f[k] \in DOMAIN buffer /\ f[i] < f[k]
    BY <1>2, <1>3
  <2> QED
    BY <2>1, <1>2 DEF BufferInv, Ordered
<1> QED
  BY <1>2, <1>3 DEF Ordered

LEMMA DeliverAppends ==
  ASSUME Typed, NEW m \in Message, Deliver(m)
  PROVE  /\ DOMAIN buffer' = DOMAIN buffer \cup {Len(buffer) + 1}
         /\ buffer'[Len(buffer) + 1].n = taken + 1 /\ buffer'[Len(buffer) + 1].at = clock
         /\ \A i \in DOMAIN buffer : buffer'[i] = buffer[i]
         /\ Len(buffer) \in Nat /\ DOMAIN buffer = 1..Len(buffer)
<1>1. PICK e : buffer' = Append(buffer, e) /\ e.n = taken + 1 /\ e.at = clock
  BY EntryComes
<1>2. buffer \in Seq(Entry)
  BY DEF Typed, TypeOK
<1> QED
  BY <1>1, <1>2

LEMMA BufferStep ==
  ASSUME McpAssumption, BufferInv, [Next]_vars
  PROVE  BufferInv'
<1>1. Typed'
  BY TypedStep DEF BufferInv
<1>2. ASSUME NEW t \in Task, Drain(t) PROVE Ordered'
  BY <1>2, DrainOrdered
<1>3. ASSUME NEW m \in Message, Deliver(m) PROVE Ordered'
  <2>1. /\ DOMAIN buffer' = DOMAIN buffer \cup {Len(buffer) + 1}
        /\ buffer'[Len(buffer) + 1].n = taken + 1 /\ buffer'[Len(buffer) + 1].at = clock
        /\ \A i \in DOMAIN buffer : buffer'[i] = buffer[i]
        /\ Len(buffer) \in Nat /\ DOMAIN buffer = 1..Len(buffer)
    BY <1>3, DeliverAppends DEF BufferInv
  <2>2. ASSUME NEW i \in DOMAIN buffer', NEW k \in DOMAIN buffer', i < k
        PROVE  buffer'[i].n < buffer'[k].n /\ buffer'[i].at <= buffer'[k].at
    <3>1. i \in DOMAIN buffer
      BY <2>1, <2>2
    <3>2. CASE k \in DOMAIN buffer
      BY <3>1, <3>2, <2>1, <2>2 DEF BufferInv, Ordered
    <3>3. CASE k = Len(buffer) + 1
      <4>1. buffer[i].n \in 1..taken /\ buffer[i].at \in 1..clock /\ taken \in Nat /\ clock \in Nat
        BY <3>1 DEF BufferInv, Typed, TypeOK, Numbered
      <4>2. buffer[i].n < taken + 1 /\ buffer[i].at <= clock
        BY <4>1
      <4> QED
        BY <4>2, <3>1, <3>3, <2>1
    <3> QED
      BY <2>1, <3>2, <3>3
  <2> QED
    BY <2>2 DEF Ordered
<1>4. ASSUME Restart PROVE Ordered'
  BY <1>4 DEF Restart, Ordered
<1>5. ASSUME buffer' = buffer PROVE Ordered'
  BY <1>5 DEF BufferInv, Ordered
<1>6. \/ \E t \in Task : Drain(t)
      \/ \E m \in Message : Deliver(m)
      \/ Restart
      \/ UNCHANGED <<buffer, handed, taken>>
  BY DEF Next, Runs, Connect, Share, Awaited, FetchGiven, SearchRegistry, FetchWeb,
     FetchFromRelay, Request, Reply, Fetch, Buy, Terms, Pay, Paid, Begin, JoinReply,
     JoinFails, Cut, Tick, vars, process, outside
<1> QED
  BY <1>1, <1>2, <1>3, <1>4, <1>5, <1>6 DEF BufferInv

LEMMA BufferAlways == Spec => []BufferInv
<1>1. Init => BufferInv
  <2> SUFFICES ASSUME Init PROVE BufferInv
    OBVIOUS
  <2>1. Typed
    BY TypedInit, McpAssumption
  <2>2. Ordered
    BY DEF Init, Ordered
  <2> QED
    BY <2>1, <2>2 DEF BufferInv
<1>2. BufferInv /\ [Next]_vars => BufferInv'
  BY BufferStep, McpAssumption
<1> QED
  BY <1>1, <1>2, PTL DEF Spec

held == {buffer[i].n : i \in DOMAIN buffer}

\* What Drain hands over is what is no longer held.
LEMMA DrainHands ==
  ASSUME BufferInv, NEW t \in Task, Drain(t)
  PROVE  \E given \in SUBSET held :
           held' = held \ given /\ handed' = handed \cup given /\ taken' = taken
<1>1. PICK got, m, f : /\ got = Taken(call[t].since, call[t].limit)
                       /\ got \subseteq DOMAIN buffer /\ Leaves(got, m, f)
  BY DrainLeaves DEF BufferInv, Typed, TypeOK
<1>2. /\ m \in Nat /\ f \in [1..m -> DOMAIN buffer \ got]
      /\ \A j \in DOMAIN buffer \ got : \E i \in 1..m : f[i] = j
      /\ DOMAIN buffer' = 1..m /\ \A i \in 1..m : buffer'[i] = buffer[f[i]]
  BY <1>1 DEF Leaves
<1> DEFINE given == {buffer[i].n : i \in got}
<1>3. given \in SUBSET held
  BY <1>1 DEF held
<1>4. handed' = handed \cup given /\ taken' = taken
  BY <1>1 DEF Drain, Remember
<1>5. \A i, k \in DOMAIN buffer : buffer[i].n = buffer[k].n => i = k
  <2>1. ASSUME NEW i \in DOMAIN buffer, NEW k \in DOMAIN buffer, i # k
        PROVE  buffer[i].n # buffer[k].n
    <3>1. i \in Nat /\ k \in Nat
      BY DEF BufferInv, Typed, TypeOK
    <3>2. buffer[i].n \in Nat /\ buffer[k].n \in Nat
      <4>1. buffer[i] \in Entry /\ buffer[k] \in Entry
        BY DEF BufferInv, Typed, TypeOK
      <4> QED
        BY <4>1 DEF Entry
    <3>3. i < k \/ k < i
      BY <3>1, <2>1
    <3>4. buffer[i].n < buffer[k].n \/ buffer[k].n < buffer[i].n
      BY <3>3 DEF BufferInv, Ordered
    <3> QED
      BY <3>2, <3>4
  <2> QED
    BY <2>1
<1>6. ASSUME NEW n \in held' PROVE n \in held \ given
  <2>1. PICK i \in 1..m : n = buffer[f[i]].n
    BY <1>2 DEF held
  <2>2. f[i] \in DOMAIN buffer \ got
    BY <1>2
  <2>3. n \in held
    BY <2>1, <2>2 DEF held
  <2>4. n \notin given
    BY <1>1, <1>5, <2>1, <2>2
  <2> QED
    BY <2>3, <2>4
<1>7. ASSUME NEW n \in held \ given PROVE n \in held'
  <2>1. PICK j \in DOMAIN buffer : n = buffer[j].n
    BY DEF held
  <2>2. j \in DOMAIN buffer \ got
    BY <2>1
  <2>3. PICK i \in 1..m : f[i] = j
    BY <1>2, <2>2
  <2>4. i \in DOMAIN buffer' /\ buffer'[i].n = n
    BY <1>2, <2>1, <2>3
  <2> QED
    BY <2>4 DEF held
<1>8. held' = held \ given
  BY <1>6, <1>7
<1> HIDE DEF given
<1> QED
  BY <1>3, <1>4, <1>8

\* The buffer refines the mailbox: overlapping receive calls, limits and positions
\* neither lose an entry nor hand it over twice (drainMessages).
THEOREM BufferRefinesMailbox == Spec => BufferIsMailbox
<1>1. Init => Box!Init
  BY DEF Init, Box!Init
<1>2. BufferInv /\ [Next]_vars
        => [Box!Next]_<<taken, {buffer[i].n : i \in DOMAIN buffer}, handed>>
  <2> SUFFICES ASSUME BufferInv, [Next]_vars
      PROVE  [Box!Next]_<<taken, held, handed>>
    BY DEF held
  <2>1. ASSUME NEW t \in Task, Drain(t) PROVE Box!Hand
    <3>1. PICK given \in SUBSET held :
            held' = held \ given /\ handed' = handed \cup given /\ taken' = taken
      BY <2>1, DrainHands
    <3> QED
      BY <3>1 DEF Box!Hand, held
  <2>2. ASSUME NEW m \in Message, Deliver(m) PROVE Box!Take
    <3>1. /\ DOMAIN buffer' = DOMAIN buffer \cup {Len(buffer) + 1}
          /\ buffer'[Len(buffer) + 1].n = taken + 1
          /\ \A i \in DOMAIN buffer : buffer'[i] = buffer[i]
      BY <2>2, DeliverAppends DEF BufferInv
    <3>2. held' = held \cup {taken + 1}
      BY <3>1 DEF held
    <3> QED
      BY <2>2, <3>2 DEF Deliver, Box!Take, held
  <2>3. ASSUME Restart PROVE Box!End
    <3>1. held' = {}
      BY <2>3 DEF Restart, held
    <3> QED
      BY <2>3, <3>1 DEF Restart, Box!End, held
  <2>4. ASSUME UNCHANGED <<buffer, handed, taken>> PROVE UNCHANGED <<taken, held, handed>>
    BY <2>4 DEF held
  <2>5. \/ \E t \in Task : Drain(t)
        \/ \E m \in Message : Deliver(m)
        \/ Restart
        \/ UNCHANGED <<buffer, handed, taken>>
    BY DEF Next, Runs, Connect, Share, Awaited, FetchGiven, SearchRegistry, FetchWeb,
       FetchFromRelay, Request, Reply, Fetch, Buy, Terms, Pay, Paid, Begin, JoinReply,
       JoinFails, Cut, Tick, vars, process, outside
  <2> QED
    BY <2>1, <2>2, <2>3, <2>4, <2>5 DEF Box!Next
<1> QED
  BY <1>1, <1>2, BufferAlways, PTL DEF Spec, BufferIsMailbox, Box!Spec

-----------------------------------------------------------------------------
(* Ties.  What the limit cuts off is never older than what is handed over, *)
(* because the buffer is ordered by time and the count of eligible entries *)
(* only grows along it.  A position is never beyond what it was read from. *)

Positioned ==
  /\ \A t \in Task : call[t].since <= since
  /\ Level => since = 0 \/ \E p \in positions : since <= p

TiesInv == BufferInv /\ OnlyTiesLeftBehind /\ Positioned

LEMMA CountGrows ==
  ASSUME NEW from, NEW i \in Nat, NEW k \in Nat, i <= k
  PROVE  Count(from, i) \in Nat /\ Count(from, k) \in Nat /\ Count(from, i) <= Count(from, k)
<1> DEFINE A == {j \in 1..i : Eligible(buffer[j], from)}
           B == {j \in 1..k : Eligible(buffer[j], from)}
<1>1. IsFiniteSet(A) /\ IsFiniteSet(B)
  <2>1. IsFiniteSet(1..i) /\ IsFiniteSet(1..k)
    BY FS_Interval
  <2>2. A \in SUBSET (1..i) /\ B \in SUBSET (1..k)
    OBVIOUS
  <2> HIDE DEF A, B
  <2> QED
    BY <2>1, <2>2, FS_Subset
<1>2. A \in SUBSET B
  <2>1. ASSUME NEW x \in 1..i PROVE x \in 1..k
    OBVIOUS
  <2> QED
    BY <2>1
<1>3. Count(from, i) = Cardinality(A) /\ Count(from, k) = Cardinality(B)
  BY DEF Count
<1> HIDE DEF A, B
<1>4. Cardinality(A) \in Nat /\ Cardinality(B) \in Nat
  BY <1>1, FS_CardinalityType
<1>5. Cardinality(A) <= Cardinality(B)
  BY <1>1, <1>2, FS_Subset
<1> QED
  BY <1>3, <1>4, <1>5

\* One answer of drainMessages holds at most `limit` entries, the oldest that
\* match: whatever it leaves that matches lies behind all it took, and it leaves
\* nothing that matches unless it took as many as it may.
THEOREM OldestFirst ==
  ASSUME buffer \in Seq(Entry), NEW from, NEW limit \in Nat
  PROVE  LET matching == {i \in DOMAIN buffer : Eligible(buffer[i], from)}
             got == Taken(from, limit)
         IN  /\ got \subseteq matching
             /\ Cardinality(got) \in 0 .. limit
             /\ \A i \in got, j \in matching \ got : i < j
             /\ matching # got => Cardinality(got) = limit
<1> DEFINE n == Len(buffer)
           matching == {i \in DOMAIN buffer : Eligible(buffer[i], from)}
           got == Taken(from, limit)
<1>1. n \in Nat /\ DOMAIN buffer = 1 .. n
  OBVIOUS
<1>2. \A i \in 1 .. n : Count(from, i) = Cardinality(UpTo(matching, i))
  <2>1. ASSUME NEW i \in 1 .. n
        PROVE  {j \in 1 .. i : Eligible(buffer[j], from)} = UpTo(matching, i)
    BY <1>1, <2>1 DEF UpTo
  <2> QED
    BY <2>1 DEF Count
<1>3. matching \in SUBSET (1 .. n)
  BY <1>1
<1>4. got = {i \in matching : Cardinality(UpTo(matching, i)) <= limit}
  BY <1>1, <1>2 DEF Taken
<1> HIDE DEF n, matching, got
<1>5. \A i \in matching : Cardinality(UpTo(matching, i)) \in Nat \ {0}
  <2>1. ASSUME NEW i \in matching PROVE Cardinality(UpTo(matching, i)) \in Nat \ {0}
    <3>1. /\ Cardinality(matching) \in Nat
          /\ Cardinality(UpTo(matching, i)) \in 1 .. Cardinality(matching)
      BY <1>1, <1>3, RankRange
    <3> QED
      BY <3>1
  <2> QED
    BY <2>1
<1>m. got \subseteq matching /\ \A i \in matching : i \in Nat /\ i <= n
  BY <1>1, <1>3, <1>4
<1>6. ASSUME NEW i \in got, NEW j \in matching \ got PROVE i < j
  <2>1. i \in Nat /\ j \in Nat /\ i \in matching /\ i # j
    BY <1>1, <1>3, <1>4
  <2>2. ~(j < i)
    <3>1. SUFFICES ASSUME j < i PROVE FALSE
      OBVIOUS
    <3>2. Cardinality(UpTo(matching, j)) < Cardinality(UpTo(matching, i))
      BY <1>1, <1>3, <2>1, <3>1, RankGrows
    <3>3. Cardinality(UpTo(matching, j)) <= limit
      BY <1>4, <1>5, <2>1, <3>2
    <3> QED
      BY <1>4, <3>3
  <2> QED
    BY <2>1, <2>2
<1>7. IsFiniteSet(got) /\ Cardinality(got) \in Nat
  <2>1. IsFiniteSet(1 .. n) /\ got \subseteq 1 .. n
    BY <1>1, <1>3, <1>m, FS_Interval
  <2>2. IsFiniteSet(got)
    BY <2>1, FS_Subset
  <2> QED
    BY <2>2, FS_CardinalityType
<1>8. Cardinality(got) <= limit
  <2>1. CASE got = {}
    BY <2>1, FS_EmptySet
  <2>2. CASE got # {}
    <3>1. got \in SUBSET Nat /\ \A x \in got : x <= n
      BY <1>m
    <3>2. PICK m \in got : \A k \in got : k <= m
      BY <1>1, <2>2, <3>1, Largest
    <3>3. m \in matching /\ Cardinality(UpTo(matching, m)) <= limit
      BY <1>4, <3>2
    <3>4. got \subseteq UpTo(matching, m)
      BY <1>4, <3>2 DEF UpTo
    <3>5. IsFiniteSet(UpTo(matching, m))
      BY <1>1, <1>3, <3>3, RankRange
    <3>6. Cardinality(got) <= Cardinality(UpTo(matching, m))
      BY <3>4, <3>5, FS_Subset
    <3> QED
      BY <1>5, <1>7, <3>3, <3>6
  <2> QED
    BY <2>1, <2>2
<1>9. ASSUME matching # got PROVE limit <= Cardinality(got)
  <2> DEFINE left == matching \ got
  <2>1. left # {} /\ left \in SUBSET Nat
    BY <1>m, <1>9
  <2>2. PICK j \in left : \A k \in left : j <= k
    BY <2>1, Smallest
  <2>3. j \in matching /\ j \in Nat /\ Cardinality(UpTo(matching, j)) \in Nat
        /\ limit < Cardinality(UpTo(matching, j))
    BY <1>4, <1>5, <2>1, <2>2
  <2>4. UpTo(matching, j) \ {j} \subseteq got
    <3>1. ASSUME NEW k \in UpTo(matching, j), k # j PROVE k \in got
      <4>1. k \in matching /\ k <= j /\ k \in Nat
        BY <1>1, <1>3 DEF UpTo
      <4>2. ~(j <= k)
        BY <2>3, <3>1, <4>1
      <4> QED
        BY <2>2, <4>1, <4>2
    <3> QED
      BY <3>1
  <2>5. IsFiniteSet(UpTo(matching, j)) /\ j \in UpTo(matching, j)
    <3>1. IsFiniteSet(UpTo(matching, j))
      BY <1>1, <1>3, <2>3, RankRange
    <3>2. j \in UpTo(matching, j)
      BY <2>3 DEF UpTo
    <3> QED
      BY <3>1, <3>2
  <2>6. Cardinality(UpTo(matching, j) \ {j}) = Cardinality(UpTo(matching, j)) - 1
    BY <2>5, FS_RemoveElement
  <2>7. Cardinality(UpTo(matching, j) \ {j}) <= Cardinality(got)
    BY <1>7, <2>4, FS_Subset
  <2> QED
    BY <1>7, <2>3, <2>6, <2>7
<1>10. /\ Cardinality(got) \in 0 .. limit
       /\ matching # got => Cardinality(got) = limit
  BY <1>7, <1>8, <1>9
<1> QED
  BY <1>6, <1>m, <1>10 DEF matching, got

LEMMA RunsKeepsSince ==
  ASSUME call \in [Task -> CallState], NEW u \in Task, Runs(u), NEW t \in Task
  PROVE  call'[t].since \in {0, call[t].since}
<1>1. call[u] \in CallState /\ call[t] \in CallState
  OBVIOUS
<1> USE <1>1
<1>2. ASSUME NEW s, Goto(u, s) PROVE call'[t].since \in {0, call[t].since}
  BY <1>2 DEF Goto
<1>3. ASSUME NEW o, Settle(u, o) PROVE call'[t].since \in {0, call[t].since}
  BY <1>3 DEF Settle
<1>4. ASSUME NEW a, Found(u, a) PROVE call'[t].since \in {0, call[t].since}
  <2>1. CASE a = "good"
    BY <2>1, <1>4, <1>2 DEF Found
  <2>2. CASE a # "good"
    <3> DEFINE c == [call[u] EXCEPT !.step = "idle", !.outcome = "failed", !.nokey = TRUE]
    <3>1. c.since = call[u].since
      BY DEF CallState
    <3>2. call' = [call EXCEPT ![u] = c]
      BY <2>2, <1>4 DEF Found
    <3> HIDE DEF c
    <3> QED
      BY <3>1, <3>2
  <2> QED
    BY <2>1, <2>2
<1>5. CASE Terms(u)
  <2>1. ASSUME NEW a, call' = [call EXCEPT ![u].step = "pay", ![u].offer = a]
        PROVE  call'[t].since \in {0, call[t].since}
    BY <2>1
  <2> QED
    BY <2>1, <1>3, <1>5 DEF Terms
<1>6. CASE Paid(u)
  <2>1. ASSUME NEW o, call' = [call EXCEPT ![u] = [Charge(u) EXCEPT !.step = "idle", !.outcome = o]]
        PROVE  call'[t].since \in {0, call[t].since}
    BY <2>1 DEF Charge
  <2> QED
    BY <2>1, <1>3, <1>6 DEF Paid
<1>7. CASE Awaited(u)
  BY <1>7, <1>2, <1>3 DEF Awaited
<1>8. CASE FetchGiven(u) \/ SearchRegistry(u) \/ FetchWeb(u) \/ FetchFromRelay(u)
  BY <1>8, <1>2, <1>4 DEF FetchGiven, SearchRegistry, FetchWeb, FetchFromRelay
<1>9. CASE Connect(u) \/ Share(u) \/ Request(u) \/ Buy(u) \/ Pay(u)
  BY <1>9, <1>2 DEF Connect, Share, Request, Buy, Pay
<1>10. CASE Drain(u) \/ Reply(u) \/ Fetch(u)
  BY <1>10, <1>3 DEF Drain, Reply, Fetch
<1> QED
  BY <1>5, <1>6, <1>7, <1>8, <1>9, <1>10 DEF Runs

LEMMA DrainLeavesTies ==
  ASSUME TiesInv, NEW t \in Task, Drain(t)
  PROVE  OnlyTiesLeftBehind'
<1> DEFINE from == call[t].since
           limit == call[t].limit
<1>1. PICK got, m, f : /\ got = Taken(from, limit)
                       /\ got \subseteq DOMAIN buffer /\ Leaves(got, m, f)
  BY DrainLeaves DEF TiesInv, BufferInv, Typed, TypeOK
<1>2. /\ m \in Nat /\ f \in [1..m -> DOMAIN buffer \ got]
      /\ DOMAIN buffer' = 1..m /\ \A i \in 1..m : buffer'[i] = buffer[f[i]]
  BY <1>1 DEF Leaves
<1>3. /\ positions' = positions \cup Newest({buffer[i].at : i \in got})
      /\ scene' = scene /\ since \in Nat /\ Remember(got)
  BY <1>1 DEF Drain, Remember, TiesInv, BufferInv, Typed, TypeOK
<1>4. /\ since' \in {since} \cup {Position(buffer[i]) : i \in got}
      /\ since' \in Nat /\ since <= since'
  BY <1>1, <1>3, Remembers DEF TiesInv, BufferInv
<1>5. from \in Nat /\ from <= since
  BY DEF TiesInv, Positioned, BufferInv, Typed, TypeOK, CallState
<1> SUFFICES ASSUME Level, NEW i \in 1..m, buffer'[i].at <= since'
             PROVE  buffer'[i].at \in positions'
  BY <1>2, <1>3 DEF OnlyTiesLeftBehind, Level
<1>7. PICK j \in DOMAIN buffer : j = f[i] /\ j \notin got /\ buffer'[i] = buffer[j]
  BY <1>2
<1>8. buffer[j].at \in Nat /\ j \in Nat
  BY DEF TiesInv, BufferInv, Typed, TypeOK, Numbered
<1>9. CASE buffer[j].at <= since
  BY <1>9, <1>7, <1>3 DEF TiesInv, OnlyTiesLeftBehind
<1>10. CASE since < buffer[j].at
  <2>1. PICK k \in got : since' = Position(buffer[k])
    BY <1>3, <1>4, <1>7, <1>8, <1>10
  <2>2. Eligible(buffer[j], from)
    <3>1. buffer[j].at > from
      BY <1>3, <1>5, <1>8, <1>10
    <3> QED
      BY <3>1 DEF Eligible
  <2>3. ASSUME NEW l \in got
        PROVE  l \in DOMAIN buffer /\ buffer[l].at \in Nat /\ buffer[l].at <= buffer[j].at
    <3>1. l \in DOMAIN buffer /\ l \in Nat /\ buffer[l].at \in Nat /\ l # j
      <4>1. l \in DOMAIN buffer
        BY <1>1
      <4> QED
        BY <4>1, <1>7 DEF TiesInv, BufferInv, Typed, TypeOK, Numbered
    <3>2. ~(j < l)
      <4>1. SUFFICES ASSUME j < l PROVE FALSE
        OBVIOUS
      <4>2. ~(Count(from, j) <= limit) /\ Count(from, l) <= limit
        BY <2>2, <1>1, <1>7 DEF Taken
      <4>3. /\ Count(from, j) \in Nat /\ Count(from, l) \in Nat
            /\ Count(from, j) <= Count(from, l)
        BY <4>1, <3>1, <1>8, CountGrows
      <4>4. limit \in Nat
        BY DEF TiesInv, BufferInv, Typed, TypeOK, CallState
      <4> HIDE DEF from, limit
      <4> QED
        BY <4>2, <4>3, <4>4
    <3>3. l < j
      BY <3>1, <3>2, <1>8
    <3> QED
      BY <3>1, <3>3 DEF TiesInv, BufferInv, Ordered
  <2>4. Position(buffer[k]) <= buffer[k].at
    BY <2>3, PositionIs DEF TiesInv, BufferInv
  <2>5. buffer[k].at = buffer[j].at
    BY <2>1, <2>3, <2>4, <1>4, <1>7, <1>8
  <2>6. buffer[j].at \in Newest({buffer[l].at : l \in got})
    BY <2>3, <2>5 DEF Newest
  <2> QED
    BY <2>6, <1>3, <1>7
<1> QED
  BY <1>3, <1>8, <1>9, <1>10

\* After a reply too the position is one that was read from an entry it held.
LEMMA DrainPositions ==
  ASSUME TiesInv, NEW t \in Task, Drain(t), Level, since' # 0
  PROVE  \E p \in positions' : since' <= p
<1>1. PICK got : got = Taken(call[t].since, call[t].limit) /\ got \in SUBSET DOMAIN buffer
  BY DEF Taken
<1>2. /\ positions' = positions \cup Newest({buffer[i].at : i \in got})
      /\ since \in Nat /\ clock \in Nat /\ Remember(got)
  BY <1>1 DEF Drain, Remember, TiesInv, BufferInv, Typed, TypeOK
<1>3. since' \in {since} \cup {Position(buffer[i]) : i \in got}
  BY <1>1, <1>2, Remembers DEF TiesInv, BufferInv
<1>4. CASE since' = since
  BY <1>2, <1>4 DEF TiesInv, Positioned
<1>5. ASSUME NEW k \in got, since' = Position(buffer[k])
      PROVE  \E p \in positions' : since' <= p
  <2> DEFINE S == {buffer[i].at : i \in got}
  <2>1. S \in SUBSET Nat /\ S # {} /\ buffer[k].at \in S /\ \A x \in S : x <= clock
    BY <1>1 DEF TiesInv, BufferInv, Typed, TypeOK, Numbered
  <2> HIDE DEF S
  <2>2. PICK p \in S : \A y \in S : y <= p
    BY <2>1, <1>2, Largest
  <2>3. p \in Newest(S)
    BY <2>2 DEF Newest
  <2>4. p \in positions'
    BY <2>3, <1>2 DEF S
  <2>5. k \in DOMAIN buffer
    BY <1>1
  <2>6. Position(buffer[k]) \in Nat /\ Position(buffer[k]) <= buffer[k].at
    BY <2>5, PositionIs DEF TiesInv, BufferInv
  <2>7. since' <= p
    <3>1. p \in Nat /\ buffer[k].at \in Nat /\ buffer[k].at <= p
      BY <2>1, <2>2
    <3> QED
      BY <3>1, <2>6, <1>5
  <2> QED
    BY <2>4, <2>7
<1> QED
  BY <1>3, <1>4, <1>5

\* No entry is both in the buffer and in an answer, and none is there that the
\* connection did not bring, in every state: what the mailbox that the buffer
\* implements comes to (drainMessages).
THEOREM HeldOrHanded == Spec => []Box!Once
<1> DEFINE Counted == taken \in Nat /\ Box!Once
<1>1. Box!Init => Counted
  BY DEF Box!Init, Box!Once
<1>2. Counted /\ [Box!Next]_<<taken, {buffer[i].n : i \in DOMAIN buffer}, handed>>
        => Counted'
  <2> SUFFICES ASSUME taken \in Nat, Box!Once, [Box!Next]_<<taken, held, handed>>
               PROVE  taken' \in Nat /\ Box!Once'
    BY DEF held
  <2>1. held \cup handed \subseteq 1 .. taken /\ held \cap handed = {}
    BY DEF Box!Once, held
  <2>2. Box!Once' = (held' \cup handed' \subseteq 1 .. taken' /\ held' \cap handed' = {})
    BY DEF Box!Once, held
  <2>3. \/ taken' = taken + 1 /\ held' = held \cup {taken + 1} /\ handed' = handed
        \/ \E given \in SUBSET held :
             held' = held \ given /\ handed' = handed \cup given /\ taken' = taken
        \/ held' = {} /\ taken' = taken /\ handed' = handed
        \/ UNCHANGED <<taken, held, handed>>
    BY DEF Box!Next, Box!Take, Box!Hand, Box!End, held
  <2> HIDE DEF held
  <2>4. taken' \in Nat /\ taken <= taken' /\ held' \cap handed' = {}
    BY <2>1, <2>3
  <2>5. held' \cup handed' \subseteq 1 .. taken'
    BY <2>1, <2>3
  <2> QED
    BY <2>2, <2>4, <2>5
<1>3. Counted => Box!Once
  OBVIOUS
<1> HIDE DEF Counted
<1>4. Box!Spec => []Box!Once
  BY <1>1, <1>2, <1>3, PTL DEF Box!Spec
<1> QED
  BY <1>4, BufferRefinesMailbox DEF BufferIsMailbox

\* An agent that polls with the latest receivedAt it got, or with the latest
\* received_at where no clock is ahead, leaves behind, of entries up to that time,
\* only some of the millisecond of the newest entry of a reply (drainMessages).
THEOREM OnlyTiesStay == Spec => []OnlyTiesLeftBehind
<1>1. Init => TiesInv
  <2> SUFFICES ASSUME Init PROVE TiesInv
    OBVIOUS
  <2>1. BufferInv
    <3>1. Typed
      BY TypedInit, McpAssumption
    <3> QED
      BY <3>1 DEF Init, BufferInv, Ordered
  <2>2. OnlyTiesLeftBehind /\ Positioned
    BY DEF Init, OnlyTiesLeftBehind, Positioned, NoCall
  <2> QED
    BY <2>1, <2>2 DEF TiesInv
<1>2. TiesInv /\ [Next]_vars => TiesInv'
  <2> SUFFICES ASSUME TiesInv, [Next]_vars PROVE TiesInv'
    OBVIOUS
  <2>1. BufferInv'
    BY BufferStep, McpAssumption DEF TiesInv
  <2>2. ASSUME NEW t \in Task, Drain(t) PROVE OnlyTiesLeftBehind'
    BY <2>2, DrainLeavesTies
  <2>0. since \in Nat /\ clock \in Nat /\ scene' = scene
    BY DEF TiesInv, BufferInv, Typed, TypeOK, Next, Runs, Connect, Share, Awaited, Drain,
       FetchGiven, SearchRegistry, FetchWeb, FetchFromRelay, Request, Reply, Fetch, Buy,
       Terms, Pay, Paid, Begin, JoinReply, JoinFails, Cut, Restart, Deliver, Tick, vars
  <2>3. ASSUME NEW m \in Message, Deliver(m) PROVE OnlyTiesLeftBehind'
    <3>1. /\ DOMAIN buffer' = DOMAIN buffer \cup {Len(buffer) + 1}
          /\ buffer'[Len(buffer) + 1].at = clock
          /\ \A i \in DOMAIN buffer : buffer'[i] = buffer[i]
      BY <2>3, DeliverAppends DEF TiesInv, BufferInv
    <3>2. positions' = positions /\ since' = since
      BY <2>3 DEF Deliver
    <3>3. ASSUME Level, clock <= since PROVE clock \in positions
      <4>1. since # 0
        BY <2>0, <3>3 DEF TiesInv, BufferInv, Typed
      <4>2. PICK p \in positions : since <= p
        BY <3>3, <4>1 DEF TiesInv, Positioned
      <4>3. p \in Nat /\ p <= clock
        BY <4>2 DEF TiesInv, BufferInv, Typed, TypeOK
      <4>4. p = clock
        BY <2>0, <3>3, <4>2, <4>3
      <4> QED
        BY <4>2, <4>4
    <3> QED
      BY <2>0, <3>1, <3>2, <3>3 DEF TiesInv, OnlyTiesLeftBehind, Level
  <2>4. ASSUME Restart PROVE OnlyTiesLeftBehind'
    BY <2>4 DEF Restart, OnlyTiesLeftBehind
  <2>5. ASSUME UNCHANGED <<buffer, since, positions>> PROVE OnlyTiesLeftBehind'
    BY <2>0, <2>5 DEF TiesInv, OnlyTiesLeftBehind, Level
  <2>6. \/ \E t \in Task : Drain(t)
        \/ \E m \in Message : Deliver(m)
        \/ Restart
        \/ UNCHANGED <<buffer, since, positions>>
    BY DEF Next, Runs, Connect, Share, Awaited, FetchGiven, SearchRegistry, FetchWeb,
       FetchFromRelay, Request, Reply, Fetch, Buy, Terms, Pay, Paid, Begin, JoinReply,
       JoinFails, Cut, Tick, vars, process, outside
  <2>7. Positioned'
    <3>1. since <= since' /\ since' \in Nat
      <4>1. ASSUME NEW t \in Task, Drain(t) PROVE since <= since' /\ since' \in Nat
        <5>1. PICK got : got \in SUBSET DOMAIN buffer /\ Remember(got)
          BY <4>1 DEF Drain, Taken
        <5> QED
          BY <5>1, Remembers DEF TiesInv, BufferInv
      <4> QED
        BY <2>0, <2>6, <4>1 DEF Deliver, Restart
    <3>2. ASSUME NEW t \in Task PROVE call'[t].since \in {0, since, call[t].since}
      <4>1. call \in [Task -> CallState]
        BY DEF TiesInv, BufferInv, Typed, TypeOK
      <4>2. ASSUME NEW u \in Task, Runs(u)
            PROVE  call'[t].since \in {0, since, call[t].since}
        BY <4>1, <4>2, RunsKeepsSince
      <4>3. ASSUME NEW u \in Task, NEW tool \in Tools, NEW from \in {0, since},
                   NEW limit \in Limit \cup {1}, Begin(u, tool, from, limit)
            PROVE  call'[t].since \in {0, since, call[t].since}
        BY <4>1, <4>3 DEF Begin, NoCall
      <4>4. CASE Restart
        BY <4>4 DEF Restart, NoCall
      <4>5. CASE UNCHANGED call
        BY <4>5
      <4> QED
        BY <4>2, <4>3, <4>4, <4>5 DEF Next, JoinReply, JoinFails, Cut, Deliver, Tick, vars
    <3>3. ASSUME NEW t \in Task PROVE call'[t].since <= since'
      <4>1. call[t].since \in Nat /\ call[t].since <= since
        BY DEF TiesInv, Positioned, BufferInv, Typed, TypeOK, CallState
      <4> QED
        BY <2>0, <3>1, <3>2, <4>1
    <3>4. ASSUME Level', since' # 0 PROVE \E p \in positions' : since' <= p
      <4>1. Level
        BY <2>0, <3>4 DEF Level
      <4>2. ASSUME NEW t \in Task, Drain(t) PROVE \E p \in positions' : since' <= p
        BY <3>4, <4>1, <4>2, DrainPositions
      <4>3. CASE UNCHANGED <<since, positions>>
        BY <3>4, <4>1, <4>3 DEF TiesInv, Positioned
      <4> QED
        BY <2>6, <4>2, <4>3 DEF Deliver, Restart
    <3> QED
      BY <3>3, <3>4 DEF Positioned
  <2> QED
    BY <2>1, <2>2, <2>3, <2>4, <2>5, <2>6, <2>7 DEF TiesInv
<1>3. TiesInv => OnlyTiesLeftBehind
  BY DEF TiesInv
<1> QED
  BY <1>1, <1>2, <1>3, PTL DEF Spec

-----------------------------------------------------------------------------
(* What one call does.  Only a call that ended was charged, and it never   *)
(* runs on; a call that searches for a key has seen the sources before it  *)
(* fail.                                                                   *)

Bought(c) ==
  \/ c.charged = <<>>
  \/ c.step = "idle" /\ c.outcome # "none" /\ c.charged = <<c.offer>>

Searched(c) ==
  /\ c.step \in {"registry", "web", "relay"} => scene.given = "none"
  /\ c.step \in {"web", "relay"} => Named(scene.registry) \in {"none", "bad", "down"}
  /\ c.step = "relay" => scene.web \in {"none", "down"}
  /\ c.step # "idle" => ~c.nokey

Blamed(c) ==
  c.nokey /\ scene.given = "none" =>
    Misleads \/ ~(Has(scene.registry) \/ Has(scene.web) \/ Has(scene.relay))

CallInv(c) == Bought(c) /\ Searched(c) /\ Blamed(c)

CallsInv == \A t \in Task : CallInv(call[t])

\* The steps that move a call on, and those that end it, leave the rest of it alone.
LEMMA GotoFields ==
  ASSUME call \in [Task -> CallState], NEW t \in Task, NEW s, Goto(t, s)
  PROVE  /\ call'[t].step = s /\ call'[t].charged = call[t].charged
         /\ call'[t].nokey = call[t].nokey
         /\ \A u \in Task \ {t} : call'[u] = call[u]
<1> DEFINE c == [call[t] EXCEPT !.step = s]
<1>1. call[t] \in CallState
  OBVIOUS
<1>2. c.step = s /\ c.charged = call[t].charged /\ c.nokey = call[t].nokey
  BY <1>1 DEF CallState
<1>3. call' = [call EXCEPT ![t] = c]
  BY DEF Goto
<1> HIDE DEF c
<1> QED
  BY <1>2, <1>3

LEMMA SettleFields ==
  ASSUME call \in [Task -> CallState], NEW t \in Task, NEW o, Settle(t, o)
  PROVE  /\ call'[t].step = "idle" /\ call'[t].charged = call[t].charged
         /\ call'[t].nokey = call[t].nokey
         /\ \A u \in Task \ {t} : call'[u] = call[u]
<1> DEFINE c == [call[t] EXCEPT !.step = "idle", !.since = 0, !.limit = 1, !.outcome = o]
<1>1. call[t] \in CallState
  OBVIOUS
<1>2. c.step = "idle" /\ c.charged = call[t].charged /\ c.nokey = call[t].nokey
  BY <1>1 DEF CallState
<1>3. call' = [call EXCEPT ![t] = c]
  BY DEF Settle
<1> HIDE DEF c
<1> QED
  BY <1>2, <1>3

\* A source that has no key of the recipient ends the call without one.
LEMMA FoundFields ==
  ASSUME call \in [Task -> CallState], NEW t \in Task, NEW a, a # "good", Found(t, a)
  PROVE  /\ call'[t].step = "idle" /\ call'[t].charged = call[t].charged
         /\ \A u \in Task \ {t} : call'[u] = call[u]
<1> DEFINE c == [call[t] EXCEPT !.step = "idle", !.outcome = "failed", !.nokey = TRUE]
<1>1. call[t] \in CallState
  OBVIOUS
<1>2. c.step = "idle" /\ c.charged = call[t].charged
  BY <1>1 DEF CallState
<1>3. call' = [call EXCEPT ![t] = c]
  BY DEF Found
<1> HIDE DEF c
<1> QED
  BY <1>2, <1>3

LEMMA OthersKeep ==
  ASSUME CallsInv, UNCHANGED scene, NEW t \in Task,
         \A u \in Task \ {t} : call'[u] = call[u], CallInv(call[t])'
  PROVE  CallsInv'
<1>1. ASSUME NEW u \in Task, u # t PROVE CallInv(call[u])'
  BY <1>1 DEF CallsInv, CallInv, Bought, Searched, Blamed, Misleads, Has, Named
<1> QED
  BY <1>1 DEF CallsInv

LEMMA GotoKeeps ==
  ASSUME call \in [Task -> CallState], CallsInv, UNCHANGED scene,
         NEW t \in Task, call[t].step # "idle", NEW s, Goto(t, s),
         s \in {"registry", "web", "relay"} => scene.given = "none",
         s \in {"web", "relay"} => Named(scene.registry) \in {"none", "bad", "down"},
         s = "relay" => scene.web \in {"none", "down"}
  PROVE  CallsInv'
<1>1. /\ call'[t].step = s /\ call'[t].charged = call[t].charged
      /\ call'[t].nokey = call[t].nokey
      /\ \A u \in Task \ {t} : call'[u] = call[u]
  BY GotoFields
<1>2. call[t].charged = <<>> /\ ~call[t].nokey
  BY DEF CallsInv, CallInv, Bought, Searched
<1>3. CallInv(call[t])'
  BY <1>1, <1>2 DEF CallInv, Bought, Searched, Blamed, Named
<1> QED
  BY <1>1, <1>3, OthersKeep

LEMMA SettleKeeps ==
  ASSUME call \in [Task -> CallState], CallsInv, UNCHANGED scene,
         NEW t \in Task, call[t].step # "idle", NEW o, Settle(t, o)
  PROVE  CallsInv'
<1>1. /\ call'[t].step = "idle" /\ call'[t].charged = call[t].charged
      /\ call'[t].nokey = call[t].nokey
      /\ \A u \in Task \ {t} : call'[u] = call[u]
  BY SettleFields
<1>2. call[t].charged = <<>> /\ ~call[t].nokey
  BY DEF CallsInv, CallInv, Bought, Searched
<1>3. CallInv(call[t])'
  BY <1>1, <1>2 DEF CallInv, Bought, Searched, Blamed
<1> QED
  BY <1>1, <1>3, OthersKeep

\* To end without a key is to blame a source that answered.
LEMMA FoundKeeps ==
  ASSUME call \in [Task -> CallState], CallsInv, UNCHANGED scene,
         NEW t \in Task, call[t].step # "idle", NEW a, Found(t, a),
         a # "good" /\ scene.given = "none" =>
           Misleads \/ ~(Has(scene.registry) \/ Has(scene.web) \/ Has(scene.relay))
  PROVE  CallsInv'
<1>1. CASE a = "good"
  BY <1>1, GotoKeeps DEF Found
<1>2. CASE a # "good"
  <2>1. /\ call'[t].step = "idle" /\ call'[t].charged = call[t].charged
        /\ \A u \in Task \ {t} : call'[u] = call[u]
    BY <1>2, FoundFields
  <2>2. call[t].charged = <<>>
    BY DEF CallsInv, CallInv, Bought, Searched
  <2>3. Bought(call[t])' /\ Searched(call[t])'
    BY <2>1, <2>2 DEF Bought, Searched
  <2>4. Blamed(call[t])'
    BY <1>2 DEF Blamed, Misleads, Has
  <2> QED
    BY <2>1, <2>3, <2>4, OthersKeep DEF CallInv
<1> QED
  BY <1>1, <1>2

LEMMA CallsInvRuns ==
  ASSUME call \in [Task -> CallState], scene \in Scenario, CallsInv, NEW t \in Task, Runs(t)
  PROVE  CallsInv'
<1>1. UNCHANGED scene /\ call[t].step # "idle"
  BY DEF Runs, Connect, Share, Awaited, Drain, FetchGiven, SearchRegistry, FetchWeb,
     FetchFromRelay, Request, Reply, Fetch, Buy, Terms, Pay, Paid, At
<1>2. Searched(call[t])
  BY DEF CallsInv, CallInv
<1>3. CASE Connect(t) \/ Share(t) \/ Request(t) \/ Buy(t) \/ Pay(t)
  BY <1>1, <1>3, GotoKeeps DEF Connect, Share, Request, Buy, Pay
<1>4. CASE Awaited(t)
  <2>1. AfterConnect(call[t].tool) \notin {"registry", "web", "relay"}
    BY DEF AfterConnect
  <2>2. CASE promise = "open"
    BY <1>1, <1>4, <2>1, <2>2, GotoKeeps DEF Awaited
  <2>3. CASE promise # "open"
    BY <1>1, <1>4, <2>3, SettleKeeps DEF Awaited
  <2> QED
    BY <2>2, <2>3
<1>5. CASE Drain(t) \/ Reply(t) \/ Fetch(t)
  BY <1>1, <1>5, SettleKeeps DEF Drain, Reply, Fetch
<1>6. CASE FetchGiven(t)
  <2>1. CASE scene.given = "none"
    BY <1>1, <1>6, <2>1, GotoKeeps DEF FetchGiven
  <2>2. CASE scene.given # "none"
    BY <1>1, <1>6, <2>2, FoundKeeps DEF FetchGiven
  <2> QED
    BY <2>1, <2>2
<1>7. CASE SearchRegistry(t)
  <2>1. scene.given = "none"
    BY <1>2, <1>7 DEF Searched, SearchRegistry, At
  <2>2. CASE Named(scene.registry) \in {"none", "bad", "down"}
    BY <1>1, <1>7, <2>1, <2>2, GotoKeeps DEF SearchRegistry
  <2>3. CASE Named(scene.registry) \notin {"none", "bad", "down"}
    <3>1. Found(t, Named(scene.registry))
      BY <1>7, <2>3 DEF SearchRegistry
    <3>2. Named(scene.registry) # "good" => Misleads
      BY <2>3 DEF Named, Misleads, Scenario
    <3> QED
      BY <1>1, <3>1, <3>2, FoundKeeps
  <2> QED
    BY <2>2, <2>3
<1>8. CASE FetchWeb(t)
  <2>1. scene.given = "none" /\ Named(scene.registry) \in {"none", "bad", "down"}
    BY <1>2, <1>8 DEF Searched, FetchWeb, At
  <2>2. CASE scene.web \in {"none", "down"}
    BY <1>1, <1>8, <2>1, <2>2, GotoKeeps DEF FetchWeb
  <2>3. CASE scene.web \notin {"none", "down"}
    <3>1. Found(t, scene.web)
      BY <1>8, <2>3 DEF FetchWeb
    <3>2. scene.web # "good" => Misleads
      BY <2>3 DEF Misleads, Scenario
    <3> QED
      BY <1>1, <3>1, <3>2, FoundKeeps
  <2> QED
    BY <2>2, <2>3
<1>9. CASE FetchFromRelay(t)
  <2>1. scene.registry \in {"none", "bad", "down"} /\ scene.web \in {"none", "down"}
    BY <1>2, <1>9 DEF Searched, FetchFromRelay, At, Named
  <2>2. scene.relay # "good" => ~(Has(scene.registry) \/ Has(scene.web) \/ Has(scene.relay))
    BY <2>1 DEF Has
  <2>3. Found(t, scene.relay)
    BY <1>9 DEF FetchFromRelay
  <2> QED
    BY <1>1, <2>2, <2>3, FoundKeeps
<1>10. CASE Terms(t)
  <2>1. ASSUME NEW a, call' = [call EXCEPT ![t].step = "pay", ![t].offer = a]
        PROVE  CallsInv'
    <3> DEFINE c == [call[t] EXCEPT !.step = "pay", !.offer = a]
    <3>1. call[t] \in CallState
      OBVIOUS
    <3>2. c.step = "pay" /\ c.charged = call[t].charged /\ c.nokey = call[t].nokey
      BY <3>1 DEF CallState
    <3>3. call' = [call EXCEPT ![t] = c]
      BY <2>1
    <3> HIDE DEF c
    <3>4. call'[t] = c /\ \A u \in Task \ {t} : call'[u] = call[u]
      BY <3>3
    <3>5. call[t].charged = <<>> /\ ~call[t].nokey
      BY <1>1, <1>2 DEF CallsInv, CallInv, Bought, Searched
    <3>6. CallInv(call[t])'
      BY <3>2, <3>4, <3>5 DEF CallInv, Bought, Searched, Blamed
    <3> QED
      BY <1>1, <3>4, <3>6, OthersKeep
  <2> QED
    BY <1>1, <1>10, <2>1, SettleKeeps DEF Terms
<1>11. CASE Paid(t)
  <2>1. ASSUME NEW o \in {"ok", "failed"},
               call' = [call EXCEPT ![t] = [Charge(t) EXCEPT !.step = "idle", !.outcome = o]]
        PROVE  CallsInv'
    <3> DEFINE c == [Charge(t) EXCEPT !.step = "idle", !.outcome = o]
    <3>1. call[t] \in CallState
      OBVIOUS
    <3>2. call[t].charged = <<>> /\ ~call[t].nokey
      BY <1>1, <1>2 DEF CallsInv, CallInv, Bought, Searched
    <3>3. Append(call[t].charged, call[t].offer) = <<call[t].offer>>
      BY <3>2
    <3>4. Charge(t) = [call[t] EXCEPT !.charged = <<call[t].offer>>]
      BY <3>3 DEF Charge
    <3>5. /\ c.step = "idle" /\ c.outcome = o /\ c.offer = call[t].offer
          /\ c.charged = <<call[t].offer>> /\ c.nokey = call[t].nokey
      BY <3>1, <3>4 DEF CallState
    <3>6. call' = [call EXCEPT ![t] = c]
      BY <2>1
    <3> HIDE DEF c
    <3>7. call'[t] = c /\ \A u \in Task \ {t} : call'[u] = call[u]
      BY <3>6
    <3>8. CallInv(call[t])'
      BY <3>2, <3>5, <3>7 DEF CallInv, Bought, Searched, Blamed
    <3> QED
      BY <1>1, <3>7, <3>8, OthersKeep
  <2> QED
    BY <1>1, <1>11, <2>1, SettleKeeps DEF Paid
<1> QED
  BY <1>3, <1>4, <1>5, <1>6, <1>7, <1>8, <1>9, <1>10, <1>11 DEF Runs

LEMMA NewCall ==
  /\ NoCall.step = "idle" /\ NoCall.charged = <<>> /\ ~NoCall.nokey
  /\ \A tool, from, limit, s :
       LET c == [NoCall EXCEPT !.tool = tool, !.since = from, !.limit = limit, !.step = s]
       IN  c.step = s /\ c.charged = <<>> /\ ~c.nokey
BY DEF NoCall

LEMMA CallsAlways == Spec => []CallsInv
<1>1. Init => CallsInv
  BY NewCall DEF Init, CallsInv, CallInv, Bought, Searched, Blamed
<1>2. Typed /\ CallsInv /\ [Next]_vars => CallsInv'
  <2> SUFFICES ASSUME Typed, CallsInv, [Next]_vars PROVE CallsInv'
    OBVIOUS
  <2>1. call \in [Task -> CallState] /\ scene \in Scenario
    BY DEF Typed, TypeOK
  <2>2. ASSUME NEW t \in Task, Runs(t) PROVE CallsInv'
    BY <2>1, <2>2, CallsInvRuns
  <2>3. ASSUME NEW t \in Task, NEW tool \in Tools, NEW from \in {0, since},
               NEW limit \in Limit \cup {1}, Begin(t, tool, from, limit)
        PROVE  CallsInv'
    <3> DEFINE c == [NoCall EXCEPT !.tool = tool, !.since = from, !.limit = limit,
                                   !.step = FirstStep(tool)]
    <3>1. c.step = FirstStep(tool) /\ c.charged = <<>> /\ ~c.nokey
      BY NewCall
    <3>2. c.step \notin {"registry", "web", "relay"}
      BY <3>1 DEF FirstStep
    <3>3. call' = [call EXCEPT ![t] = c] /\ UNCHANGED scene
      BY <2>3 DEF Begin
    <3> HIDE DEF c
    <3>4. call'[t] = c /\ \A u \in Task \ {t} : call'[u] = call[u]
      BY <2>1, <3>3
    <3>5. CallInv(call[t])'
      BY <3>1, <3>2, <3>4 DEF CallInv, Bought, Searched, Blamed
    <3> QED
      BY <3>3, <3>4, <3>5, OthersKeep
  <2>4. ASSUME Restart PROVE CallsInv'
    <3>1. \A t \in Task : call'[t] = NoCall
      BY <2>4 DEF Restart
    <3> QED
      BY <3>1, NewCall DEF CallsInv, CallInv, Bought, Searched, Blamed
  <2>5. ASSUME UNCHANGED <<call, scene>> PROVE CallsInv'
    BY <2>5 DEF CallsInv, CallInv, Bought, Searched, Blamed, Misleads, Has, Named
  <2> QED
    BY <2>2, <2>3, <2>4, <2>5 DEF Next, JoinReply, JoinFails, Cut, Deliver, Tick, vars, process
<1> QED
  BY <1>1, <1>2, TypedAlways, PTL DEF Spec

\* A purchase is charged at most once, and then the amount of the offer it got
\* (purchaseBundle).
THEOREM PaidOnce == Spec => []PaidOnceAsOffered
<1>1. CallsInv => PaidOnceAsOffered
  BY DEF CallsInv, CallInv, Bought, PaidOnceAsOffered
<1> QED
  BY <1>1, CallsAlways, PTL

\* A send that ends without a key had no source with it before one that misled
\* it (resolveEncPublicKey).
THEOREM KeyIsFound == Spec => []ResolvesIfAnySourceHasIt
<1>1. CallsInv => ResolvesIfAnySourceHasIt
  BY DEF CallsInv, CallInv, Blamed, ResolvesIfAnySourceHasIt
<1> QED
  BY <1>1, CallsAlways, PTL

-----------------------------------------------------------------------------
(* What a call waits for.  SettlesUnlessCut says that a call ends, under the  *)
(* fairness of the event loop; here is what that fairness needs: whoever      *)
(* waits has something to wait for.                                           *)

\* The steps of a call that come after ensureConnected, but for its last.
PastConnect == {"drain", "given", "registry", "web", "relay", "request", "reply"}

LinkInv ==
  /\ promise \in {"none", "pending", "open", "failed"}
  /\ promise = "none" => link = "off"
  /\ promise = "pending" => link \in {"joining", "cut"}
  /\ promise = "open" => link \in {"up", "cut"}
  /\ link = "joining" => promise = "pending"
  /\ link = "up" => promise = "open"

WaitInv ==
  /\ LinkInv
  /\ \A t \in Task : /\ At(t, "await") => promise # "none"
                     /\ call[t].step \in PastConnect => promise = "open"

\* What a call that is not cut off awaits is there or is on its way.
Owed == \A t \in Task :
  ~Stranded(t) =>
    /\ At(t, "await") => promise \in {"open", "failed"} \/ link = "joining"
    /\ At(t, "reply") => link = "up"

\* Where one step takes a call; the others stay where they are.
LEMMA WhereCallsGo ==
  ASSUME call \in [Task -> CallState], NEW t \in Task, Runs(t)
  PROVE  /\ \A u \in Task \ {t} : call'[u] = call[u]
         /\ call'[t].step = "await" => Connect(t) \/ promise # "none"
         /\ call'[t].step \in PastConnect
              => call[t].step \in PastConnect \/ promise = "open"
<1> USE DEF PastConnect
<1>1. ASSUME NEW s, Goto(t, s)
      PROVE  call'[t].step = s /\ \A u \in Task \ {t} : call'[u] = call[u]
  BY <1>1, GotoFields
<1>2. ASSUME NEW o, Settle(t, o)
      PROVE  call'[t].step = "idle" /\ \A u \in Task \ {t} : call'[u] = call[u]
  BY <1>2, SettleFields
<1>3. ASSUME NEW a, Found(t, a)
      PROVE  /\ call'[t].step \in {"idle", "request"}
             /\ \A u \in Task \ {t} : call'[u] = call[u]
  <2>1. CASE a = "good"
    BY <1>1, <1>3, <2>1 DEF Found
  <2>2. CASE a # "good"
    BY <1>3, <2>2, FoundFields
  <2> QED
    BY <2>1, <2>2
<1>4. CASE Connect(t) \/ Share(t)
  BY <1>1, <1>4 DEF Connect, Share
<1>5. CASE Request(t) \/ Buy(t) \/ Pay(t)
  BY <1>1, <1>5 DEF Request, Buy, Pay, At
<1>6. CASE Awaited(t)
  <2>1. AfterConnect(call[t].tool) # "await"
    BY DEF AfterConnect
  <2>2. CASE promise = "open"
    BY <1>1, <1>6, <2>1, <2>2 DEF Awaited
  <2>3. CASE promise # "open"
    BY <1>2, <1>6, <2>3 DEF Awaited
  <2> QED
    BY <2>2, <2>3
<1>7. CASE Drain(t) \/ Reply(t) \/ Fetch(t)
  BY <1>2, <1>7 DEF Drain, Reply, Fetch
<1>8. CASE FetchGiven(t) \/ SearchRegistry(t) \/ FetchWeb(t) \/ FetchFromRelay(t)
  <2>1. call[t].step \in PastConnect
    BY <1>8 DEF FetchGiven, SearchRegistry, FetchWeb, FetchFromRelay, At
  <2>2. \/ \E s \in {"registry", "web", "relay"} : Goto(t, s)
        \/ \E a : Found(t, a)
    BY <1>8 DEF FetchGiven, SearchRegistry, FetchWeb, FetchFromRelay
  <2> QED
    BY <1>1, <1>3, <2>1, <2>2
<1>9. CASE Terms(t)
  <2>1. ASSUME NEW a, call' = [call EXCEPT ![t].step = "pay", ![t].offer = a]
        PROVE  call'[t].step = "pay" /\ \A u \in Task \ {t} : call'[u] = call[u]
    <3> DEFINE c == [call[t] EXCEPT !.step = "pay", !.offer = a]
    <3>1. call[t] \in CallState
      OBVIOUS
    <3>2. c.step = "pay" /\ call' = [call EXCEPT ![t] = c]
      BY <2>1, <3>1 DEF CallState
    <3> HIDE DEF c
    <3> QED
      BY <3>2
  <2> QED
    BY <1>2, <1>9, <2>1 DEF Terms
<1>10. CASE Paid(t)
  <2>1. ASSUME NEW o, call' = [call EXCEPT ![t] = [Charge(t) EXCEPT !.step = "idle", !.outcome = o]]
        PROVE  call'[t].step = "idle" /\ \A u \in Task \ {t} : call'[u] = call[u]
    <3> DEFINE c == [Charge(t) EXCEPT !.step = "idle", !.outcome = o]
    <3>1. call[t] \in CallState
      OBVIOUS
    <3>2. c.step = "idle" /\ call' = [call EXCEPT ![t] = c]
      BY <2>1, <3>1 DEF Charge, CallState
    <3> HIDE DEF c
    <3> QED
      BY <3>2
  <2> QED
    BY <1>2, <1>10, <2>1 DEF Paid
<1> QED
  BY <1>4, <1>5, <1>6, <1>7, <1>8, <1>9, <1>10 DEF Runs

\* No step leaves a call waiting for nothing.
LEMMA WaitStep ==
  ASSUME Typed, WaitInv, [Next]_vars
  PROVE  WaitInv'
<1>1. call \in [Task -> CallState]
  BY DEF Typed, TypeOK
<1>2. ASSUME NEW t \in Task, Runs(t) PROVE WaitInv'
  <2>1. /\ \A u \in Task \ {t} : call'[u] = call[u]
        /\ call'[t].step = "await" => Connect(t) \/ promise # "none"
        /\ call'[t].step \in PastConnect
             => call[t].step \in PastConnect \/ promise = "open"
    BY <1>1, <1>2, WhereCallsGo
  <2>2. CASE Connect(t)
    <3>1. promise = "none" /\ promise' = "pending" /\ link' = "joining"
      BY <2>2 DEF Connect
    <3>2. call'[t].step \notin PastConnect
      BY <1>1, <2>2, GotoFields DEF Connect, PastConnect
    <3>3. \A u \in Task \ {t} : call'[u].step \notin PastConnect
      BY <2>1, <3>1 DEF WaitInv
    <3> QED
      BY <3>1, <3>2, <3>3 DEF WaitInv, LinkInv, At
  <2>3. CASE ~Connect(t)
    <3>1. UNCHANGED <<promise, link>>
      BY <1>2, <2>3, OnlyConnectOpens
    <3>2. LinkInv'
      BY <3>1 DEF WaitInv, LinkInv
    <3>3. ASSUME NEW u \in Task
          PROVE  /\ call'[u].step = "await" => promise # "none"
                 /\ call'[u].step \in PastConnect => promise = "open"
      BY <2>1, <2>3, <3>3 DEF WaitInv, At
    <3> QED
      BY <3>1, <3>2, <3>3 DEF WaitInv, At
  <2> QED
    BY <2>2, <2>3
<1>3. ASSUME NEW t \in Task, NEW tool, NEW from, NEW limit, Begin(t, tool, from, limit)
      PROVE  WaitInv'
  <2> DEFINE c == [NoCall EXCEPT !.tool = tool, !.since = from, !.limit = limit,
                                 !.step = FirstStep(tool)]
  <2>1. c.step = FirstStep(tool)
    BY DEF NoCall
  <2>2. call' = [call EXCEPT ![t] = c] /\ UNCHANGED <<promise, link>>
    BY <1>3 DEF Begin, process
  <2> HIDE DEF c
  <2>3. call'[t].step \in {"connect", "buy", "fetch"} /\ \A u \in Task \ {t} : call'[u] = call[u]
    BY <1>1, <2>1, <2>2 DEF FirstStep
  <2>4. call'[t].step # "await" /\ call'[t].step \notin PastConnect
    BY <2>3 DEF PastConnect
  <2>5. LinkInv'
    BY <2>2 DEF WaitInv, LinkInv
  <2>6. ASSUME NEW u \in Task
        PROVE  /\ call'[u].step = "await" => promise # "none"
               /\ call'[u].step \in PastConnect => promise = "open"
    BY <2>3, <2>4, <2>6 DEF WaitInv, At
  <2> QED
    BY <2>2, <2>5, <2>6 DEF WaitInv, At
<1>4. CASE JoinReply \/ JoinFails \/ Cut
  <2>1. /\ call' = call /\ LinkInv'
        /\ \/ promise' = promise
           \/ promise = "pending" /\ promise' \in {"open", "failed"}
    BY <1>4 DEF JoinReply, JoinFails, Cut, WaitInv, LinkInv
  <2> QED
    BY <2>1 DEF WaitInv, At
<1>5. CASE Restart
  <2>1. promise' = "none" /\ link' = "off" /\ \A t \in Task : call'[t].step = "idle"
    BY <1>5 DEF Restart, NoCall
  <2> QED
    BY <2>1 DEF WaitInv, LinkInv, At, PastConnect
<1>6. CASE UNCHANGED <<promise, link, call>>
  BY <1>6 DEF WaitInv, LinkInv, At
<1> QED
  BY <1>2, <1>3, <1>4, <1>5, <1>6 DEF Next, Tick, Deliver, vars, process

\* However calls overlap and wherever the connection breaks, a call that awaits the
\* shared connection has one that is being made or has been decided, and one that
\* awaits a reply has an open connection, unless the connection broke: no call is
\* left waiting on a promise nobody will settle in any other way (ensureConnected,
\* requestReply).
THEOREM NobodyWaitsForNothing == Spec => []Owed
<1>1. Init => WaitInv
  BY DEF Init, WaitInv, LinkInv, At, NoCall, PastConnect
<1>2. WaitInv /\ Typed /\ [Next]_vars => WaitInv'
  BY WaitStep
<1>3. WaitInv => Owed
  BY DEF WaitInv, LinkInv, Owed, Stranded, At, PastConnect
<1> QED
  BY <1>1, <1>2, <1>3, TypedAlways, PTL DEF Spec
=============================================================================
