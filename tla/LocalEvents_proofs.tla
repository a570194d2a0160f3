------------------------- MODULE LocalEvents_proofs -------------------------
(***************************************************************************)
(* What holds of LocalEvents for every set of readers, every limit and      *)
(* every bound: its types, that no poll sleeps through an event, and the    *)
(* refinement of EventStream.                                               *)
(***************************************************************************)
EXTENDS LocalEvents, SequenceTheorems, TLAPS

\* The n ids that follow p.
From(p, n) == [i \in 1 .. n |-> p + i]

\* Where the after_id protocol stands: a reader has the rows up to pos, what is
\* on its way are the rows that follow, and the afterId the sidecar goes on from
\* is where the reader will be.
Served(r) ==
  /\ got[r] = From(0, pos[r])
  /\ batch[r] = From(pos[r], Len(batch[r]))
  /\ batch[r] # <<>> => phase[r] \in {"answered", "streaming"}
  /\ phase[r] = "answered" \/ batch[r] # <<>>
       => nextId[r] = pos[r] + Len(batch[r])
  /\ r \in Poller => phase[r] # "streaming"
  /\ r \in Streamer => phase[r] \in {"away", "streaming"}
  /\ r \in Streamer /\ phase[r] = "streaming" /\ batch[r] = <<>>
       => after[r] = pos[r]

Reading == \A r \in Reader : Served(r)

\* A poll that waits has its waker in the list.
Waking == \A r \in Poller : phase[r] = "waiting" => r \in waiters

IInv == TypeOK /\ Reading /\ Waking /\ NoLostWakeup

-----------------------------------------------------------------------------
(* Sequences of consecutive ids.                                           *)

\* Their type, their length and their items.
LEMMA FromType ==
  \A p, n \in Nat :
    /\ From(p, n) \in Seq(Nat) /\ Len(From(p, n)) = n
    /\ \A i \in 1 .. n : From(p, n)[i] = p + i
BY DEF From

\* A reader that has the rows up to p and takes the n that follow has the rows
\* up to p + n.
LEMMA FromConcat ==
  ASSUME NEW p \in Nat, NEW n \in Nat
  PROVE  From(0, p) \o From(p, n) = From(0, p + n)
<1> DEFINE s == From(0, p)
           t == From(p, n)
           u == From(0, p + n)
<1>a. s \in Seq(Nat) /\ Len(s) = p /\ \A i \in 1 .. p : s[i] = i
  BY DEF From
<1>b. t \in Seq(Nat) /\ Len(t) = n /\ \A i \in 1 .. n : t[i] = p + i
  BY DEF From
<1>c. u \in Seq(Nat) /\ Len(u) = p + n /\ \A i \in 1 .. p + n : u[i] = i
  BY DEF From
<1> HIDE DEF s, t, u
<1>2. /\ s \o t \in Seq(Nat) /\ Len(s \o t) = p + n
      /\ \A i \in 1 .. p + n : (s \o t)[i] = IF i <= p THEN s[i] ELSE t[i - p]
  BY <1>a, <1>b, ConcatProperties
<1>3. \A i \in 1 .. p + n : (s \o t)[i] = i
  BY <1>a, <1>b, <1>2, SMTT(60)
<1>4. s \o t = u
  BY <1>c, <1>2, <1>3, SeqEqual
<1>5. QED BY <1>4 DEF s, t, u

\* Taking the first of n ids that follow p leaves the n - 1 that follow p + 1.
LEMMA FromTail ==
  ASSUME NEW p \in Nat, NEW n \in Nat \ {0}
  PROVE  /\ Head(From(p, n)) = p + 1
         /\ Tail(From(p, n)) = From(p + 1, n - 1)
<1> DEFINE s == From(p, n)
           t == From(p + 1, n - 1)
<1>1. /\ s \in Seq(Nat) /\ Len(s) = n /\ \A i \in 1 .. n : s[i] = p + i
      /\ t \in Seq(Nat) /\ Len(t) = n - 1 /\ \A i \in 1 .. n - 1 : t[i] = p + 1 + i
  BY DEF From
<1> HIDE DEF s, t
<1>2. s # <<>> /\ Head(s) = p + 1
  BY <1>1
<1>3. /\ Tail(s) \in Seq(Nat) /\ Len(Tail(s)) = n - 1
      /\ \A i \in 1 .. n - 1 : Tail(s)[i] = s[i + 1]
  BY <1>1, <1>2, HeadTailProperties
<1>4. \A i \in 1 .. n - 1 : Tail(s)[i] = t[i]
  BY <1>1, <1>3
<1>5. Tail(s) = t
  BY <1>1, <1>3, <1>4, SeqEqual
<1>6. QED BY <1>2, <1>5 DEF s, t

\* Taking one more id.
LEMMA FromAppend ==
  ASSUME NEW p \in Nat
  PROVE  Append(From(0, p), p + 1) = From(0, p + 1)
<1> DEFINE s == From(0, p)
           t == From(0, p + 1)
<1>1. /\ s \in Seq(Nat) /\ Len(s) = p /\ \A i \in 1 .. p : s[i] = i
      /\ t \in Seq(Nat) /\ Len(t) = p + 1 /\ \A i \in 1 .. p + 1 : t[i] = i
  BY DEF From
<1> HIDE DEF s, t
<1>2. /\ Append(s, p + 1) \in Seq(Nat) /\ Len(Append(s, p + 1)) = p + 1
      /\ \A i \in 1 .. p + 1 : Append(s, p + 1)[i] = i
  BY <1>1
<1>3. Append(s, p + 1) = t
  BY <1>1, <1>2, SeqEqual
<1>4. QED BY <1>3 DEF s, t

\* What listSidecarEvents returns: rows that exist and follow the after_id.
LEMMA PageRows ==
  ASSUME TypeOK, NEW a \in 0 .. Len(stream), NEW limit \in Nat \ {0},
         Page(a, limit) # <<>>
  PROVE  LET page == Page(a, limit) IN
           /\ page \in Seq(Nat) /\ Len(page) \in Nat \ {0}
           /\ page = From(a, Len(page))
           /\ page[Len(page)] = a + Len(page)
           /\ a + Len(page) <= Len(stream)
<1> DEFINE n == Smaller(limit, Len(stream) - a)
<1>1. n \in Nat /\ a + n <= Len(stream)
  BY DEF TypeOK, Smaller
<1>2. Page(a, limit) = From(a, n)
  BY DEF Page, From
<1> HIDE DEF n
<1>3. n # 0
  BY <1>1, <1>2 DEF From
<1>4. /\ From(a, n) \in Seq(Nat) /\ Len(From(a, n)) = n
      /\ \A i \in 1 .. n : From(a, n)[i] = a + i
  BY <1>1 DEF From
<1>5. QED BY <1>1, <1>2, <1>3, <1>4

\* No row is listed only for a reader that has them all.
LEMMA NoRows ==
  ASSUME TypeOK, NEW a \in 0 .. Len(stream), NEW limit \in Nat \ {0},
         Page(a, limit) = <<>>
  PROVE  a = Len(stream)
<1> DEFINE n == Smaller(limit, Len(stream) - a)
<1>1. n \in Nat /\ (n = 0 => a = Len(stream))
  BY DEF TypeOK, Smaller
<1>2. Page(a, limit) = From(a, n)
  BY DEF Page, From
<1> HIDE DEF n
<1>3. n = 0
  BY <1>1, <1>2, FromType
<1>4. QED BY <1>1, <1>3

\* Appending keeps a type and what was there, and adds one item at the end.
LEMMA Appended ==
  ASSUME NEW S, NEW q \in Seq(S), NEW x \in S
  PROVE  /\ Append(q, x) \in Seq(S) /\ Len(Append(q, x)) = Len(q) + 1
         /\ Append(q, x)[Len(q) + 1] = x
         /\ \A i \in 1 .. Len(q) : Append(q, x)[i] = q[i]
OBVIOUS

\* What taking the first item off leaves.
LEMMA Shifted ==
  ASSUME NEW S, NEW q \in Seq(S), q # <<>>
  PROVE  /\ Head(q) \in S /\ Head(q) = q[1] /\ Len(q) \in Nat \ {0}
         /\ Tail(q) \in Seq(S) /\ Len(Tail(q)) = Len(q) - 1
         /\ \A i \in 1 .. Len(Tail(q)) : Tail(q)[i] = q[i + 1]
OBVIOUS

-----------------------------------------------------------------------------
(* What the parts of the actions do.                                       *)

\* A row is well typed, and one more.
LEMMA PersistType ==
  ASSUME TypeOK, NEW kind \in Public, Persist(kind)
  PROVE  /\ stream' \in Seq(Row) /\ Len(stream') = Len(stream) + 1
         /\ storeKey' \in Nat /\ keys' \in Nat
<1>1. storeKey' \in Nat /\ keys' \in Nat
  BY DEF Persist, TypeOK
<1> DEFINE row == [kind |-> kind, key |-> IF kind = "message" THEN storeKey' ELSE 0]
<1>2. row \in Row
  BY <1>1 DEF Row
<1>3. stream' = Append(stream, row)
  BY DEF Persist
<1> HIDE DEF row
<1>4. QED BY <1>1, <1>2, <1>3, Appended DEF TypeOK

\* EventQueue.push loses nothing: a notification that was coming still is, and a
\* public event is one.
LEMMA PushKeeps ==
  ASSUME TypeOK, NEW type \in EventType, Push(type)
  PROVE  /\ queue' \in Seq(EventType)
         /\ consumer' \in {"asking", "waiting"} \cup EventType
         /\ NotifyComing \/ type \in Public => NotifyComing'
<1>1. queue \in Seq(EventType)
  BY DEF TypeOK
<1>2. CASE consumer = "waiting"
  <2>1. consumer' = type /\ queue' = queue
    BY <1>2 DEF Push
  <2>2. QED BY <1>1, <1>2, <2>1 DEF NotifyComing, Public
<1>3. CASE consumer # "waiting"
  <2>1. queue' = Append(queue, type) /\ consumer' = consumer
    BY <1>3 DEF Push
  <2>2. /\ queue' \in Seq(EventType) /\ Len(queue') = Len(queue) + 1
        /\ queue'[Len(queue) + 1] = type
        /\ \A i \in 1 .. Len(queue) : queue'[i] = queue[i]
    BY <1>1, <2>1, Appended
  <2>3. Len(queue) \in Nat
    BY <1>1
  <2>4. type \in Public => NotifyComing'
    BY <2>2, <2>3 DEF NotifyComing
  <2>5. NotifyComing => NotifyComing'
    BY <2>1, <2>2, <2>3 DEF NotifyComing
  <2>6. QED BY <2>1, <2>2, <2>4, <2>5 DEF TypeOK
<1>4. QED BY <1>2, <1>3

\* A request that is over leaves nothing behind.
LEMMA EndsType ==
  ASSUME TypeOK, NEW r \in Reader, Ends(r)
  PROVE  /\ phase' \in [Reader -> Phases]
         /\ batch' \in [Reader -> Seq(Nat)]
         /\ nextId' \in [Reader -> 0 .. Len(stream)]
         /\ after' \in [Streamer -> 0 .. Len(stream)]
<1>1. Len(stream) \in Nat
  BY DEF TypeOK
<1>2. QED BY <1>1, EmptySeq DEF Ends, TypeOK, Phases

-----------------------------------------------------------------------------
(* The types.                                                              *)

\* The sidecar starts in a state of the invariant.
LEMMA InitHolds == Init => IInv
<1> SUFFICES ASSUME Init PROVE IInv
  OBVIOUS
<1>1. TypeOK
  <2>1. plain \subseteq Reader
    BY ReaderAssumption DEF Init
  <2>2. QED BY <2>1, EmptySeq DEF Init, TypeOK, Phases, EventType, Public
<1>2. Reading
  <2>1. \A r \in Reader : /\ got[r] = <<>> /\ batch[r] = <<>> /\ pos[r] = 0
                          /\ phase[r] = "away"
    BY DEF Init, Reader
  <2>2. From(0, 0) = <<>> /\ Len(<<>>) = 0
    BY DEF From
  <2>3. QED BY <2>1, <2>2 DEF Reading, Served
<1>3. Waking /\ NoLostWakeup
  BY DEF Init, Waking, NoLostWakeup, Reader
<1>4. QED BY <1>1, <1>2, <1>3 DEF IInv

\* Every step keeps the types.
LEMMA TypeStep == IInv /\ [Next]_vars => TypeOK'
<1> SUFFICES ASSUME IInv, [Next]_vars PROVE TypeOK'
  OBVIOUS
<1>t. TypeOK /\ Reading /\ Len(stream) \in Nat
  BY DEF IInv, TypeOK
<1>1. ASSUME NEW kind \in Public, Observe(kind) PROVE TypeOK'
  <2>1. kind \in EventType
    BY DEF EventType
  <2>2. /\ stream' \in Seq(Row) /\ Len(stream') = Len(stream) + 1
        /\ storeKey' \in Nat /\ keys' \in Nat
    BY <1>t, <1>1, PersistType DEF Observe
  <2>3. queue' \in Seq(EventType) /\ consumer' \in {"asking", "waiting"} \cup EventType
    BY <1>t, <1>1, <2>1, PushKeeps DEF Observe
  <2>4. 0 .. Len(stream) \subseteq 0 .. Len(stream')
    BY <1>t, <2>2
  <2>5. QED BY <1>t, <1>1, <2>2, <2>3, <2>4
            DEF TypeOK, Observe, requests, readers, caps
<1>2. ASSUME NEW kind \in Public, OtherProcess(kind) PROVE TypeOK'
  <2>1. /\ stream' \in Seq(Row) /\ Len(stream') = Len(stream) + 1
        /\ storeKey' \in Nat /\ keys' \in Nat
    BY <1>t, <1>2, PersistType DEF OtherProcess
  <2>2. foreign' \subseteq Nat
    <3>1. foreign \subseteq Nat /\ foreign' = foreign \cup {Len(stream')}
      BY <1>t, <1>2 DEF TypeOK, OtherProcess
    <3>2. Len(stream') \in Nat
      BY <1>t, <2>1
    <3>3. QED BY <3>1, <3>2
  <2>3. 0 .. Len(stream) \subseteq 0 .. Len(stream')
    BY <1>t, <2>1
  <2>4. QED BY <1>t, <1>2, <2>1, <2>2, <2>3
            DEF TypeOK, OtherProcess, notices, requests, readers
<1>3. ASSUME NEW type \in {"message", "connect"}, PushBare(type) PROVE TypeOK'
  <2>1. type \in EventType
    BY DEF EventType, Public
  <2>2. queue' \in Seq(EventType) /\ consumer' \in {"asking", "waiting"} \cup EventType
    BY <1>t, <1>3, <2>1, PushKeeps DEF PushBare
  <2>3. QED BY <1>t, <1>3, <2>2 DEF TypeOK, PushBare, disk, requests, readers, caps
<1>4. ASSUME NextEvent PROVE TypeOK'
  <2>1. queue' \in Seq(EventType) /\ consumer' \in {"asking", "waiting"} \cup EventType
    <3>1. queue \in Seq(EventType)
      BY <1>t DEF TypeOK
    <3>2. CASE queue = <<>>
      BY <1>4, <3>1, <3>2 DEF NextEvent
    <3>3. CASE queue # <<>>
      <4>1. consumer' = Head(queue) /\ queue' = Tail(queue)
        BY <1>4, <3>3 DEF NextEvent
      <4>2. QED BY <3>1, <3>3, <4>1, Shifted
    <3>4. QED BY <3>2, <3>3
  <2>2. QED BY <1>t, <1>4, <2>1 DEF TypeOK, NextEvent, disk, requests, readers, caps
<1>5. ASSUME HandleEvent PROVE TypeOK'
  <2>1. phase' \in [Reader -> Phases] /\ waiters' \subseteq Poller
    BY <1>t, <1>5 DEF TypeOK, HandleEvent, Notify, Phases
  <2>2. QED BY <1>t, <1>5, <2>1 DEF TypeOK, HandleEvent, disk, readers, caps
<1>6. ASSUME NEW r \in Poller, Polls(r) PROVE TypeOK'
  <2>r. r \in Reader /\ pos[r] \in 0 .. Len(stream) /\ PollLimit \in Nat \ {0}
    BY <1>t, ReaderAssumption DEF Reader, TypeOK
  <2>1. CASE Call(r)
    BY <1>t, <2>1 DEF TypeOK, Call, Phases, disk, notices, readers, caps
  <2>2. CASE Answer(r)
    <3> DEFINE page == Page(pos[r], PollLimit)
    <3>1. /\ page # <<>> /\ batch' = [batch EXCEPT ![r] = page]
          /\ nextId' = [nextId EXCEPT ![r] = page[Len(page)]]
          /\ phase' = [phase EXCEPT ![r] = "answered"]
          /\ UNCHANGED <<disk, notices, waiters, after, readers, caps>>
      BY <2>2 DEF Answer
    <3>2. page \in Seq(Nat) /\ page[Len(page)] \in 0 .. Len(stream)
      <4>1. /\ page \in Seq(Nat) /\ Len(page) \in Nat \ {0}
            /\ page[Len(page)] = pos[r] + Len(page)
            /\ pos[r] + Len(page) <= Len(stream)
        BY <1>t, <2>r, <3>1, PageRows
      <4> HIDE DEF page
      <4>2. QED BY <1>t, <2>r, <4>1
    <3> HIDE DEF page
    <3>3. QED BY <1>t, <3>1, <3>2 DEF TypeOK, Phases, disk, notices, readers, caps
  <2>3. CASE Fail(r)
    BY <1>t, <2>r, <2>3, EndsType DEF TypeOK, Fail, disk, notices, readers, caps
  <2>4. CASE Wait(r)
    BY <1>t, <2>4 DEF TypeOK, Wait, Phases, disk, notices, readers, caps
  <2>5. CASE Timer(r)
    BY <1>t, <2>5 DEF TypeOK, Timer, Phases, disk, notices, readers, caps
  <2>6. CASE Expire(r)
    BY <1>t, <2>r, <2>6 DEF TypeOK, Expire, Phases, disk, notices, readers, caps
  <2>7. CASE Receive(r)
    <3>1. got[r] \in Seq(Nat) /\ batch[r] \in Seq(Nat) /\ nextId[r] \in 0 .. Len(stream)
      BY <1>t, <2>r DEF TypeOK
    <3>2. got[r] \o batch[r] \in Seq(Nat)
      BY <3>1, ConcatProperties
    <3>3. got' \in [Reader -> Seq(Nat)] /\ pos' \in [Reader -> 0 .. Len(stream)]
      BY <1>t, <2>7, <3>1, <3>2 DEF TypeOK, Receive
    <3>4. QED BY <1>t, <2>r, <2>7, <3>3, EndsType DEF TypeOK, Receive, disk, notices, caps
  <2>8. QED BY <1>6, <2>1, <2>2, <2>3, <2>4, <2>5, <2>6, <2>7 DEF Polls
<1>7. ASSUME NEW r \in Streamer, Streams(r) PROVE TypeOK'
  <2>r. /\ r \in Reader /\ pos[r] \in 0 .. Len(stream) /\ after[r] \in 0 .. Len(stream)
        /\ nextId[r] \in 0 .. Len(stream) /\ StreamLimit \in Nat \ {0}
    BY <1>t, ReaderAssumption DEF Reader, TypeOK
  <2>1. CASE StreamOpens(r)
    BY <1>t, <2>r, <2>1 DEF TypeOK, StreamOpens, Phases, disk, notices, readers, caps
  <2>2. CASE StreamLists(r)
    <3> DEFINE page == Page(after[r], StreamLimit)
    <3>1. /\ page # <<>> /\ batch' = [batch EXCEPT ![r] = page]
          /\ nextId' = [nextId EXCEPT ![r] = page[Len(page)]]
          /\ UNCHANGED <<disk, notices, waiters, phase, after, readers, caps>>
      BY <2>2 DEF StreamLists
    <3>2. page \in Seq(Nat) /\ page[Len(page)] \in 0 .. Len(stream)
      <4>1. /\ page \in Seq(Nat) /\ Len(page) \in Nat \ {0}
            /\ page[Len(page)] = after[r] + Len(page)
            /\ after[r] + Len(page) <= Len(stream)
        BY <1>t, <2>r, <3>1, PageRows
      <4> HIDE DEF page
      <4>2. QED BY <1>t, <2>r, <4>1
    <3> HIDE DEF page
    <3>3. QED BY <1>t, <3>1, <3>2 DEF TypeOK, disk, notices, readers, caps
  <2>3. CASE StreamWrites(r)
    <3>1. /\ batch[r] \in Seq(Nat) /\ batch[r] # <<>> /\ got[r] \in Seq(Nat)
          /\ batch[r] = From(pos[r], Len(batch[r]))
          /\ nextId[r] = pos[r] + Len(batch[r])
      BY <1>t, <2>r, <2>3 DEF TypeOK, Reading, Served, StreamWrites
    <3>2. Len(batch[r]) \in Nat \ {0} /\ Tail(batch[r]) \in Seq(Nat)
      BY <3>1, Shifted
    <3>3. Head(batch[r]) = pos[r] + 1
      <4>1. pos[r] \in Nat
        BY <1>t, <2>r
      <4>2. Head(From(pos[r], Len(batch[r]))) = pos[r] + 1
        BY <3>2, <4>1, FromTail
      <4>3. QED BY ONLY <3>1, <4>2, Zenon
    <3>4. Head(batch[r]) \in 0 .. Len(stream) /\ Head(batch[r]) \in Nat
      <4>1. \A p, m, l \in Nat : m # 0 /\ p + m <= l => p + 1 \in 0 .. l
        OBVIOUS
      <4>2. pos[r] \in Nat /\ pos[r] + Len(batch[r]) <= Len(stream)
        BY <1>t, <2>r, <3>1
      <4>3. pos[r] + 1 \in 0 .. Len(stream)
        BY <1>t, <3>2, <4>1, <4>2
      <4>4. QED BY <1>t, <3>3, <4>3
    <3>5. Append(got[r], Head(batch[r])) \in Seq(Nat)
      BY <3>1, <3>4, Appended
    <3>6. /\ got' = [got EXCEPT ![r] = Append(got[r], Head(batch[r]))]
          /\ pos' = [pos EXCEPT ![r] = Head(batch[r])]
          /\ batch' = [batch EXCEPT ![r] = Tail(batch[r])]
          /\ after' = after \/ after' = [after EXCEPT ![r] = nextId[r]]
          /\ UNCHANGED <<disk, notices, waiters, phase, nextId, plain, caps>>
      BY <2>3 DEF StreamWrites
    <3>7. QED BY <1>t, <2>r, <3>2, <3>4, <3>5, <3>6 DEF TypeOK, disk, notices, caps
  <2>4. CASE StreamFails(r)
    BY <1>t, <2>r, <2>4, EndsType DEF TypeOK, StreamFails, disk, notices, readers, caps
  <2>5. QED BY <1>7, <2>1, <2>2, <2>3, <2>4 DEF Streams
<1>8. ASSUME NEW r \in Reader, Abort(r) PROVE TypeOK'
  <2>1. /\ phase' \in [Reader -> Phases] /\ batch' \in [Reader -> Seq(Nat)]
        /\ nextId' \in [Reader -> 0 .. Len(stream)]
        /\ after' \in [Streamer -> 0 .. Len(stream)]
    BY <1>t, <1>8, EndsType DEF Abort
  <2>2. failures' \in Nat
    BY <1>t, <1>8 DEF TypeOK, Abort, MayFail
  <2>3. QED BY <1>t, <1>8, <2>1, <2>2 DEF TypeOK, Abort, disk, notices, readers
<1>9. ASSUME Crash PROVE TypeOK'
  <2>1. <<"connect">> \in Seq(EventType)
    BY DEF EventType
  <2>2. QED BY <1>t, <1>9, <2>1, EmptySeq
            DEF TypeOK, Crash, MayFail, Phases, disk, readers
<1>10. ASSUME LoseKey PROVE TypeOK'
  BY <1>t, <1>10 DEF TypeOK, LoseKey, MayFail, notices, requests, readers
<1>11. CASE UNCHANGED vars
  BY <1>t, <1>11 DEF TypeOK, vars, disk, notices, requests, readers, caps
<1>12. QED
  BY <1>1, <1>2, <1>3, <1>4, <1>5, <1>6, <1>7, <1>8, <1>9, <1>10, <1>11
     DEF Next, Produces, Drains, Fails

-----------------------------------------------------------------------------
(* The after_id protocol.                                                  *)

\* No sequence of ids follows anything but the empty one.
LEMMA NoneFollow == \A p \in Nat : From(p, 0) = <<>>
BY DEF From

\* A reader whose request did not move is served as before.
LEMMA Untouched ==
  ASSUME NEW r \in Reader, Served(r),
         phase'[r] = phase[r], batch'[r] = batch[r], nextId'[r] = nextId[r],
         pos'[r] = pos[r], got'[r] = got[r],
         r \in Streamer => after'[r] = after[r]
  PROVE  Served(r)'
BY DEF Served

\* A request may end at any time: the reader keeps what it has.
LEMMA EndsServed ==
  ASSUME TypeOK, NEW r \in Reader, Ends(r), UNCHANGED readers, Reading
  PROVE  Reading'
<1>1. pos[r] \in Nat
  BY DEF TypeOK
<1>2. ASSUME NEW q \in Reader PROVE Served(q)'
  <2>1. CASE q = r
    <3>1. /\ phase'[q] = "away" /\ batch'[q] = <<>>
          /\ pos'[q] = pos[q] /\ got'[q] = got[q]
      BY <2>1 DEF TypeOK, Ends, readers
    <3>2. got[q] = From(0, pos[q])
      BY DEF Reading, Served
    <3>3. batch'[q] = From(pos'[q], Len(batch'[q]))
      BY <1>1, <2>1, <3>1, NoneFollow
    <3>4. QED BY <3>1, <3>2, <3>3 DEF Served
  <2>2. CASE q # r
    BY <2>2, Untouched DEF Reading, TypeOK, Ends, readers
  <2>3. QED BY <2>1, <2>2
<1>3. QED BY <1>2 DEF Reading

\* Every step keeps each reader served.
LEMMA ReadingStep == IInv /\ [Next]_vars => Reading'
<1> SUFFICES ASSUME IInv, [Next]_vars PROVE Reading'
  OBVIOUS
<1>t. TypeOK /\ Reading /\ Len(stream) \in Nat
  BY DEF IInv, TypeOK
<1>u. ASSUME UNCHANGED <<requests, readers>> PROVE Reading'
  BY <1>t, <1>u, Untouched DEF Reading, requests, readers
<1>p. ASSUME NEW r \in Reader
      PROVE  pos[r] \in Nat /\ pos[r] \in 0 .. Len(stream) /\ batch[r] \in Seq(Nat)
  BY <1>t DEF TypeOK
<1>1. ASSUME HandleEvent PROVE Reading'
  <2>1. ASSUME NEW q \in Reader PROVE Served(q)'
    <3>1. /\ batch'[q] = batch[q] /\ nextId'[q] = nextId[q] /\ pos'[q] = pos[q]
          /\ got'[q] = got[q] /\ after' = after
      BY <1>1 DEF HandleEvent, readers
    <3>2. \/ phase'[q] = phase[q]
          \/ phase[q] = "waiting" /\ phase'[q] = "listing"
      BY <1>t, <1>1 DEF HandleEvent, Notify, TypeOK
    <3>3. CASE phase'[q] = phase[q]
      BY <1>t, <3>1, <3>3, Untouched DEF Reading
    <3>4. CASE phase[q] = "waiting" /\ phase'[q] = "listing"
      BY <1>t, <3>1, <3>4 DEF Reading, Served
    <3>5. QED BY <3>2, <3>3, <3>4
  <2>2. QED BY <2>1 DEF Reading
<1>2. ASSUME NEW r \in Poller, Polls(r) PROVE Reading'
  <2>r. r \in Reader /\ PollLimit \in Nat \ {0} /\ r \notin Streamer
    BY ReaderAssumption DEF Reader
  <2>s. Served(r)
    BY <1>t, <2>r DEF Reading
  <2>1. ASSUME phase[r] \notin {"answered", "streaming"},
               \E ph \in {"listing", "late", "waiting"} :
                 phase' = [phase EXCEPT ![r] = ph],
               UNCHANGED <<batch, nextId, after, readers>>
        PROVE  Reading'
    <3>1. ASSUME NEW q \in Reader PROVE Served(q)'
      <4>1. CASE q = r
        BY <1>t, <2>r, <2>s, <2>1, <4>1 DEF Served, TypeOK, readers
      <4>2. CASE q # r
        BY <1>t, <2>1, <4>2, Untouched DEF Reading, TypeOK, readers
      <4>3. QED BY <4>1, <4>2
    <3>2. QED BY <3>1 DEF Reading
  <2>2. CASE Call(r)
    BY <2>1, <2>2 DEF Call
  <2>3. CASE Answer(r)
    <3> DEFINE page == Page(pos[r], PollLimit)
    <3>1. /\ page # <<>> /\ batch' = [batch EXCEPT ![r] = page]
          /\ nextId' = [nextId EXCEPT ![r] = page[Len(page)]]
          /\ phase' = [phase EXCEPT ![r] = "answered"]
          /\ UNCHANGED <<after, readers>>
      BY <2>3 DEF Answer
    <3>2. page = From(pos[r], Len(page)) /\ page[Len(page)] = pos[r] + Len(page)
      BY <1>t, <1>p, <2>r, <3>1, PageRows
    <3> HIDE DEF page
    <3>3. ASSUME NEW q \in Reader PROVE Served(q)'
      <4>1. CASE q = r
        BY <1>t, <2>r, <2>s, <3>1, <3>2, <4>1 DEF Served, TypeOK, readers
      <4>2. CASE q # r
        BY <1>t, <3>1, <4>2, Untouched DEF Reading, TypeOK, readers
      <4>3. QED BY <4>1, <4>2
    <3>4. QED BY <3>3 DEF Reading
  <2>4. CASE Fail(r)
    BY <1>t, <2>r, <2>4, EndsServed DEF Fail
  <2>5. CASE Wait(r)
    BY <2>1, <2>5 DEF Wait
  <2>6. CASE Timer(r)
    BY <2>1, <2>6 DEF Timer
  <2>7. CASE Expire(r)
    <3>1. /\ phase[r] = "late" /\ phase' = [phase EXCEPT ![r] = "answered"]
          /\ nextId' = [nextId EXCEPT ![r] = pos[r]]
          /\ UNCHANGED <<batch, after, readers>>
      BY <2>7 DEF Expire
    <3>2. batch[r] = <<>>
      BY <2>s, <3>1 DEF Served
    <3>3. pos[r] = pos[r] + Len(batch[r])
      BY <1>p, <2>r, <3>2
    <3>4. ASSUME NEW q \in Reader PROVE Served(q)'
      <4>1. CASE q = r
        BY <1>t, <2>r, <2>s, <3>1, <3>2, <3>3, <4>1 DEF Served, TypeOK, readers
      <4>2. CASE q # r
        BY <1>t, <3>1, <4>2, Untouched DEF Reading, TypeOK, readers
      <4>3. QED BY <4>1, <4>2
    <3>5. QED BY <3>4 DEF Reading
  <2>8. CASE Receive(r)
    <3>1. /\ phase[r] = "answered" /\ Ends(r)
          /\ got' = [got EXCEPT ![r] = got[r] \o batch[r]]
          /\ pos' = [pos EXCEPT ![r] = nextId[r]]
      BY <2>8 DEF Receive
    <3>2. /\ got[r] = From(0, pos[r]) /\ batch[r] = From(pos[r], Len(batch[r]))
          /\ nextId[r] = pos[r] + Len(batch[r])
      BY <2>s, <3>1 DEF Served
    <3>3. Len(batch[r]) \in Nat /\ pos[r] \in Nat
      BY <1>p, <2>r
    <3>4. got[r] \o batch[r] = From(0, nextId[r]) /\ nextId[r] \in Nat
      <4>1. From(0, pos[r]) \o From(pos[r], Len(batch[r])) = From(0, pos[r] + Len(batch[r]))
        BY <3>3, FromConcat
      <4>2. got[r] \o batch[r] = From(0, nextId[r])
        BY ONLY <3>2, <4>1, Zenon
      <4>3. nextId[r] \in Nat
        BY <3>2, <3>3
      <4>4. QED BY <4>2, <4>3
    <3>5. ASSUME NEW q \in Reader PROVE Served(q)'
      <4>1. CASE q = r
        <5>1. /\ phase'[q] = "away" /\ batch'[q] = <<>>
              /\ pos'[q] = nextId[q] /\ got'[q] = From(0, nextId[q])
          BY <1>t, <2>r, <3>1, <3>4, <4>1 DEF Ends, TypeOK
        <5>2. batch'[q] = From(pos'[q], Len(batch'[q]))
          BY <3>4, <4>1, <5>1, NoneFollow
        <5>3. QED BY <5>1, <5>2 DEF Served
      <4>2. CASE q # r
        BY <1>t, <3>1, <4>2, Untouched DEF Reading, TypeOK, Ends
      <4>3. QED BY <4>1, <4>2
    <3>6. QED BY <3>5 DEF Reading
  <2>9. QED BY <1>2, <2>2, <2>3, <2>4, <2>5, <2>6, <2>7, <2>8 DEF Polls
<1>3. ASSUME NEW r \in Streamer, Streams(r) PROVE Reading'
  <2>r. r \in Reader /\ StreamLimit \in Nat \ {0} /\ r \notin Poller
    BY ReaderAssumption DEF Reader
  <2>s. Served(r)
    BY <1>t, <2>r DEF Reading
  <2>1. CASE StreamOpens(r)
    <3>1. /\ phase[r] = "away" /\ phase' = [phase EXCEPT ![r] = "streaming"]
          /\ after' = [after EXCEPT ![r] = pos[r]]
          /\ UNCHANGED <<batch, nextId, readers>>
      BY <2>1 DEF StreamOpens
    <3>2. ASSUME NEW q \in Reader PROVE Served(q)'
      <4>1. CASE q = r
        BY <1>t, <2>r, <2>s, <3>1, <4>1 DEF Served, TypeOK, readers
      <4>2. CASE q # r
        BY <1>t, <3>1, <4>2, Untouched DEF Reading, TypeOK, readers
      <4>3. QED BY <4>1, <4>2
    <3>3. QED BY <3>2 DEF Reading
  <2>2. CASE StreamLists(r)
    <3> DEFINE page == Page(after[r], StreamLimit)
    <3>1. /\ phase[r] = "streaming" /\ batch[r] = <<>> /\ page # <<>>
          /\ batch' = [batch EXCEPT ![r] = page]
          /\ nextId' = [nextId EXCEPT ![r] = page[Len(page)]]
          /\ UNCHANGED <<phase, after, readers>>
      BY <2>2 DEF StreamLists
    <3>2. after[r] = pos[r]
      BY <2>s, <3>1 DEF Served
    <3>3. page = From(pos[r], Len(page)) /\ page[Len(page)] = pos[r] + Len(page)
      BY <1>t, <1>p, <2>r, <3>1, <3>2, PageRows
    <3> HIDE DEF page
    <3>4. ASSUME NEW q \in Reader PROVE Served(q)'
      <4>1. CASE q = r
        BY <1>t, <2>r, <2>s, <3>1, <3>2, <3>3, <4>1 DEF Served, TypeOK, readers
      <4>2. CASE q # r
        BY <1>t, <3>1, <4>2, Untouched DEF Reading, TypeOK, readers
      <4>3. QED BY <4>1, <4>2
    <3>5. QED BY <3>4 DEF Reading
  <2>3. CASE StreamWrites(r)
    <3> DEFINE b == batch[r]
               n == Len(batch[r])
    <3>1. /\ phase[r] = "streaming" /\ b # <<>>
          /\ got' = [got EXCEPT ![r] = Append(got[r], Head(b))]
          /\ pos' = [pos EXCEPT ![r] = Head(b)]
          /\ batch' = [batch EXCEPT ![r] = Tail(b)]
          /\ after' = IF n = 1 THEN [after EXCEPT ![r] = nextId[r]] ELSE after
          /\ UNCHANGED <<phase, nextId>>
      BY <2>3 DEF StreamWrites
    <3>2. /\ got[r] = From(0, pos[r]) /\ b = From(pos[r], n)
          /\ nextId[r] = pos[r] + n
      BY <2>s, <3>1 DEF Served
    <3>3. n \in Nat \ {0} /\ pos[r] \in Nat
      BY <1>p, <2>r, <3>1, Shifted
    <3>4. Head(b) = pos[r] + 1 /\ Tail(b) = From(pos[r] + 1, n - 1)
      BY <3>2, <3>3, FromTail
    <3>5. Append(got[r], pos[r] + 1) = From(0, pos[r] + 1)
      BY <3>2, <3>3, FromAppend
    <3>6. Len(Tail(b)) = n - 1
      BY <1>p, <2>r, <3>1, Shifted
    <3>7. Tail(b) = <<>> => n = 1
      <4>1. ASSUME NEW tail, Len(tail) = n - 1, tail = <<>> PROVE n = 1
        BY <3>3, <4>1
      <4>2. QED BY <3>6, <4>1
    <3>8. ASSUME NEW q \in Reader PROVE Served(q)'
      <4>1. CASE q = r
        <5>1. /\ got'[q] = From(0, pos[r] + 1) /\ pos'[q] = pos[r] + 1
              /\ batch'[q] = From(pos[r] + 1, n - 1) /\ batch'[q] = Tail(b)
              /\ phase'[q] = "streaming" /\ nextId'[q] = pos[r] + n
              /\ n = 1 => after'[q] = pos[r] + n
          BY <1>t, <2>r, <3>1, <3>2, <3>4, <3>5, <4>1 DEF TypeOK
        <5>2. Len(batch'[q]) = n - 1
          BY <3>6, <5>1
        <5>3. nextId'[q] = pos'[q] + Len(batch'[q])
          BY <3>3, <5>1, <5>2
        <5>4. batch'[q] = <<>> => after'[q] = pos'[q]
          BY <3>3, <3>7, <5>1
        <5>5. q \notin Poller
          BY <2>r, <4>1
        <5> HIDE DEF b, n
        <5>6. QED BY <5>1, <5>2, <5>3, <5>4, <5>5 DEF Served
      <4>2. CASE q # r
        BY <1>t, <3>1, <4>2, Untouched DEF Reading, TypeOK
      <4>3. QED BY <4>1, <4>2
    <3>9. QED BY <3>8 DEF Reading
  <2>4. CASE StreamFails(r)
    BY <1>t, <2>r, <2>4, EndsServed DEF StreamFails
  <2>5. QED BY <1>3, <2>1, <2>2, <2>3, <2>4 DEF Streams
<1>4. ASSUME NEW r \in Reader, Abort(r) PROVE Reading'
  BY <1>t, <1>4, EndsServed DEF Abort
<1>5. ASSUME Crash PROVE Reading'
  <2>1. ASSUME NEW q \in Reader PROVE Served(q)'
    <3>1. /\ phase'[q] = "away" /\ batch'[q] = <<>>
          /\ pos'[q] = pos[q] /\ got'[q] = got[q]
      BY <1>5 DEF Crash, readers
    <3>2. got[q] = From(0, pos[q])
      BY <1>t DEF Reading, Served
    <3>3. batch'[q] = From(pos'[q], Len(batch'[q]))
      BY <1>p, <3>1, NoneFollow
    <3>4. QED BY <3>1, <3>2, <3>3 DEF Served
  <2>2. QED BY <2>1 DEF Reading
<1>6. ASSUME Produces \/ NextEvent \/ LoseKey PROVE Reading'
  BY <1>6, <1>u
     DEF Produces, Observe, OtherProcess, PushBare, NextEvent, LoseKey
<1>7. CASE UNCHANGED vars
  BY <1>7, <1>u DEF vars
<1>8. QED
  BY <1>1, <1>2, <1>3, <1>4, <1>5, <1>6, <1>7 DEF Next, Drains, Fails

-----------------------------------------------------------------------------
(* Wake-ups.                                                               *)

\* A row of this sidecar that the reader does not have.
OwnAhead(r) == \E i \in pos[r] + 1 .. Len(stream) : i \notin foreign

\* The two invariants about wake-ups, reader by reader.
LEMMA NoLostWakeupByReader ==
  Waking /\ NoLostWakeup <=>
    \A r \in Poller :
      phase[r] = "waiting" => r \in waiters /\ (OwnAhead(r) => NotifyComing)
BY DEF Waking, NoLostWakeup, OwnAhead

\* A step that adds no row and loses no notification strands no poll that waited.
LEMMA StaysAwake ==
  ASSUME Waking, NoLostWakeup,
         UNCHANGED <<stream, foreign>>, NotifyComing => NotifyComing',
         \A r \in Poller :
           phase'[r] = "waiting" =>
             phase[r] = "waiting" /\ r \in waiters' /\ pos'[r] = pos[r]
  PROVE  (Waking /\ NoLostWakeup)'
BY DEF Waking, NoLostWakeup

\* No step loses a wake-up.
LEMMA WakeStep == IInv /\ [Next]_vars => (Waking /\ NoLostWakeup)'
<1> SUFFICES ASSUME IInv, [Next]_vars PROVE (Waking /\ NoLostWakeup)'
  OBVIOUS
<1>t. /\ TypeOK /\ Reading /\ Waking /\ NoLostWakeup
      /\ Len(stream) \in Nat /\ phase \in [Reader -> Phases]
      /\ queue \in Seq(EventType) /\ \A r \in Reader : pos[r] \in Nat
  BY DEF IInv, TypeOK
<1>r. Poller \subseteq Reader /\ Streamer \subseteq Reader /\ Poller \cap Streamer = {}
  BY ReaderAssumption DEF Reader
<1>1. ASSUME NEW kind \in Public, Observe(kind) PROVE (Waking /\ NoLostWakeup)'
  <2>1. kind \in EventType
    BY DEF EventType
  <2>2. NotifyComing'
    BY <1>t, <1>1, <2>1, PushKeeps DEF Observe
  <2>3. phase' = phase /\ waiters' = waiters
    BY <1>1 DEF Observe, requests
  <2>4. QED BY <1>t, <2>2, <2>3 DEF Waking, NoLostWakeup
<1>2. ASSUME NEW kind \in Public, OtherProcess(kind) PROVE (Waking /\ NoLostWakeup)'
  <2>1. /\ Len(stream') = Len(stream) + 1
        /\ foreign' = foreign \cup {Len(stream')}
        /\ UNCHANGED <<queue, consumer, waiters, phase, pos>>
    BY <1>t, <1>2, PersistType DEF OtherProcess, notices, requests, readers
  <2>2. ASSUME NEW r \in Poller, phase'[r] = "waiting",
               NEW i \in pos'[r] + 1 .. Len(stream'), i \notin foreign'
        PROVE  NotifyComing'
    <3>1. i \in pos[r] + 1 .. Len(stream) /\ i \notin foreign
      BY <1>t, <1>r, <2>1, <2>2
    <3>2. phase[r] = "waiting"
      BY <2>1, <2>2
    <3>3. NotifyComing
      BY <1>t, <3>1, <3>2 DEF NoLostWakeup
    <3>4. QED BY <2>1, <3>3 DEF NotifyComing
  <2>3. QED BY <1>t, <2>1, <2>2 DEF Waking, NoLostWakeup
<1>3. ASSUME NEW type \in {"message", "connect"}, PushBare(type)
      PROVE  (Waking /\ NoLostWakeup)'
  <2>1. type \in EventType
    BY DEF EventType, Public
  <2>2. NotifyComing => NotifyComing'
    BY <1>t, <1>3, <2>1, PushKeeps DEF PushBare
  <2>3. UNCHANGED <<stream, foreign, phase, waiters, pos>>
    BY <1>3 DEF PushBare, disk, requests, readers, caps
  <2>4. QED BY <1>t, <2>2, <2>3, StaysAwake DEF Waking
<1>4. ASSUME NextEvent PROVE (Waking /\ NoLostWakeup)'
  <2>1. UNCHANGED <<stream, foreign, phase, waiters, pos>>
    BY <1>4 DEF NextEvent, disk, requests, readers, caps
  <2>2. consumer = "asking" /\ consumer \notin Public
    BY <1>4 DEF NextEvent, Public
  <2>3. CASE queue = <<>>
    <3>1. ~ NotifyComing
      BY <2>2, <2>3 DEF NotifyComing
    <3>2. QED BY <1>t, <2>1, <3>1, StaysAwake DEF Waking
  <2>4. CASE queue # <<>>
    <3>1. consumer' = Head(queue) /\ queue' = Tail(queue)
      BY <1>4, <2>4 DEF NextEvent
    <3>2. /\ Head(queue) = queue[1] /\ Len(queue) \in Nat \ {0}
          /\ Len(Tail(queue)) = Len(queue) - 1
          /\ \A i \in 1 .. Len(Tail(queue)) : Tail(queue)[i] = queue[i + 1]
      BY <1>t, <2>4, Shifted
    <3>3. ASSUME NEW i \in 1 .. Len(queue), queue[i] \in Public PROVE NotifyComing'
      <4>1. CASE i = 1
        BY <3>1, <3>2, <3>3, <4>1 DEF NotifyComing
      <4>2. CASE i # 1
        <5>1. i - 1 \in 1 .. Len(queue') /\ queue'[i - 1] = queue[i]
          BY <3>1, <3>2, <3>3, <4>2
        <5>2. QED BY <3>3, <5>1 DEF NotifyComing
      <4>3. QED BY <4>1, <4>2
    <3>4. NotifyComing => NotifyComing'
      BY <2>2, <3>3 DEF NotifyComing
    <3>5. QED BY <1>t, <2>1, <3>4, StaysAwake DEF Waking
  <2>5. QED BY <2>3, <2>4
<1>5. ASSUME HandleEvent PROVE (Waking /\ NoLostWakeup)'
  <2>1. UNCHANGED <<stream, foreign, queue, pos>>
    BY <1>5 DEF HandleEvent, disk, readers, caps
  <2>2. CASE consumer \in Public
    <3>1. \A r \in Poller : phase'[r] # "waiting"
      BY <1>t, <1>r, <1>5, <2>2 DEF HandleEvent, Notify, Waking
    <3>2. QED BY <3>1 DEF Waking, NoLostWakeup
  <2>3. CASE consumer \notin Public
    <3>1. UNCHANGED <<phase, waiters>>
      BY <1>5, <2>3 DEF HandleEvent
    <3>2. NotifyComing => NotifyComing'
      BY <2>1, <2>3 DEF NotifyComing
    <3>3. QED BY <1>t, <2>1, <3>1, <3>2, StaysAwake DEF Waking
  <2>4. QED BY <2>2, <2>3
<1>6. ASSUME NEW r \in Poller, Polls(r) PROVE (Waking /\ NoLostWakeup)'
  <2>r. r \in Reader
    BY <1>r
  <2>1. UNCHANGED <<stream, foreign, queue, consumer>>
    BY <1>6 DEF Polls, Call, Answer, Fail, Wait, Timer, Expire, Receive,
                disk, notices, caps
  <2>2. NotifyComing <=> NotifyComing'
    BY <2>1 DEF NotifyComing
  <2>3. CASE Wait(r)
    <3>1. /\ phase' = [phase EXCEPT ![r] = "waiting"] /\ waiters' = waiters \cup {r}
          /\ pos' = pos /\ Page(pos[r], PollLimit) = <<>>
      BY <2>3 DEF Wait, readers
    <3>2. pos[r] = Len(stream)
      BY <1>t, <2>r, <3>1, NoRows, ReaderAssumption DEF TypeOK
    <3>3. ASSUME NEW q \in Poller, phase'[q] = "waiting"
          PROVE  q \in waiters' /\ (OwnAhead(q)' => NotifyComing')
      <4>1. CASE q = r
        <5>1. ~ OwnAhead(q)'
          BY <1>t, <2>1, <3>1, <3>2, <4>1 DEF OwnAhead
        <5>2. QED BY <3>1, <4>1, <5>1
      <4>2. CASE q # r
        <5>1. phase[q] = "waiting"
          BY <1>t, <1>r, <3>1, <3>3, <4>2
        <5>2. OwnAhead(q)' <=> OwnAhead(q)
          BY <2>1, <3>1 DEF OwnAhead
        <5>3. QED BY <1>t, <2>2, <3>1, <5>1, <5>2, NoLostWakeupByReader
      <4>3. QED BY <4>1, <4>2
    <3>4. QED BY <3>3 DEF Waking, NoLostWakeup, OwnAhead
  <2>4. CASE ~ Wait(r)
    <3>1. /\ waiters' = waiters
          /\ \E ph \in Phases \ {"waiting"} : phase' = [phase EXCEPT ![r] = ph]
          /\ \A q \in Reader \ {r} : pos'[q] = pos[q]
      BY <1>6, <1>t, <2>4 DEF Polls, Call, Answer, Fail, Timer, Expire, Receive, Ends,
                         readers, Phases, TypeOK
    <3>2. QED BY <1>t, <1>r, <2>1, <2>2, <3>1, StaysAwake DEF Waking
  <2>5. QED BY <2>3, <2>4
<1>7. ASSUME NEW s \in Streamer, Streams(s) PROVE (Waking /\ NoLostWakeup)'
  <2>1. UNCHANGED <<stream, foreign, queue, consumer, waiters>>
    BY <1>7 DEF Streams, StreamOpens, StreamLists, StreamWrites, StreamFails,
                disk, notices, caps
  <2>2. NotifyComing <=> NotifyComing'
    BY <2>1 DEF NotifyComing
  <2>3. \A r \in Poller : phase'[r] = phase[r] /\ pos'[r] = pos[r]
    BY <1>t, <1>r, <1>7 DEF Streams, StreamOpens, StreamLists, StreamWrites,
                            StreamFails, Ends, readers, TypeOK
  <2>4. QED BY <1>t, <2>1, <2>2, <2>3, StaysAwake DEF Waking
<1>8. ASSUME NEW r \in Reader, Abort(r) PROVE (Waking /\ NoLostWakeup)'
  <2>1. UNCHANGED <<stream, foreign, queue, consumer, waiters, pos>>
    BY <1>8 DEF Abort, disk, notices, readers
  <2>2. NotifyComing <=> NotifyComing'
    BY <2>1 DEF NotifyComing
  <2>3. \A q \in Poller : phase'[q] = "waiting" => phase[q] = "waiting"
    BY <1>t, <1>r, <1>8 DEF Abort, Ends
  <2>4. QED BY <1>t, <2>1, <2>2, <2>3, StaysAwake DEF Waking
<1>9. ASSUME Crash PROVE (Waking /\ NoLostWakeup)'
  <2>1. \A r \in Poller : phase'[r] = "away"
    BY <1>r, <1>9 DEF Crash
  <2>2. QED BY <2>1 DEF Waking, NoLostWakeup
<1>10. ASSUME LoseKey PROVE (Waking /\ NoLostWakeup)'
  <2>1. UNCHANGED <<stream, foreign, queue, consumer, waiters, phase, pos>>
    BY <1>10 DEF LoseKey, notices, requests, readers
  <2>2. NotifyComing <=> NotifyComing'
    BY <2>1 DEF NotifyComing
  <2>3. QED BY <1>t, <2>1, <2>2, StaysAwake DEF Waking
<1>11. CASE UNCHANGED vars
  <2>1. UNCHANGED <<stream, foreign, queue, consumer, waiters, phase, pos>>
    BY <1>11 DEF vars, disk, notices, requests, readers, caps
  <2>2. NotifyComing <=> NotifyComing'
    BY <2>1 DEF NotifyComing
  <2>3. QED BY <1>t, <2>1, <2>2, StaysAwake DEF Waking
<1>12. QED
  BY <1>1, <1>2, <1>3, <1>4, <1>5, <1>6, <1>7, <1>8, <1>9, <1>10, <1>11
     DEF Next, Produces, Drains, Fails

-----------------------------------------------------------------------------
(* The refinement of EventStream.                                          *)

\* Every step publishes a row, hands a reader the next ones, or shows nothing.
LEMMA DurableStep == IInv /\ [Next]_vars => [Durable!Next]_<<Len(stream), got>>
<1> SUFFICES ASSUME IInv, [Next]_vars PROVE [Durable!Next]_<<Len(stream), got>>
  OBVIOUS
<1>t. TypeOK /\ Reading /\ Len(stream) \in Nat
  BY DEF IInv, TypeOK
<1>1. ASSUME NEW kind \in Public, Persist(kind), UNCHANGED readers
      PROVE  Durable!Next
  BY <1>t, <1>1, PersistType DEF readers, Durable!Next, Durable!Publish
<1>2. ASSUME NEW r \in Reader, batch[r] # <<>>,
             NEW n \in 1 .. Len(batch[r]),
             got' = [got EXCEPT ![r] = got[r] \o From(pos[r], n)],
             UNCHANGED stream
      PROVE  Durable!Next
  <2>1. /\ batch[r] \in Seq(Nat) /\ got[r] = From(0, pos[r]) /\ pos[r] \in Nat
        /\ nextId[r] = pos[r] + Len(batch[r]) /\ nextId[r] <= Len(stream)
    BY <1>t, <1>2 DEF TypeOK, Reading, Served
  <2>2. /\ Len(batch[r]) \in Nat /\ n \in 1 .. Len(batch[r])
        /\ pos[r] + Len(batch[r]) <= Len(stream)
    <3>1. Len(batch[r]) \in Nat
      BY <2>1
    <3>2. pos[r] + Len(batch[r]) <= Len(stream)
      BY ONLY <2>1, Zenon
    <3>3. QED BY <1>2, <3>1, <3>2
  <2>3. Len(got[r]) = pos[r]
    <3>1. 0 \in Nat
      OBVIOUS
    <3>2. Len(From(0, pos[r])) = pos[r]
      BY ONLY <2>1, <3>1, FromType, Zenon
    <3>3. QED BY ONLY <2>1, <3>2, Zenon
  <2>4. Len(got[r]) + n <= Len(stream) /\ n \in 1 .. Len(stream)
    <3>1. \A p, m, l \in Nat :
            p + m <= l /\ n \in 1 .. m => p + n <= l /\ n \in 1 .. l
      OBVIOUS
    <3>2. pos[r] + n <= Len(stream) /\ n \in 1 .. Len(stream)
      BY ONLY <1>t, <2>1, <2>2, <3>1, Zenon
    <3>3. QED BY ONLY <2>3, <3>2, Zenon
  <2>5. got' = [got EXCEPT ![r] = got[r] \o [i \in 1 .. n |-> Len(got[r]) + i]]
    BY <1>2, <2>3 DEF From
  <2>6. QED BY <1>2, <2>4, <2>5 DEF Durable!Next, Durable!Read
<1>3. ASSUME NEW r \in Poller, Polls(r) PROVE [Durable!Next]_<<Len(stream), got>>
  <2>r. r \in Reader
    BY DEF Reader
  <2>1. CASE Receive(r)
    <3>1. /\ phase[r] = "answered" /\ stream' = stream
          /\ got' = [got EXCEPT ![r] = got[r] \o batch[r]]
      BY <2>1 DEF Receive, disk
    <3>2. /\ batch[r] = From(pos[r], Len(batch[r])) /\ batch[r] \in Seq(Nat)
          /\ got[r] \in Seq(Nat) /\ got \in [Reader -> Seq(Nat)]
      BY <1>t, <2>r DEF TypeOK, Reading, Served
    <3>3. CASE batch[r] = <<>>
      <4>1. got[r] \o batch[r] = got[r]
        BY <3>2, <3>3, ConcatEmptySeq
      <4>2. got' = got
        BY <3>1, <3>2, <4>1
      <4>3. QED BY <3>1, <4>2
    <3>4. CASE batch[r] # <<>>
      <4>1. Len(batch[r]) \in 1 .. Len(batch[r])
        BY <3>2, <3>4
      <4>2. QED BY <1>2, <2>r, <3>1, <3>2, <3>4, <4>1
    <3>5. QED BY <3>3, <3>4
  <2>2. CASE ~ Receive(r)
    BY <1>3, <2>2 DEF Polls, Call, Answer, Fail, Wait, Timer, Expire, disk, readers
  <2>3. QED BY <2>1, <2>2
<1>4. ASSUME NEW s \in Streamer, Streams(s) PROVE [Durable!Next]_<<Len(stream), got>>
  <2>r. s \in Reader
    BY DEF Reader
  <2>1. CASE StreamWrites(s)
    <3>1. /\ batch[s] # <<>> /\ stream' = stream
          /\ got' = [got EXCEPT ![s] = Append(got[s], Head(batch[s]))]
      BY <2>1 DEF StreamWrites, disk
    <3>2. /\ batch[s] = From(pos[s], Len(batch[s])) /\ batch[s] \in Seq(Nat)
          /\ got[s] = From(0, pos[s]) /\ pos[s] \in Nat
      BY <1>t, <2>r DEF TypeOK, Reading, Served
    <3>3. Len(batch[s]) \in Nat \ {0}
      BY <3>1, <3>2, Shifted
    <3>4. Head(batch[s]) = pos[s] + 1
      BY <3>2, <3>3, FromTail
    <3>5. Append(got[s], pos[s] + 1) = got[s] \o From(pos[s], 1)
      <4>1. Append(From(0, pos[s]), pos[s] + 1) = From(0, pos[s] + 1)
        BY <3>2, FromAppend
      <4>2. From(0, pos[s]) \o From(pos[s], 1) = From(0, pos[s] + 1)
        BY <3>2, FromConcat
      <4>3. QED BY ONLY <3>2, <4>1, <4>2, Zenon
    <3>6. got' = [got EXCEPT ![s] = got[s] \o From(pos[s], 1)]
      BY ONLY <3>1, <3>4, <3>5, Zenon
    <3>7. 1 \in 1 .. Len(batch[s])
      BY <3>3
    <3>8. QED BY <1>2, <2>r, <3>1, <3>6, <3>7
  <2>2. CASE ~ StreamWrites(s)
    BY <1>4, <2>2 DEF Streams, StreamOpens, StreamLists, StreamFails, disk, readers
  <2>3. QED BY <2>1, <2>2
<1>5. ASSUME \/ \E type \in {"message", "connect"} : PushBare(type)
             \/ Drains \/ Fails \/ UNCHANGED vars
      PROVE  UNCHANGED <<Len(stream), got>>
  BY <1>5 DEF PushBare, Drains, NextEvent, HandleEvent, Fails, Crash, LoseKey, Abort,
              vars, disk, readers
<1>6. ASSUME NEW kind \in Public, Observe(kind) \/ OtherProcess(kind)
      PROVE  Durable!Next
  BY <1>1, <1>6 DEF Observe, OtherProcess
<1>7. QED BY <1>3, <1>4, <1>5, <1>6 DEF Next, Produces

-----------------------------------------------------------------------------
\* An invariant that IInv implies holds of every behaviour.
LEMMA Inductive == Spec => []IInv
<1>1. IInv /\ [Next]_vars => IInv'
  BY TypeStep, ReadingStep, WakeStep DEF IInv
<1>2. QED BY InitHolds, <1>1, PTL DEF Spec

\* The state of the event service stays well typed, and no reader has or is given
\* an after_id beyond the last row.
THEOREM EventTypes == Spec => []TypeOK
<1>1. IInv => TypeOK
  BY DEF IInv
<1>2. QED BY Inductive, <1>1, PTL

\* No long poll sleeps through an event of its own sidecar, however the queue, the
\* consumer, the timers and the polls interleave (events.ts: list, then register a
\* waker, with no await in between).
THEOREM WakeupsNotLost == Spec => []NoLostWakeup
<1>1. IInv => NoLostWakeup
  BY DEF IInv
<1>2. QED BY Inductive, <1>1, PTL

\* Every reader receives every durable event at most once, in order and without a
\* gap, over polls, broken streams and restarts of the sidecar.
THEOREM ReadersInOrder == Spec => ReadOnceInOrder
<1>1. Init => Durable!Init
  BY DEF Init, Durable!Init
<1>2. QED
  BY Inductive, DurableStep, <1>1, PTL DEF Spec, ReadOnceInOrder, Durable!Spec

\* What a reader has received is the beginning of the durable stream, each event
\* in its place, in every state (waitForEvents, GET /events/stream).
THEOREM ReadersHaveTheBeginning == Spec => []Durable!InOrder
<1>1. IInv => Durable!InOrder
  <2> SUFFICES ASSUME IInv, NEW r \in Reader
               PROVE  /\ Len(got[r]) <= Len(stream)
                      /\ \A i \in 1 .. Len(got[r]) : got[r][i] = i
    BY DEF Durable!InOrder
  <2>1. got[r] = From(0, pos[r]) /\ pos[r] \in 0 .. Len(stream) /\ Len(stream) \in Nat
    BY DEF IInv, TypeOK, Reading, Served
  <2>2. pos[r] \in Nat /\ pos[r] <= Len(stream)
    BY <2>1
  <2>3. Len(From(0, pos[r])) = pos[r] /\ \A i \in 1 .. pos[r] : From(0, pos[r])[i] = 0 + i
    BY <2>2, FromType
  <2>4. Len(got[r]) = pos[r] /\ \A i \in 1 .. pos[r] : got[r][i] = 0 + i
    BY <2>1, <2>3
  <2> QED
    BY <2>2, <2>4
<1>2. QED BY Inductive, <1>1, PTL

=============================================================================
