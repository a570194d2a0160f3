------------------------ MODULE AgentRuntime_proofs ------------------------
(***************************************************************************)
(* What holds of AgentRuntime for every set of envelopes, callers and       *)
(* clients and for every bound: its types, RowBeforeWire, OutboxTruth and   *)
(* the refinement of ReceiptLedger.                                         *)
(*                                                                         *)
(* The argument is one inductive invariant, IInv.  OutboxIsTrue is not      *)
(* inductive by itself: that a row becomes accepted only for an envelope    *)
(* the relay took rests on what the ack frame on its way says (Frames);     *)
(* that it becomes delivered only with its receipt on disk rests on the     *)
(* order of the statements of observeReceipt (JobStage); that only receipts *)
(* of the relay are recorded rests on the positions the frames carry        *)
(* (Positions).  WriteAhead rests on where each send() awaits (SendStage).  *)
(***************************************************************************)
EXTENDS AgentRuntime, TLAPS

\* What a frame on its way says is so, in a log of n receipts and with the
\* envelopes the relay took: positions exist and an ack is for such an envelope.
FrameTrue(f, n, took) ==
  /\ f \in Frame
  /\ f.pos <= n
  /\ f.kind = "receipt" => f.pos >= 1
  /\ f.kind = "ack" => f.env \in took

Frames == \A c \in Client : \A i \in 1..Len(down[c]) :
            FrameTrue(down[c][i], Len(log), accepted)

Positions ==
  /\ cursor <= Len(log)
  /\ \A t \in Task : after[t] <= Len(log)
  /\ Range(log) \subseteq accepted
  /\ receipts \subseteq Range(log)

JobStage ==
  /\ job.last <= Len(log)
  /\ job.step # "idle" => job.pos >= 1
  /\ job.step \in {"mark", "event", "cursor"} =>
       job.pos <= job.last /\ log[job.pos] \in receipts
  /\ job.owner # None => job.step # "idle" /\ pc[job.owner] = "recover"

SendStage ==
  /\ \A t \in Task : pc[t] \in {"resolve", "wire"} => t \in Sender
  /\ \A s \in Sender :
       /\ pc[s] \in {"connect", "recover", "resolve", "wire"} => env[s] \in Envelope
       /\ pc[s] \in {"resolve", "wire"} => outbox[env[s]] # "none"

IInv ==
  /\ TypeOK /\ Positions /\ Frames /\ JobStage /\ SendStage
  /\ WriteAhead /\ OutboxIsTrue

\* Appending to a sequence keeps its type.
LEMMA AppendType == ASSUME NEW S, NEW q \in Seq(S), NEW x \in S
                    PROVE  Append(q, x) \in Seq(S)
OBVIOUS

\* What taking the first frame off a queue returns and leaves.
LEMMA TailItems == ASSUME NEW S, NEW q \in Seq(S), q # <<>>
                   PROVE  /\ Tail(q) \in Seq(S)
                          /\ Head(q) \in S /\ Head(q) = q[1] /\ Len(q) >= 1
                          /\ Len(Tail(q)) = Len(q) - 1
                          /\ \A i \in 1..Len(Tail(q)) : Tail(q)[i] = q[i + 1]
OBVIOUS

\* What appending to a log or a queue adds, and what it keeps.
LEMMA AppendItems == ASSUME NEW S, NEW q \in Seq(S), NEW x
                     PROVE  /\ Len(Append(q, x)) = Len(q) + 1
                            /\ Append(q, x)[Len(q) + 1] = x
                            /\ \A i \in 1..Len(q) : Append(q, x)[i] = q[i]
OBVIOUS

\* A receipt appended to the log, or an event to the stream, is the only new one.
LEMMA AppendRange == ASSUME NEW S, NEW q \in Seq(S), NEW x \in S
                     PROVE  Range(Append(q, x)) = Range(q) \cup {x}
<1> DEFINE a == Append(q, x)
<1>1. /\ Len(q) \in Nat /\ DOMAIN q = 1..Len(q)
      /\ DOMAIN a = 1..(Len(q) + 1)
      /\ a[Len(q) + 1] = x
      /\ \A i \in 1..Len(q) : a[i] = q[i]
  OBVIOUS
<1> HIDE DEF a
<1>2. ASSUME NEW y \in Range(a) PROVE y \in Range(q) \cup {x}
  <2>1. PICK i \in 1..(Len(q) + 1) : a[i] = y
    BY <1>1, <1>2 DEF Range
  <2>2. i = Len(q) + 1 \/ i \in 1..Len(q)
    BY <1>1, <2>1
  <2>3. QED BY <1>1, <2>1, <2>2 DEF Range
<1>3. ASSUME NEW y \in Range(q) PROVE y \in Range(a)
  <2>1. PICK i \in 1..Len(q) : q[i] = y
    BY <1>1, <1>3 DEF Range
  <2>2. i \in 1..(Len(q) + 1)
    BY <1>1, <2>1
  <2>3. QED BY <1>1, <2>1, <2>2 DEF Range
<1>4. x \in Range(a)
  BY <1>1 DEF Range
<1>5. QED BY <1>2, <1>3, <1>4 DEF a

\* The items of a sequence are of its type and in its range.
LEMMA RangeIn == ASSUME NEW S, NEW q \in Seq(S)
                     PROVE  /\ Range(q) \subseteq S
                            /\ \A i \in 1..Len(q) : q[i] \in Range(q)
BY DEF Range

\* A frame that is taken has its type, and the queues keep theirs.
LEMMA PopType ==
  ASSUME TypeOK, NEW c \in Client, NEW kind, Arrives(c, kind)
  PROVE  Head(down[c]) \in Frame /\ down' \in [Client -> Seq(Frame)]
<1>1. down[c] \in Seq(Frame) /\ down[c] # <<>>
  BY DEF TypeOK, Arrives
<1>2. Tail(down[c]) \in Seq(Frame) /\ Head(down[c]) \in Frame
  BY <1>1, TailItems
<1>3. QED BY <1>2 DEF TypeOK, Arrives

\* A frame that is put on a queue keeps the types of the queues.
LEMMA PushType ==
  ASSUME TypeOK, NEW c, NEW f \in Frame, Push(c, f)
  PROVE  down' \in [Client -> Seq(Frame)]
<1>1. c \in Client => Append(down[c], f) \in Seq(Frame)
  BY AppendType DEF TypeOK
<1>2. QED BY <1>1 DEF TypeOK, Push

\* The relay's replies are frames.
LEMMA ReplyType ==
  ASSUME TypeOK, NEW t \in Task, NEW kind \in {"join", "ack", "nack"}
  PROVE  Reply(kind, t) \in Frame
BY DEF TypeOK, Reply, Msg, Frame

\* connectClient up to its await keeps the types of what it assigns.
LEMMA OpenType ==
  ASSUME TypeOK, NEW t \in Task, OpenClient(t)
  PROVE  /\ status' \in [Client -> Sockets]
         /\ pc' \in [Task -> Labels] /\ sock' \in [Task -> Client \cup {None}]
<1>1. PICK c \in Client :
        /\ status' = [d \in Client |->
                    IF d = c THEN "connecting"
                    ELSE IF d = current /\ status[d] = "open" THEN "closing"
                    ELSE status[d]]
        /\ sock' = [sock EXCEPT ![t] = c]
        /\ pc' = [pc EXCEPT ![t] = "connect"]
  BY DEF OpenClient
<1>2. QED BY <1>1 DEF TypeOK, Labels, Sockets

\* The end of a send() keeps the types of what it assigns.
LEMMA SettleType ==
  ASSUME TypeOK, NEW t \in Task, NEW st \in Status, Settle(t, st)
  PROVE  /\ outbox' \in [Envelope -> Status] /\ pc' \in [Task -> Labels]
         /\ env' \in [Task -> Envelope \cup {None}]
         /\ sock' \in [Task -> Client \cup {None}]
BY DEF TypeOK, Settle, Labels

\* The receipt a callback is observing is one the relay keeps.
LEMMA JobItem ==
  ASSUME IInv, NEW st \in {"check", "mark", "event", "cursor"}, Observing(st)
  PROVE  /\ job.pos \in 1..Len(log) /\ log[job.pos] \in Envelope
         /\ log[job.pos] \in Range(log)
<1>1. job.pos \in 1..Len(log)
  BY DEF IInv, TypeOK, JobStage, Observing, Job
<1>2. QED BY <1>1, RangeIn DEF IInv, TypeOK

\* The count of message.send frames stays a number.
LEMMA WireType ==
  ASSUME TypeOK, NEW s \in Sender, SendOnWire(s)
  PROVE  wire' \in [Envelope -> Nat]
<1>1. \A e \in Envelope : wire[e] \in Nat /\ wire[e] + 1 \in Nat
  BY DEF TypeOK
<1>2. CASE status[sock[s]] = "open"
  <2>1. wire' = [wire EXCEPT ![env[s]] = wire[env[s]] + 1]
    BY <1>2 DEF SendOnWire
  <2> HIDE <1>2
  <2> DEFINE w == wire[env[s]] + 1
  <2>2. env[s] \in Envelope => w \in Nat
    BY <1>1
  <2> HIDE DEF w
  <2>3. wire' = [wire EXCEPT ![env[s]] = w]
    BY <2>1 DEF w
  <2>4. QED BY <2>2, <2>3 DEF TypeOK
<1>3. CASE status[sock[s]] # "open"
  BY <1>3 DEF SendOnWire, TypeOK
<1>4. QED BY <1>2, <1>3

\* A page ends within the relay's log, or where it began.
LEMMA ListType ==
  ASSUME TypeOK, NEW t \in Task, RelayLists(t)
  PROVE  \E f \in Frame : /\ f.kind = "page" /\ f.task = t /\ Push(sock[t], f)
                          /\ f.pos <= Len(log) \/ f.pos = after[t]
<1> DEFINE end  == after[t] + PageLimit
           last == IF end < Len(log) THEN end
                   ELSE IF after[t] < Len(log) THEN Len(log) ELSE after[t]
           more == last < Len(log)
           f    == Msg("page", t, env[t], last, more)
<1>1. last \in Nat /\ (last <= Len(log) \/ last = after[t])
  BY ConstantAssumption DEF TypeOK
<1>2. f \in Frame
  <2>1. more \in BOOLEAN
    OBVIOUS
  <2> HIDE DEF last, more
  <2>2. QED BY <1>1, <2>1 DEF TypeOK, Msg, Frame
<1>3. f.kind = "page" /\ f.task = t /\ f.pos = last
  BY DEF Msg
<1>4. Push(sock[t], f)
  BY DEF RelayLists
<1>5. QED BY <1>1, <1>2, <1>3, <1>4

\* A receipt pushed live carries its own position.
LEMMA DeliverType ==
  ASSUME TypeOK, NEW e \in Envelope, RelayDelivers(e)
  PROVE  \E f \in Frame :
           /\ f.kind = "receipt" /\ f.pos = Len(log) + 1 /\ f.task = None
           /\ down' = [c \in Client |-> IF status[c] \in {"open", "closing"}
                                      THEN Append(down[c], f) ELSE down[c]]
<1> DEFINE f == Msg("receipt", None, e, Len(log) + 1, FALSE)
<1>1. f \in Frame /\ f.kind = "receipt" /\ f.pos = Len(log) + 1 /\ f.task = None
  BY DEF TypeOK, Msg, Frame
<1>2. down' = [c \in Client |-> IF status[c] \in {"open", "closing"}
                               THEN Append(down[c], f) ELSE down[c]]
  BY DEF RelayDelivers
<1>3. QED BY <1>1, <1>2

\* Going on to the next receipt keeps the type of the callback's state.
LEMMA NextReceiptType ==
  ASSUME TypeOK, NextReceipt
  PROVE  job' \in Job
<1>1. NoJob \in Job
  BY DEF NoJob, Job
<1>2. [job EXCEPT !.step = "check", !.pos = @ + 1] \in Job
  <2> DEFINE p == job.pos + 1
  <2>1. p \in Nat
    BY DEF TypeOK, Job
  <2> HIDE DEF p
  <2>2. [job EXCEPT !.step = "check", !.pos = p] \in Job
    BY <2>1 DEF TypeOK, Job
  <2>3. QED BY <2>2 DEF p
<1>3. QED BY <1>1, <1>2 DEF NextReceipt

\* The end of connectClient keeps the types of what it assigns.
LEMMA ReturnsType ==
  ASSUME TypeOK, NEW t \in Task, ConnectReturns(t)
  PROVE  /\ outbox' \in [Envelope -> Status] /\ pc' \in [Task -> Labels]
         /\ sock' \in [Task -> Client \cup {None}]
         /\ running' \in BOOLEAN /\ backoff' \in Backoffs
<1>1. CASE t \in Sender /\ t # Main
  <2>1. /\ InsertPending(env[t]) /\ pc' = [pc EXCEPT ![t] = "resolve"]
        /\ sock' = [sock EXCEPT ![t] = current] /\ UNCHANGED <<running, backoff>>
    BY <1>1 DEF ConnectReturns
  <2>2. outbox' \in [Envelope -> Status]
    BY <2>1 DEF TypeOK, InsertPending, Status
  <2>3. QED BY <2>1, <2>2 DEF TypeOK, Labels
<1>2. CASE t = Main
  <2>1. outbox' = outbox /\ pc' = [pc EXCEPT ![t] = "idle"]
        /\ sock' = [sock EXCEPT ![t] = None] /\ running' = KeepConnected /\ backoff' = 1
    BY <1>2, ConstantAssumption DEF ConnectReturns
  <2>2. QED BY <2>1, ConstantAssumption DEF TypeOK, Labels, Backoffs
<1>3. QED BY <1>1, <1>2 DEF Task

\* A step that moves no frame and nothing at the relay keeps Frames.
LEMMA FramesKept ==
  ASSUME Frames, UNCHANGED <<down, log, accepted>> PROVE Frames'
BY DEF Frames, FrameTrue

\* Taking a frame keeps Frames, and the frame taken is true.
LEMMA FramesPopped ==
  ASSUME TypeOK, Frames, NEW c \in Client, NEW kind, Arrives(c, kind),
         UNCHANGED <<log, accepted>>
  PROVE  /\ Frames'
         /\ FrameTrue(Head(down[c]), Len(log), accepted)
         /\ Head(down[c]).kind = kind
<1>1. down[c] \in Seq(Frame) /\ down[c] # <<>>
  BY DEF TypeOK, Arrives
<1>2. \A d \in Client : down'[d] = IF d = c THEN Tail(down[c]) ELSE down[d]
  BY DEF TypeOK, Arrives
<1>3. /\ Head(down[c]) = down[c][1] /\ Len(down[c]) \in Nat /\ Len(down[c]) >= 1
      /\ Len(Tail(down[c])) = Len(down[c]) - 1
      /\ \A i \in 1..Len(Tail(down[c])) :
           Tail(down[c])[i] = down[c][i + 1] /\ i + 1 \in 1..Len(down[c])
  BY <1>1, TailItems
<1>4. \A i \in 1..Len(Tail(down[c])) : FrameTrue(Tail(down[c])[i], Len(log), accepted)
  BY <1>3 DEF Frames
<1>5. Frames'
  BY <1>2, <1>4 DEF Frames
<1>6. 1 \in 1..Len(down[c])
  BY <1>3
<1>7. QED BY <1>3, <1>5, <1>6 DEF Frames, Arrives

\* A frame that is true stays so as the relay's log and its envelopes grow.
LEMMA FrameLater ==
  ASSUME NEW n \in Nat, NEW m \in Nat, n <= m,
         NEW took, NEW more, took \subseteq more,
         NEW f, FrameTrue(f, n, took)
  PROVE  FrameTrue(f, m, more)
BY DEF FrameTrue, Frame

\* Pushing a true frame keeps Frames.
LEMMA FramesPushed ==
  ASSUME TypeOK, Frames, NEW c, NEW f, f \in Frame, Push(c, f),
         log' = log, accepted \subseteq accepted',
         FrameTrue(f, Len(log), accepted')
  PROVE  Frames'
<1>1. Len(log) \in Nat
  BY DEF TypeOK
<1>2. ASSUME NEW d \in Client, NEW i \in 1..Len(down'[d])
      PROVE  FrameTrue(down'[d][i], Len(log), accepted')
  <2>1. down[d] \in Seq(Frame) /\ Len(down[d]) \in Nat
    BY DEF TypeOK
  <2>2. down'[d] = IF d = c THEN Append(down[d], f) ELSE down[d]
    BY DEF TypeOK, Push
  <2>3. CASE i \in 1..Len(down[d])
    <3>1. down'[d][i] = down[d][i]
      BY <2>1, <2>2, <2>3, AppendItems
    <3>2. FrameTrue(down[d][i], Len(log), accepted)
      BY <2>3 DEF Frames
    <3>3. QED BY <1>1, <3>1, <3>2, FrameLater
  <2>4. CASE i \notin 1..Len(down[d])
    BY <2>1, <2>2, <2>4, AppendItems
  <2>5. QED BY <2>3, <2>4
<1>3. QED BY <1>2 DEF Frames

\* Nothing is outstanding when the agent is started for the first time.
LEMMA InitHolds == Init => IInv
<1> SUFFICES ASSUME Init PROVE IInv
  OBVIOUS
<1> USE ConstantAssumption DEF Task
<1>1. /\ log = <<>> /\ Len(log) = 0 /\ Range(log) = {} /\ log \in Seq(Envelope)
      /\ events \in Seq(Envelope)
  BY DEF Init, Range
<1>2. \A c \in Client : down[c] = <<>>
  BY DEF Init
<1>3. TypeOK
  <2>1. /\ job \in Job /\ backoff \in Backoffs
        /\ outbox \in [Envelope -> Status] /\ pc \in [Task -> Labels]
    BY DEF Init, NoJob, Job, Backoffs, Status, Labels
  <2>2. down \in [Client -> Seq(Frame)]
    BY DEF Init
  <2>3. QED
    BY <1>1, <2>1, <2>2 DEF Init, TypeOK, Sockets
<1>4. Positions /\ Frames /\ JobStage
  BY <1>1, <1>2 DEF Init, Positions, Frames, JobStage, NoJob
<1>5. SendStage /\ WriteAhead /\ OutboxIsTrue
  BY DEF Init, SendStage, WriteAhead, OutboxIsTrue, Settled
<1>6. QED BY <1>3, <1>4, <1>5 DEF IInv

\* Every step keeps the types.
LEMMA TypeStep == IInv /\ [Next]_vars => TypeOK'
<1> SUFFICES ASSUME IInv, [Next]_vars PROVE TypeOK'
  OBVIOUS
<1> USE ConstantAssumption DEF Task
<1>a. TypeOK
  BY DEF IInv
<1>1. ASSUME NEW s \in Sender, NEW e \in Envelope,
             SendFromOutbox(s, e)
      PROVE  TypeOK'
  <2>1. acked' \subseteq Envelope
    BY <1>1, <1>a DEF TypeOK, SendFromOutbox
  <2>2. calls' \in Nat
    BY <1>1, <1>a DEF TypeOK, SendFromOutbox, Call
  <2>3. QED
    BY <1>1, <1>a, <2>1, <2>2
       DEF TypeOK, SendFromOutbox, vars, db, relay, net, tasks, loop, hist, caps
<1>2. ASSUME NEW s \in Sender, NEW e \in Envelope,
             SendConnected(s, e)
      PROVE  TypeOK'
  <2>1. outbox' \in [Envelope -> Status]
    BY <1>2, <1>a DEF TypeOK, SendConnected, Call, InsertPending, Status
  <2>2. pc' \in [Task -> Labels]
    BY <1>2, <1>a DEF TypeOK, SendConnected, Labels
  <2>3. env' \in [Task -> Envelope \cup {None}]
    BY <1>2, <1>a DEF TypeOK, SendConnected
  <2>4. sock' \in [Task -> Client \cup {None}]
    BY <1>2, <1>a DEF TypeOK, SendConnected
  <2>5. calls' \in Nat
    BY <1>2, <1>a DEF TypeOK, SendConnected, Call
  <2>6. QED
    BY <1>2, <1>a, <2>1, <2>2, <2>3, <2>4, <2>5
       DEF TypeOK, SendConnected, vars, db, relay, net, tasks, loop, hist, caps
<1>3. ASSUME NEW s \in Sender, NEW e \in Envelope,
             SendReconnects(s, e)
      PROVE  TypeOK'
  <2>1. env' \in [Task -> Envelope \cup {None}]
    BY <1>3, <1>a DEF TypeOK, SendReconnects
  <2>2. calls' \in Nat
    BY <1>3, <1>a DEF TypeOK, SendReconnects, Call
  <2>3. /\ status' \in [Client -> Sockets]
        /\ pc' \in [Task -> Labels]
        /\ sock' \in [Task -> Client \cup {None}]
    BY <1>3, <1>a, OpenType DEF TypeOK, SendReconnects, Sockets, Labels
  <2>4. QED
    BY <1>3, <1>a, <2>1, <2>2, <2>3
       DEF TypeOK, SendReconnects, OpenClient, vars, db, relay, net, tasks,
           loop, hist, caps
<1>4. ASSUME NEW s \in Sender,
             SendOnWire(s)
      PROVE  TypeOK'
  <2>1. wire' \in [Envelope -> Nat]
    BY <1>4, <1>a, WireType DEF TypeOK, SendOnWire
  <2>2. pc' \in [Task -> Labels]
    BY <1>4, <1>a DEF TypeOK, SendOnWire, Labels
  <2>3. todo' \subseteq Task
    BY <1>4, <1>a DEF TypeOK, SendOnWire, Ask
  <2>4. QED
    BY <1>4, <1>a, <2>1, <2>2, <2>3
       DEF TypeOK, SendOnWire, vars, db, relay, net, tasks, loop, hist, caps
<1>5. ASSUME NEW s \in Sender,
             ResolveFails(s)
      PROVE  TypeOK'
  <2>1. /\ outbox' \in [Envelope -> Status]
        /\ pc' \in [Task -> Labels]
        /\ env' \in [Task -> Envelope \cup {None}]
        /\ sock' \in [Task -> Client \cup {None}]
    BY <1>5, <1>a, SettleType DEF TypeOK, ResolveFails, Status, Labels
  <2>2. QED
    BY <1>5, <1>a, <2>1
       DEF TypeOK, ResolveFails, Settle, vars, db, relay, net, tasks, loop,
           hist, caps
<1>6. ASSUME EnsureReady PROVE TypeOK'
  <2>1. /\ status' \in [Client -> Sockets]
        /\ pc' \in [Task -> Labels]
        /\ sock' \in [Task -> Client \cup {None}]
    BY <1>6, <1>a, OpenType DEF TypeOK, EnsureReady, Sockets, Labels
  <2>2. QED
    BY <1>6, <1>a, <2>1
       DEF TypeOK, EnsureReady, OpenClient, vars, db, relay, net, tasks, loop,
           hist, caps
<1>7. ASSUME KeeperReconnects PROVE TypeOK'
  <2>1. /\ status' \in [Client -> Sockets]
        /\ pc' \in [Task -> Labels]
        /\ sock' \in [Task -> Client \cup {None}]
    BY <1>7, <1>a, OpenType DEF TypeOK, KeeperReconnects, Sockets, Labels
  <2>2. QED
    BY <1>7, <1>a, <2>1
       DEF TypeOK, KeeperReconnects, OpenClient, vars, db, relay, net, tasks,
           loop, hist, caps
<1>8. ASSUME KeeperWakes PROVE TypeOK'
  <2>1. /\ backoff' \in Backoffs
        /\ pc' \in [Task -> Labels]
    BY <1>8, <1>a DEF TypeOK, KeeperWakes, Backoffs, Labels
  <2>2. QED
    BY <1>8, <1>a, <2>1
       DEF TypeOK, KeeperWakes, vars, db, relay, net, tasks, loop, hist, caps
<1>9. ASSUME NEW c \in Client,
             HandleJoin(c)
      PROVE  TypeOK'
  <2> DEFINE t == Head(down[c]).task
  <2>0. t \in Task /\ Head(down[c]) \in Frame /\ down' \in [Client -> Seq(Frame)]
    BY <1>9, <1>a, PopType DEF HandleJoin, Awaited, Frame
  <2>1. after' \in [Task -> Nat]
    BY <1>9, <1>a, <2>0 DEF TypeOK, HandleJoin
  <2>2. pc' \in [Task -> Labels]
    BY <1>9, <1>a, <2>0 DEF TypeOK, HandleJoin, Labels
  <2>3. todo' \subseteq Task
    BY <1>9, <1>a, <2>0 DEF TypeOK, HandleJoin, Ask
  <2>4. QED
    BY <1>9, <1>a, <2>0, <2>1, <2>2, <2>3
       DEF TypeOK, HandleJoin, vars, db, relay, net, tasks, loop, hist, caps
<1>10. ASSUME NEW c \in Client,
             HandleJoinNack(c)
      PROVE  TypeOK'
  <2> DEFINE t == Head(down[c]).task
  <2>0. t \in Task /\ Head(down[c]) \in Frame /\ down' \in [Client -> Seq(Frame)]
    BY <1>10, <1>a, PopType DEF HandleJoinNack, Awaited, Frame
  <2>1. /\ pc' \in [Task -> Labels]
        /\ env' \in [Task -> Envelope \cup {None}]
        /\ sock' \in [Task -> Client \cup {None}]
        /\ after' \in [Task -> Nat]
    BY <1>10, <1>a, <2>0 DEF TypeOK, HandleJoinNack, ConnectThrows, Labels
  <2>2. QED
    BY <1>10, <1>a, <2>0, <2>1
       DEF TypeOK, HandleJoinNack, ConnectThrows, vars, db, relay, net, tasks,
           loop, hist, caps
<1>11. ASSUME NEW c \in Client,
             HandleAck(c)
      PROVE  TypeOK'
  <2> DEFINE t == Head(down[c]).task
  <2>0. t \in Task /\ Head(down[c]) \in Frame /\ down' \in [Client -> Seq(Frame)]
    BY <1>11, <1>a, PopType DEF HandleAck, Awaited, Frame
  <2>1. /\ outbox' \in [Envelope -> Status]
        /\ pc' \in [Task -> Labels]
        /\ env' \in [Task -> Envelope \cup {None}]
        /\ sock' \in [Task -> Client \cup {None}]
    BY <1>11, <1>a, <2>0, SettleType DEF TypeOK, HandleAck, Status, Labels
  <2>2. acked' \subseteq Envelope
    BY <1>11, <1>a, <2>0 DEF TypeOK, IInv, SendStage, HandleAck, Awaited
  <2>3. QED
    BY <1>11, <1>a, <2>0, <2>1, <2>2
       DEF TypeOK, HandleAck, Settle, vars, db, relay, net, tasks, loop, hist,
           caps
<1>12. ASSUME NEW c \in Client,
             HandleSendNack(c)
      PROVE  TypeOK'
  <2> DEFINE t == Head(down[c]).task
  <2>0. t \in Task /\ Head(down[c]) \in Frame /\ down' \in [Client -> Seq(Frame)]
    BY <1>12, <1>a, PopType DEF HandleSendNack, Awaited, Frame
  <2>1. /\ outbox' \in [Envelope -> Status]
        /\ pc' \in [Task -> Labels]
        /\ env' \in [Task -> Envelope \cup {None}]
        /\ sock' \in [Task -> Client \cup {None}]
    BY <1>12, <1>a, <2>0, SettleType DEF TypeOK, HandleSendNack, Status, Labels
  <2>2. QED
    BY <1>12, <1>a, <2>0, <2>1
       DEF TypeOK, HandleSendNack, Settle, vars, db, relay, net, tasks, loop,
           hist, caps
<1>13. ASSUME NEW c \in Client,
             HandleListNack(c)
      PROVE  TypeOK'
  <2> DEFINE t == Head(down[c]).task
  <2>0. t \in Task /\ Head(down[c]) \in Frame /\ down' \in [Client -> Seq(Frame)]
    BY <1>13, <1>a, PopType DEF HandleListNack, Awaited, Frame
  <2>1. /\ pc' \in [Task -> Labels]
        /\ env' \in [Task -> Envelope \cup {None}]
        /\ sock' \in [Task -> Client \cup {None}]
        /\ after' \in [Task -> Nat]
    BY <1>13, <1>a, <2>0 DEF TypeOK, HandleListNack, ConnectThrows, Labels
  <2>2. QED
    BY <1>13, <1>a, <2>0, <2>1
       DEF TypeOK, HandleListNack, ConnectThrows, vars, db, relay, net, tasks,
           loop, hist, caps
<1>14. ASSUME NEW c \in Client,
             HandlePage(c)
      PROVE  TypeOK'
  <2> DEFINE t == Head(down[c]).task
  <2>0. t \in Task /\ Head(down[c]) \in Frame /\ down' \in [Client -> Seq(Frame)]
    BY <1>14, <1>a, PopType DEF HandlePage, Awaited, Frame
  <2>1. job' \in Job
    BY <1>14, <1>a, <2>0 DEF TypeOK, HandlePage, Frame, Job
  <2>2. QED
    BY <1>14, <1>a, <2>0, <2>1
       DEF TypeOK, HandlePage, vars, db, relay, net, tasks, loop, hist, caps
<1>15. ASSUME NEW c \in Client,
             HandleReceipt(c)
      PROVE  TypeOK'
  <2>0. Head(down[c]) \in Frame /\ down' \in [Client -> Seq(Frame)]
    BY <1>15, <1>a, PopType DEF HandleReceipt
  <2>1. job' \in Job
    BY <1>15, <1>a, <2>0 DEF TypeOK, HandleReceipt, Frame, Job
  <2>2. QED
    BY <1>15, <1>a, <2>0, <2>1
       DEF TypeOK, HandleReceipt, vars, db, relay, net, tasks, loop, hist, caps
<1>16. ASSUME SkipKnown PROVE TypeOK'
  <2>1. job' \in Job
    BY <1>16, <1>a, NextReceiptType DEF TypeOK, SkipKnown, Job
  <2>2. QED
    BY <1>16, <1>a, <2>1
       DEF TypeOK, SkipKnown, vars, db, relay, net, tasks, loop, hist, caps
<1>17. ASSUME UpsertReceipt PROVE TypeOK'
  <2>0. log[job.pos] \in Envelope
    BY <1>17, <1>a, JobItem DEF UpsertReceipt
  <2>1. receipts' \subseteq Envelope
    BY <1>17, <1>a, <2>0 DEF TypeOK, UpsertReceipt
  <2>2. job' \in Job
    BY <1>17, <1>a DEF TypeOK, UpsertReceipt, Job
  <2>3. QED
    BY <1>17, <1>a, <2>1, <2>2
       DEF TypeOK, UpsertReceipt, vars, db, relay, net, tasks, loop, hist, caps
<1>18. ASSUME MarkOutboxDelivered PROVE TypeOK'
  <2>1. outbox' \in [Envelope -> Status]
    BY <1>18, <1>a DEF TypeOK, MarkOutboxDelivered, Status
  <2>2. job' \in Job
    BY <1>18, <1>a DEF TypeOK, MarkOutboxDelivered, Job
  <2>3. QED
    BY <1>18, <1>a, <2>1, <2>2
       DEF TypeOK, MarkOutboxDelivered, vars, db, relay, net, tasks, loop,
           hist, caps
<1>19. ASSUME InsertSidecarEvent PROVE TypeOK'
  <2>0. log[job.pos] \in Envelope
    BY <1>19, <1>a, JobItem DEF InsertSidecarEvent
  <2>1. events' \in Seq(Envelope)
    BY <1>19, <1>a, <2>0, AppendType DEF TypeOK, InsertSidecarEvent
  <2>2. job' \in Job
    BY <1>19, <1>a DEF TypeOK, InsertSidecarEvent, Job
  <2>3. QED
    BY <1>19, <1>a, <2>1, <2>2
       DEF TypeOK, InsertSidecarEvent, vars, db, relay, net, tasks, loop, hist,
           caps
<1>20. ASSUME UpdateReceiptCursor PROVE TypeOK'
  <2>1. cursor' \in Nat
    BY <1>20, <1>a DEF TypeOK, UpdateReceiptCursor, Job
  <2>2. job' \in Job
    BY <1>20, <1>a, NextReceiptType DEF TypeOK, UpdateReceiptCursor, Job
  <2>3. QED
    BY <1>20, <1>a, <2>1, <2>2
       DEF TypeOK, UpdateReceiptCursor, vars, db, relay, net, tasks, loop,
           hist, caps
<1>21. ASSUME RecoveryEnds PROVE TypeOK'
  <2>0. job.owner \in Task
    BY <1>21, <1>a DEF TypeOK, RecoveryEnds, PageObserved, Job
  <2>1. cursor' \in Nat
    BY <1>21, <1>a DEF TypeOK, RecoveryEnds, Job
  <2>2. after' \in [Task -> Nat]
    BY <1>21, <1>a, <2>0 DEF TypeOK, RecoveryEnds
  <2>3. job' \in Job
    BY <1>21, <1>a DEF TypeOK, RecoveryEnds, NoJob, Job
  <2>4. /\ outbox' \in [Envelope -> Status]
        /\ pc' \in [Task -> Labels]
        /\ sock' \in [Task -> Client \cup {None}]
        /\ running' \in BOOLEAN
        /\ backoff' \in Backoffs
    BY <1>21, <1>a, <2>0, ReturnsType
      DEF TypeOK, RecoveryEnds, Status, Labels, Backoffs
  <2>5. QED
    BY <1>21, <1>a, <2>1, <2>2, <2>3, <2>4
       DEF TypeOK, RecoveryEnds, vars, db, relay, net, tasks, loop, hist, caps
<1>22. ASSUME NextPage PROVE TypeOK'
  <2>0. job.owner \in Task
    BY <1>22, <1>a DEF TypeOK, NextPage, PageObserved, Job
  <2>1. after' \in [Task -> Nat]
    BY <1>22, <1>a, <2>0 DEF TypeOK, NextPage, Job
  <2>2. sock' \in [Task -> Client \cup {None}]
    BY <1>22, <1>a, <2>0 DEF TypeOK, NextPage
  <2>3. todo' \subseteq Task
    BY <1>22, <1>a, <2>0 DEF TypeOK, NextPage, Ask
  <2>4. job' \in Job
    BY <1>22, <1>a DEF TypeOK, NextPage, NoJob, Job
  <2>5. QED
    BY <1>22, <1>a, <2>1, <2>2, <2>3, <2>4
       DEF TypeOK, NextPage, vars, db, relay, net, tasks, loop, hist, caps
<1>23. ASSUME NEW t \in Task,
             RelayJoins(t)
      PROVE  TypeOK'
  <2>1. down' \in [Client -> Seq(Frame)]
    BY <1>23, <1>a, PushType, ReplyType DEF TypeOK, RelayJoins
  <2>2. status' \in [Client -> Sockets]
    BY <1>23, <1>a DEF TypeOK, RelayJoins, Sockets
  <2>3. QED
    BY <1>23, <1>a, <2>1, <2>2
       DEF TypeOK, RelayJoins, vars, db, relay, net, tasks, loop, hist, caps
<1>24. ASSUME NEW t \in Task,
             RelayRefusesJoin(t)
      PROVE  TypeOK'
  <2>1. down' \in [Client -> Seq(Frame)]
    BY <1>24, <1>a, PushType, ReplyType DEF TypeOK, RelayRefusesJoin
  <2>2. status' \in [Client -> Sockets]
    BY <1>24, <1>a DEF TypeOK, RelayRefusesJoin, Sockets
  <2>3. refusals' \in Nat
    BY <1>24, <1>a DEF TypeOK, RelayRefusesJoin
  <2>4. QED
    BY <1>24, <1>a, <2>1, <2>2, <2>3
       DEF TypeOK, RelayRefusesJoin, vars, db, relay, net, tasks, loop, hist,
           caps
<1>25. ASSUME NEW t \in Task,
             RelayAccepts(t)
      PROVE  TypeOK'
  <2>1. down' \in [Client -> Seq(Frame)]
    BY <1>25, <1>a, PushType, ReplyType DEF TypeOK, RelayAccepts
  <2>2. accepted' \subseteq Envelope
    BY <1>25, <1>a DEF TypeOK, IInv, SendStage, RelayAccepts, Served
  <2>3. todo' \subseteq Task
    BY <1>25, <1>a DEF TypeOK, RelayAccepts, Served
  <2>4. QED
    BY <1>25, <1>a, <2>1, <2>2, <2>3
       DEF TypeOK, RelayAccepts, vars, db, relay, net, tasks, loop, hist, caps
<1>26. ASSUME NEW t \in Task,
             RelayRefuses(t)
      PROVE  TypeOK'
  <2>1. down' \in [Client -> Seq(Frame)]
    BY <1>26, <1>a, PushType, ReplyType DEF TypeOK, RelayRefuses
  <2>2. refusals' \in Nat
    BY <1>26, <1>a DEF TypeOK, RelayRefuses
  <2>3. todo' \subseteq Task
    BY <1>26, <1>a DEF TypeOK, RelayRefuses, Served
  <2>4. QED
    BY <1>26, <1>a, <2>1, <2>2, <2>3
       DEF TypeOK, RelayRefuses, vars, db, relay, net, tasks, loop, hist, caps
<1>27. ASSUME NEW t \in Task,
             RelayLists(t)
      PROVE  TypeOK'
  <2>1. down' \in [Client -> Seq(Frame)]
    BY <1>27, <1>a, ListType, PushType DEF TypeOK, RelayLists
  <2>2. todo' \subseteq Task
    BY <1>27, <1>a DEF TypeOK, RelayLists, Served
  <2>3. QED
    BY <1>27, <1>a, <2>1, <2>2
       DEF TypeOK, RelayLists, vars, db, relay, net, tasks, loop, hist, caps
<1>28. ASSUME NEW e \in Envelope,
             RelayDelivers(e)
      PROVE  TypeOK'
  <2>1. down' \in [Client -> Seq(Frame)]
    BY <1>28, <1>a, DeliverType, AppendType DEF TypeOK, RelayDelivers
  <2>2. log' \in Seq(Envelope)
    BY <1>28, <1>a, AppendType DEF TypeOK, RelayDelivers
  <2>3. QED
    BY <1>28, <1>a, <2>1, <2>2
       DEF TypeOK, RelayDelivers, vars, db, relay, net, tasks, loop, hist, caps
<1>29. ASSUME NEW t \in Task,
             ConnectFails(t)
      PROVE  TypeOK'
  <2>1. status' \in [Client -> Sockets]
    BY <1>29, <1>a DEF TypeOK, ConnectFails, Sockets
  <2>2. /\ pc' \in [Task -> Labels]
        /\ env' \in [Task -> Envelope \cup {None}]
        /\ sock' \in [Task -> Client \cup {None}]
        /\ after' \in [Task -> Nat]
    BY <1>29, <1>a DEF TypeOK, ConnectFails, ConnectThrows, Labels
  <2>3. QED
    BY <1>29, <1>a, <2>1, <2>2
       DEF TypeOK, ConnectFails, ConnectThrows, vars, db, relay, net, tasks,
           loop, hist, caps
<1>30. ASSUME NEW c \in Client,
             Drop(c)
      PROVE  TypeOK'
  <2>1. /\ status' \in [Client -> Sockets]
        /\ todo' \subseteq Task
    BY <1>30, <1>a DEF TypeOK, Drop, Gone, Sockets
  <2>2. down' \in [Client -> Seq(Frame)]
    BY <1>30, <1>a DEF TypeOK, Drop, Gone
  <2>3. drops' \in Nat
    BY <1>30, <1>a DEF TypeOK, Drop
  <2>4. QED
    BY <1>30, <1>a, <2>1, <2>2, <2>3
       DEF TypeOK, Drop, Gone, vars, db, relay, net, tasks, loop, hist, caps
<1>31. ASSUME NEW c \in Client,
             CloseCompletes(c)
      PROVE  TypeOK'
  <2>1. /\ status' \in [Client -> Sockets]
        /\ todo' \subseteq Task
    BY <1>31, <1>a DEF TypeOK, CloseCompletes, Gone, Sockets
  <2>2. down' \in [Client -> Seq(Frame)]
    BY <1>31, <1>a DEF TypeOK, CloseCompletes, Gone
  <2>3. QED
    BY <1>31, <1>a, <2>1, <2>2
       DEF TypeOK, CloseCompletes, Gone, vars, db, relay, net, tasks, loop,
           hist, caps
<1>32. ASSUME Crash PROVE TypeOK'
  <2>1. /\ status' \in [Client -> Sockets]
        /\ down' \in [Client -> Seq(Frame)]
    BY <1>32, <1>a DEF TypeOK, Crash, Sockets
  <2>2. /\ pc' \in [Task -> Labels]
        /\ env' \in [Task -> Envelope \cup {None}]
        /\ sock' \in [Task -> Client \cup {None}]
        /\ after' \in [Task -> Nat]
    BY <1>32, <1>a DEF TypeOK, Crash, Labels
  <2>3. job' \in Job
    BY <1>32, <1>a DEF TypeOK, Crash, NoJob, Job
  <2>4. crashes' \in Nat
    BY <1>32, <1>a DEF TypeOK, Crash
  <2>5. /\ running' \in BOOLEAN
        /\ backoff' \in Backoffs
    BY <1>32, <1>a DEF TypeOK, Crash, Backoffs
  <2>6. QED
    BY <1>32, <1>a, <2>1, <2>2, <2>3, <2>4, <2>5
       DEF TypeOK, Crash, vars, db, relay, net, tasks, loop, hist, caps
<1>33. CASE UNCHANGED vars
  BY <1>33, <1>a DEF TypeOK, vars, db, relay, net, tasks, loop, hist, caps
<1>34. QED
  BY <1>1, <1>2, <1>3, <1>4, <1>5, <1>6, <1>7, <1>8, <1>9, <1>10, <1>11, <1>12,
     <1>13, <1>14, <1>15, <1>16, <1>17, <1>18, <1>19, <1>20, <1>21, <1>22,
     <1>23, <1>24, <1>25, <1>26, <1>27, <1>28, <1>29, <1>30, <1>31, <1>32,
     <1>33
     DEF Next, Sends, Keeps, Handles, Observes, Relays, Fails

\* Every step keeps Positions: cursors point into the relay's log, and only
\* receipts of the relay are recorded.
LEMMA PositionsStep == IInv /\ [Next]_vars => Positions'
<1> SUFFICES ASSUME IInv, [Next]_vars PROVE Positions'
  OBVIOUS
<1> USE ConstantAssumption DEF Task, db, relay, net, tasks, loop, hist, caps
<1>a. TypeOK /\ Positions /\ JobStage
  BY DEF IInv
<1>1. ASSUME NEW s \in Sender, NEW e \in Envelope,
             SendFromOutbox(s, e)
      PROVE  Positions'
  BY <1>1, <1>a DEF SendFromOutbox, Call, Positions
<1>2. ASSUME NEW s \in Sender, NEW e \in Envelope,
             SendConnected(s, e)
      PROVE  Positions'
  BY <1>2, <1>a DEF SendConnected, Call, InsertPending, Connected, Positions
<1>3. ASSUME NEW s \in Sender, NEW e \in Envelope,
             SendReconnects(s, e)
      PROVE  Positions'
  BY <1>3, <1>a DEF SendReconnects, Call, OpenClient, Free, Positions
<1>4. ASSUME NEW s \in Sender,
             SendOnWire(s)
      PROVE  Positions'
  BY <1>4, <1>a DEF SendOnWire, Ask, Positions
<1>5. ASSUME NEW s \in Sender,
             ResolveFails(s)
      PROVE  Positions'
  BY <1>5, <1>a DEF ResolveFails, Settle, Positions
<1>6. ASSUME EnsureReady PROVE Positions'
  BY <1>6, <1>a DEF EnsureReady, OpenClient, Free, Positions
<1>7. ASSUME KeeperReconnects PROVE Positions'
  BY <1>7, <1>a DEF KeeperReconnects, OpenClient, Free, Positions
<1>8. ASSUME KeeperWakes PROVE Positions'
  BY <1>8, <1>a DEF KeeperWakes, Positions
<1>9. ASSUME NEW c \in Client,
             HandleJoin(c)
      PROVE  Positions'
  BY <1>9, <1>a DEF HandleJoin, Arrives, Awaited, Ask, Positions
<1>10. ASSUME NEW c \in Client,
             HandleJoinNack(c)
      PROVE  Positions'
  BY <1>10, <1>a DEF HandleJoinNack, Arrives, Awaited, ConnectThrows, Positions
<1>11. ASSUME NEW c \in Client,
             HandleAck(c)
      PROVE  Positions'
  BY <1>11, <1>a DEF HandleAck, Arrives, Awaited, Settle, Positions
<1>12. ASSUME NEW c \in Client,
             HandleSendNack(c)
      PROVE  Positions'
  BY <1>12, <1>a DEF HandleSendNack, Arrives, Awaited, Settle, Positions
<1>13. ASSUME NEW c \in Client,
             HandleListNack(c)
      PROVE  Positions'
  BY <1>13, <1>a DEF HandleListNack, Arrives, Awaited, ConnectThrows, Positions
<1>14. ASSUME NEW c \in Client,
             HandlePage(c)
      PROVE  Positions'
  BY <1>14, <1>a DEF HandlePage, Arrives, Awaited, Positions
<1>15. ASSUME NEW c \in Client,
             HandleReceipt(c)
      PROVE  Positions'
  BY <1>15, <1>a DEF HandleReceipt, Arrives, Positions
<1>16. ASSUME SkipKnown PROVE Positions'
  BY <1>16, <1>a DEF SkipKnown, Observing, NextReceipt, NoJob, Positions
<1>17. ASSUME UpsertReceipt PROVE Positions'
  BY <1>17, <1>a, JobItem DEF UpsertReceipt, Positions
<1>18. ASSUME MarkOutboxDelivered PROVE Positions'
  BY <1>18, <1>a DEF MarkOutboxDelivered, Observing, Positions
<1>19. ASSUME InsertSidecarEvent PROVE Positions'
  BY <1>19, <1>a DEF InsertSidecarEvent, Observing, Positions
<1>20. ASSUME UpdateReceiptCursor PROVE Positions'
  <2>1. job.pos <= Len(log)
    BY <1>20, <1>a, JobItem DEF UpdateReceiptCursor, TypeOK
  <2>2. QED
    BY <1>20, <1>a, <2>1 DEF UpdateReceiptCursor, Positions
<1>21. ASSUME RecoveryEnds PROVE Positions'
  <2>1. job.last <= Len(log) /\ Len(log) \in Nat
    BY <1>a DEF JobStage, TypeOK
  <2>2. QED
    BY <1>21, <1>a, <2>1 DEF RecoveryEnds, Positions, TypeOK
<1>22. ASSUME NextPage PROVE Positions'
  <2>1. job.last <= Len(log)
    BY <1>a DEF JobStage
  <2>2. QED
    BY <1>22, <1>a, <2>1 DEF NextPage, Positions, TypeOK
<1>23. ASSUME NEW t \in Task,
             RelayJoins(t)
      PROVE  Positions'
  BY <1>23, <1>a DEF RelayJoins, Push, Reply, Positions
<1>24. ASSUME NEW t \in Task,
             RelayRefusesJoin(t)
      PROVE  Positions'
  BY <1>24, <1>a DEF RelayRefusesJoin, Push, Reply, Positions
<1>25. ASSUME NEW t \in Task,
             RelayAccepts(t)
      PROVE  Positions'
  BY <1>25, <1>a DEF RelayAccepts, Served, Push, Reply, Positions
<1>26. ASSUME NEW t \in Task,
             RelayRefuses(t)
      PROVE  Positions'
  BY <1>26, <1>a DEF RelayRefuses, Served, Push, Reply, Positions
<1>27. ASSUME NEW t \in Task,
             RelayLists(t)
      PROVE  Positions'
  BY <1>27, <1>a DEF RelayLists, Served, Push, Reply, Positions
<1>28. ASSUME NEW e \in Envelope,
             RelayDelivers(e)
      PROVE  Positions'
  <2>1. Range(log') = Range(log) \cup {e} /\ Len(log') = Len(log) + 1 /\ Len(log) \in Nat
    BY <1>28, <1>a, AppendRange, AppendItems DEF RelayDelivers, TypeOK
  <2>2. QED
    BY <1>28, <1>a, <2>1 DEF RelayDelivers, Positions, TypeOK
<1>29. ASSUME NEW t \in Task,
             ConnectFails(t)
      PROVE  Positions'
  BY <1>29, <1>a DEF ConnectFails, ConnectThrows, Positions
<1>30. ASSUME NEW c \in Client,
             Drop(c)
      PROVE  Positions'
  BY <1>30, <1>a DEF Drop, Gone, Positions
<1>31. ASSUME NEW c \in Client,
             CloseCompletes(c)
      PROVE  Positions'
  BY <1>31, <1>a DEF CloseCompletes, Gone, Positions
<1>32. ASSUME Crash PROVE Positions'
  BY <1>32, <1>a DEF Crash, NoJob, Positions
<1>33. CASE UNCHANGED vars
  BY <1>33, <1>a DEF Positions, vars
<1>34. QED
  BY <1>1, <1>2, <1>3, <1>4, <1>5, <1>6, <1>7, <1>8, <1>9, <1>10, <1>11, <1>12,
     <1>13, <1>14, <1>15, <1>16, <1>17, <1>18, <1>19, <1>20, <1>21, <1>22,
     <1>23, <1>24, <1>25, <1>26, <1>27, <1>28, <1>29, <1>30, <1>31, <1>32,
     <1>33
     DEF Next, Sends, Keeps, Handles, Observes, Relays, Fails

\* Every step keeps Frames.
LEMMA FramesStep == IInv /\ [Next]_vars => Frames'
<1> SUFFICES ASSUME IInv, [Next]_vars PROVE Frames'
  OBVIOUS
<1> USE ConstantAssumption DEF Task, db, relay, net, tasks, loop, hist, caps
<1>a. TypeOK /\ Positions /\ Frames
  BY DEF IInv
<1>1. ASSUME NEW s \in Sender, NEW e \in Envelope,
             SendFromOutbox(s, e)
      PROVE  Frames'
  BY <1>1, <1>a, FramesKept DEF SendFromOutbox, Call
<1>2. ASSUME NEW s \in Sender, NEW e \in Envelope,
             SendConnected(s, e)
      PROVE  Frames'
  BY <1>2, <1>a, FramesKept DEF SendConnected, Call, InsertPending, Connected
<1>3. ASSUME NEW s \in Sender, NEW e \in Envelope,
             SendReconnects(s, e)
      PROVE  Frames'
  BY <1>3, <1>a, FramesKept DEF SendReconnects, Call, OpenClient, Free
<1>4. ASSUME NEW s \in Sender,
             SendOnWire(s)
      PROVE  Frames'
  BY <1>4, <1>a, FramesKept DEF SendOnWire, Ask
<1>5. ASSUME NEW s \in Sender,
             ResolveFails(s)
      PROVE  Frames'
  BY <1>5, <1>a, FramesKept DEF ResolveFails, Settle
<1>6. ASSUME EnsureReady PROVE Frames'
  BY <1>6, <1>a, FramesKept DEF EnsureReady, OpenClient, Free
<1>7. ASSUME KeeperReconnects PROVE Frames'
  BY <1>7, <1>a, FramesKept DEF KeeperReconnects, OpenClient, Free
<1>8. ASSUME KeeperWakes PROVE Frames'
  BY <1>8, <1>a, FramesKept DEF KeeperWakes
<1>9. ASSUME NEW c \in Client,
             HandleJoin(c)
      PROVE  Frames'
  BY <1>9, <1>a, FramesPopped DEF HandleJoin
<1>10. ASSUME NEW c \in Client,
             HandleJoinNack(c)
      PROVE  Frames'
  BY <1>10, <1>a, FramesPopped DEF HandleJoinNack
<1>11. ASSUME NEW c \in Client,
             HandleAck(c)
      PROVE  Frames'
  BY <1>11, <1>a, FramesPopped DEF HandleAck, Settle
<1>12. ASSUME NEW c \in Client,
             HandleSendNack(c)
      PROVE  Frames'
  BY <1>12, <1>a, FramesPopped DEF HandleSendNack, Settle
<1>13. ASSUME NEW c \in Client,
             HandleListNack(c)
      PROVE  Frames'
  BY <1>13, <1>a, FramesPopped DEF HandleListNack
<1>14. ASSUME NEW c \in Client,
             HandlePage(c)
      PROVE  Frames'
  BY <1>14, <1>a, FramesPopped DEF HandlePage
<1>15. ASSUME NEW c \in Client,
             HandleReceipt(c)
      PROVE  Frames'
  BY <1>15, <1>a, FramesPopped DEF HandleReceipt
<1>16. ASSUME SkipKnown PROVE Frames'
  BY <1>16, <1>a, FramesKept DEF SkipKnown, Observing, NextReceipt, NoJob
<1>17. ASSUME UpsertReceipt PROVE Frames'
  BY <1>17, <1>a, FramesKept DEF UpsertReceipt, Observing
<1>18. ASSUME MarkOutboxDelivered PROVE Frames'
  BY <1>18, <1>a, FramesKept DEF MarkOutboxDelivered, Observing
<1>19. ASSUME InsertSidecarEvent PROVE Frames'
  BY <1>19, <1>a, FramesKept DEF InsertSidecarEvent, Observing
<1>20. ASSUME UpdateReceiptCursor PROVE Frames'
  BY <1>20, <1>a, FramesKept
    DEF UpdateReceiptCursor, Observing, NextReceipt, NoJob
<1>21. ASSUME RecoveryEnds PROVE Frames'
  BY <1>21, <1>a, FramesKept
    DEF RecoveryEnds, PageObserved, LastPage, ConnectReturns, InsertPending,
        NoJob
<1>22. ASSUME NextPage PROVE Frames'
  BY <1>22, <1>a, FramesKept DEF NextPage, PageObserved, LastPage, Ask, NoJob
<1>23. ASSUME NEW t \in Task,
             RelayJoins(t)
      PROVE  Frames'
  <2>1. Reply("join", t) \in Frame
    BY <1>a, ReplyType
  <2>2. log' = log /\ accepted \subseteq accepted' /\ Push(sock[t], Reply("join", t))
    BY <1>23 DEF RelayJoins
  <2>3. FrameTrue(Reply("join", t), Len(log), accepted')
    BY <1>23, <1>a, <2>1 DEF RelayJoins, FrameTrue, Reply, Msg, TypeOK
  <2>4. QED
    BY <1>a, <2>1, <2>2, <2>3, FramesPushed
<1>24. ASSUME NEW t \in Task,
             RelayRefusesJoin(t)
      PROVE  Frames'
  <2>1. Reply("nack", t) \in Frame
    BY <1>a, ReplyType
  <2>2. log' = log /\ accepted \subseteq accepted' /\ Push(sock[t], Reply("nack", t))
    BY <1>24 DEF RelayRefusesJoin
  <2>3. FrameTrue(Reply("nack", t), Len(log), accepted')
    BY <1>24, <1>a, <2>1 DEF RelayRefusesJoin, FrameTrue, Reply, Msg, TypeOK
  <2>4. QED
    BY <1>a, <2>1, <2>2, <2>3, FramesPushed
<1>25. ASSUME NEW t \in Task,
             RelayAccepts(t)
      PROVE  Frames'
  <2>1. Reply("ack", t) \in Frame
    BY <1>a, ReplyType
  <2>2. log' = log /\ accepted \subseteq accepted' /\ Push(sock[t], Reply("ack", t))
    BY <1>25 DEF RelayAccepts
  <2>3. FrameTrue(Reply("ack", t), Len(log), accepted')
    BY <1>25, <1>a, <2>1 DEF RelayAccepts, FrameTrue, Reply, Msg, TypeOK
  <2>4. QED
    BY <1>a, <2>1, <2>2, <2>3, FramesPushed
<1>26. ASSUME NEW t \in Task,
             RelayRefuses(t)
      PROVE  Frames'
  <2>1. Reply("nack", t) \in Frame
    BY <1>a, ReplyType
  <2>2. log' = log /\ accepted \subseteq accepted' /\ Push(sock[t], Reply("nack", t))
    BY <1>26 DEF RelayRefuses
  <2>3. FrameTrue(Reply("nack", t), Len(log), accepted')
    BY <1>26, <1>a, <2>1 DEF RelayRefuses, FrameTrue, Reply, Msg, TypeOK
  <2>4. QED
    BY <1>a, <2>1, <2>2, <2>3, FramesPushed
<1>27. ASSUME NEW t \in Task,
             RelayLists(t)
      PROVE  Frames'
  <2>1. PICK f \in Frame : /\ f.kind = "page" /\ Push(sock[t], f)
                           /\ f.pos <= Len(log) \/ f.pos = after[t]
    BY <1>27, <1>a, ListType
  <2>2. log' = log /\ accepted' = accepted
    BY <1>27 DEF RelayLists
  <2>3. FrameTrue(f, Len(log), accepted')
    BY <1>27, <1>a, <2>1 DEF FrameTrue, Positions
  <2>4. QED
    BY <1>a, <2>1, <2>2, <2>3, FramesPushed
<1>28. ASSUME NEW e \in Envelope,
             RelayDelivers(e)
      PROVE  Frames'
  <2>1. PICK f \in Frame :
          /\ f.kind = "receipt" /\ f.pos = Len(log) + 1
          /\ down' = [c \in Client |-> IF status[c] \in {"open", "closing"}
                                     THEN Append(down[c], f) ELSE down[c]]
    BY <1>28, <1>a, DeliverType
  <2>2. Len(log') = Len(log) + 1 /\ Len(log) \in Nat /\ accepted' = accepted
    BY <1>28, <1>a, AppendItems DEF RelayDelivers, TypeOK
  <2>3. FrameTrue(f, Len(log'), accepted')
    BY <2>1, <2>2 DEF FrameTrue
  <2>4. ASSUME NEW c \in Client, NEW i \in 1..Len(down'[c])
        PROVE  FrameTrue(down'[c][i], Len(log'), accepted')
    <3>1. down[c] \in Seq(Frame) /\ Len(down[c]) \in Nat
      BY <1>a DEF TypeOK
    <3>2. CASE i \in 1..Len(down[c])
      <4>1. down'[c][i] = down[c][i] /\ FrameTrue(down[c][i], Len(log), accepted)
        BY <1>a, <2>1, <3>1, <3>2, AppendItems DEF Frames
      <4>2. QED
        BY <2>2, <4>1, FrameLater
    <3>3. CASE i \notin 1..Len(down[c])
      BY <2>1, <2>3, <3>1, <3>3, AppendItems
    <3>4. QED
      BY <3>2, <3>3
  <2>5. QED
    BY <2>4 DEF Frames
<1>29. ASSUME NEW t \in Task,
             ConnectFails(t)
      PROVE  Frames'
  BY <1>29, <1>a, FramesKept DEF ConnectFails, ConnectThrows
<1>30. ASSUME NEW c \in Client,
             Drop(c)
      PROVE  Frames'
  <2>1. \A d \in Client : down'[d] = <<>> \/ down'[d] = down[d]
    BY <1>30, <1>a DEF Drop, Gone, TypeOK
  <2>2. log' = log /\ accepted' = accepted
    BY <1>30 DEF Drop, Gone
  <2>3. QED
    BY <1>a, <2>1, <2>2 DEF Frames, FrameTrue
<1>31. ASSUME NEW c \in Client,
             CloseCompletes(c)
      PROVE  Frames'
  <2>1. \A d \in Client : down'[d] = <<>> \/ down'[d] = down[d]
    BY <1>31, <1>a DEF CloseCompletes, Gone, TypeOK
  <2>2. log' = log /\ accepted' = accepted
    BY <1>31 DEF CloseCompletes, Gone
  <2>3. QED
    BY <1>a, <2>1, <2>2 DEF Frames, FrameTrue
<1>32. ASSUME Crash PROVE Frames'
  BY <1>32, <1>a DEF Crash, NoJob, Frames
<1>33. CASE UNCHANGED vars
  BY <1>33, <1>a DEF Frames, FrameTrue, vars
<1>34. QED
  BY <1>1, <1>2, <1>3, <1>4, <1>5, <1>6, <1>7, <1>8, <1>9, <1>10, <1>11, <1>12,
     <1>13, <1>14, <1>15, <1>16, <1>17, <1>18, <1>19, <1>20, <1>21, <1>22,
     <1>23, <1>24, <1>25, <1>26, <1>27, <1>28, <1>29, <1>30, <1>31, <1>32,
     <1>33
     DEF Next, Sends, Keeps, Handles, Observes, Relays, Fails

\* Every step keeps JobStage: between the statements of observeReceipt the
\* receipt being observed is in the receipts table, and the recovery that owns the
\* callback still awaits its page.
LEMMA JobStep == IInv /\ [Next]_vars => JobStage'
<1> SUFFICES ASSUME IInv, [Next]_vars PROVE JobStage'
  OBVIOUS
<1> USE ConstantAssumption DEF Task, db, relay, net, tasks, loop, hist, caps
<1>a. TypeOK /\ Positions /\ Frames /\ JobStage
  BY DEF IInv
<1>1. ASSUME NEW s \in Sender, NEW e \in Envelope,
             SendFromOutbox(s, e)
      PROVE  JobStage'
  BY <1>1, <1>a DEF SendFromOutbox, Call, JobStage
<1>2. ASSUME NEW s \in Sender, NEW e \in Envelope,
             SendConnected(s, e)
      PROVE  JobStage'
  BY <1>2, <1>a DEF SendConnected, Call, InsertPending, Connected, JobStage
<1>3. ASSUME NEW s \in Sender, NEW e \in Envelope,
             SendReconnects(s, e)
      PROVE  JobStage'
  BY <1>3, <1>a DEF SendReconnects, Call, OpenClient, Free, JobStage
<1>4. ASSUME NEW s \in Sender,
             SendOnWire(s)
      PROVE  JobStage'
  BY <1>4, <1>a DEF SendOnWire, Ask, JobStage
<1>5. ASSUME NEW s \in Sender,
             ResolveFails(s)
      PROVE  JobStage'
  BY <1>5, <1>a DEF ResolveFails, Settle, JobStage
<1>6. ASSUME EnsureReady PROVE JobStage'
  BY <1>6, <1>a DEF EnsureReady, OpenClient, Free, JobStage
<1>7. ASSUME KeeperReconnects PROVE JobStage'
  BY <1>7, <1>a DEF KeeperReconnects, OpenClient, Free, JobStage
<1>8. ASSUME KeeperWakes PROVE JobStage'
  BY <1>8, <1>a DEF KeeperWakes, JobStage
<1>9. ASSUME NEW c \in Client,
             HandleJoin(c)
      PROVE  JobStage'
  BY <1>9, <1>a DEF HandleJoin, Arrives, Awaited, Ask, JobStage
<1>10. ASSUME NEW c \in Client,
             HandleJoinNack(c)
      PROVE  JobStage'
  BY <1>10, <1>a DEF HandleJoinNack, Arrives, JsIdle, JobStage
<1>11. ASSUME NEW c \in Client,
             HandleAck(c)
      PROVE  JobStage'
  BY <1>11, <1>a DEF HandleAck, Arrives, Awaited, Settle, JobStage
<1>12. ASSUME NEW c \in Client,
             HandleSendNack(c)
      PROVE  JobStage'
  BY <1>12, <1>a DEF HandleSendNack, Arrives, Awaited, Settle, JobStage
<1>13. ASSUME NEW c \in Client,
             HandleListNack(c)
      PROVE  JobStage'
  BY <1>13, <1>a DEF HandleListNack, Arrives, JsIdle, JobStage
<1>14. ASSUME NEW c \in Client,
             HandlePage(c)
      PROVE  JobStage'
  <2> DEFINE f == Head(down[c])
  <2>1. FrameTrue(f, Len(log), accepted) /\ after[f.task] \in Nat /\ pc[f.task] = "recover"
    BY <1>14, <1>a, FramesPopped
      DEF HandlePage, Awaited, TypeOK, FrameTrue, Frame
  <2>2. QED
    BY <1>14, <2>1 DEF HandlePage, JobStage, FrameTrue
<1>15. ASSUME NEW c \in Client,
             HandleReceipt(c)
      PROVE  JobStage'
  <2>1. FrameTrue(Head(down[c]), Len(log), accepted) /\ Head(down[c]).kind = "receipt"
    BY <1>15, <1>a, FramesPopped DEF HandleReceipt, Arrives
  <2>2. QED
    BY <1>15, <2>1 DEF HandleReceipt, JobStage, FrameTrue
<1>16. ASSUME SkipKnown PROVE JobStage'
  <2>1. job.pos \in Nat /\ job.pos + 1 >= 1
    BY <1>a DEF TypeOK, Job
  <2>2. CASE job.owner = None
    BY <1>16, <1>a, <2>2 DEF SkipKnown, NextReceipt, NoJob, JobStage, TypeOK
  <2>3. CASE job.owner # None
    <3>1. job' = [job EXCEPT !.step = "check", !.pos = job.pos + 1]
      BY <1>16, <2>3 DEF SkipKnown, NextReceipt
    <3>2. job'.step = "check" /\ job'.pos = job.pos + 1 /\ job'.last = job.last
          /\ job'.owner = job.owner
      BY <1>a, <3>1 DEF TypeOK, Job
    <3>3. log' = log /\ pc' = pc /\ receipts' = receipts
      BY <1>16 DEF SkipKnown
    <3>4. QED
      BY <1>a, <2>1, <3>2, <3>3 DEF JobStage
  <2>4. QED
    BY <2>2, <2>3
<1>17. ASSUME UpsertReceipt PROVE JobStage'
  BY <1>17, <1>a DEF UpsertReceipt, Observing, JobStage
<1>18. ASSUME MarkOutboxDelivered PROVE JobStage'
  BY <1>18, <1>a DEF MarkOutboxDelivered, Observing, JobStage
<1>19. ASSUME InsertSidecarEvent PROVE JobStage'
  BY <1>19, <1>a DEF InsertSidecarEvent, Observing, JobStage
<1>20. ASSUME UpdateReceiptCursor PROVE JobStage'
  <2>1. job.pos \in Nat /\ job.pos + 1 >= 1
    BY <1>a DEF TypeOK, Job
  <2>2. CASE job.owner = None
    BY <1>20, <1>a, <2>2
      DEF UpdateReceiptCursor, NextReceipt, NoJob, JobStage, TypeOK
  <2>3. CASE job.owner # None
    <3>1. job' = [job EXCEPT !.step = "check", !.pos = job.pos + 1]
      BY <1>20, <2>3 DEF UpdateReceiptCursor, NextReceipt
    <3>2. job'.step = "check" /\ job'.pos = job.pos + 1 /\ job'.last = job.last
          /\ job'.owner = job.owner
      BY <1>a, <3>1 DEF TypeOK, Job
    <3>3. log' = log /\ pc' = pc /\ receipts' = receipts
      BY <1>20 DEF UpdateReceiptCursor
    <3>4. QED
      BY <1>a, <2>1, <3>2, <3>3 DEF JobStage
  <2>4. QED
    BY <2>2, <2>3
<1>21. ASSUME RecoveryEnds PROVE JobStage'
  BY <1>21, <1>a
    DEF RecoveryEnds, PageObserved, LastPage, ConnectReturns, InsertPending,
        NoJob, JobStage
<1>22. ASSUME NextPage PROVE JobStage'
  BY <1>22, <1>a DEF NextPage, PageObserved, LastPage, Ask, NoJob, JobStage
<1>23. ASSUME NEW t \in Task,
             RelayJoins(t)
      PROVE  JobStage'
  BY <1>23, <1>a DEF RelayJoins, Push, Reply, JobStage
<1>24. ASSUME NEW t \in Task,
             RelayRefusesJoin(t)
      PROVE  JobStage'
  BY <1>24, <1>a DEF RelayRefusesJoin, Push, Reply, JobStage
<1>25. ASSUME NEW t \in Task,
             RelayAccepts(t)
      PROVE  JobStage'
  BY <1>25, <1>a DEF RelayAccepts, Served, Push, Reply, JobStage
<1>26. ASSUME NEW t \in Task,
             RelayRefuses(t)
      PROVE  JobStage'
  BY <1>26, <1>a DEF RelayRefuses, Served, Push, Reply, JobStage
<1>27. ASSUME NEW t \in Task,
             RelayLists(t)
      PROVE  JobStage'
  BY <1>27, <1>a DEF RelayLists, Served, Push, Reply, JobStage
<1>28. ASSUME NEW e \in Envelope,
             RelayDelivers(e)
      PROVE  JobStage'
  <2>1. Len(log') = Len(log) + 1 /\ Len(log) \in Nat
        /\ \A i \in 1..Len(log) : log'[i] = log[i]
    BY <1>28, <1>a, AppendItems DEF RelayDelivers, TypeOK
  <2>2. QED
    BY <1>28, <1>a, <2>1 DEF RelayDelivers, JobStage, TypeOK, Job
<1>29. ASSUME NEW t \in Task,
             ConnectFails(t)
      PROVE  JobStage'
  BY <1>29, <1>a DEF ConnectFails, ConnectThrows, JobStage
<1>30. ASSUME NEW c \in Client,
             Drop(c)
      PROVE  JobStage'
  BY <1>30, <1>a DEF Drop, Gone, JobStage
<1>31. ASSUME NEW c \in Client,
             CloseCompletes(c)
      PROVE  JobStage'
  BY <1>31, <1>a DEF CloseCompletes, Gone, JobStage
<1>32. ASSUME Crash PROVE JobStage'
  BY <1>32, <1>a DEF Crash, NoJob, JobStage
<1>33. CASE UNCHANGED vars
  BY <1>33, <1>a DEF JobStage, vars
<1>34. QED
  BY <1>1, <1>2, <1>3, <1>4, <1>5, <1>6, <1>7, <1>8, <1>9, <1>10, <1>11, <1>12,
     <1>13, <1>14, <1>15, <1>16, <1>17, <1>18, <1>19, <1>20, <1>21, <1>22,
     <1>23, <1>24, <1>25, <1>26, <1>27, <1>28, <1>29, <1>30, <1>31, <1>32,
     <1>33
     DEF Next, Sends, Keeps, Handles, Observes, Relays, Fails

\* Every step keeps SendStage: a send() past ensureClient has its outbox row.
LEMMA SendStep == IInv /\ [Next]_vars => SendStage'
<1> SUFFICES ASSUME IInv, [Next]_vars PROVE SendStage'
  OBVIOUS
<1> USE ConstantAssumption DEF Task, db, relay, net, tasks, loop, hist, caps
<1>a. TypeOK /\ JobStage /\ SendStage
  BY DEF IInv
<1>1. ASSUME NEW s \in Sender, NEW e \in Envelope,
             SendFromOutbox(s, e)
      PROVE  SendStage'
  BY <1>1, <1>a DEF SendFromOutbox, Call, SendStage
<1>2. ASSUME NEW s \in Sender, NEW e \in Envelope,
             SendConnected(s, e)
      PROVE  SendStage'
  BY <1>2, <1>a
    DEF SendConnected, Call, InsertPending, Connected, SendStage, TypeOK
<1>3. ASSUME NEW s \in Sender, NEW e \in Envelope,
             SendReconnects(s, e)
      PROVE  SendStage'
  BY <1>3, <1>a DEF SendReconnects, Call, OpenClient, Free, SendStage, TypeOK
<1>4. ASSUME NEW s \in Sender,
             SendOnWire(s)
      PROVE  SendStage'
  BY <1>4, <1>a DEF SendOnWire, Ask, SendStage
<1>5. ASSUME NEW s \in Sender,
             ResolveFails(s)
      PROVE  SendStage'
  BY <1>5, <1>a DEF ResolveFails, Settle, SendStage, TypeOK
<1>6. ASSUME EnsureReady PROVE SendStage'
  BY <1>6, <1>a DEF EnsureReady, OpenClient, Free, SendStage
<1>7. ASSUME KeeperReconnects PROVE SendStage'
  BY <1>7, <1>a DEF KeeperReconnects, OpenClient, Free, SendStage
<1>8. ASSUME KeeperWakes PROVE SendStage'
  BY <1>8, <1>a DEF KeeperWakes, SendStage
<1>9. ASSUME NEW c \in Client,
             HandleJoin(c)
      PROVE  SendStage'
  BY <1>9, <1>a DEF HandleJoin, Arrives, Awaited, Ask, SendStage
<1>10. ASSUME NEW c \in Client,
             HandleJoinNack(c)
      PROVE  SendStage'
  BY <1>10, <1>a
    DEF HandleJoinNack, Arrives, Awaited, ConnectThrows, SendStage, TypeOK
<1>11. ASSUME NEW c \in Client,
             HandleAck(c)
      PROVE  SendStage'
  BY <1>11, <1>a DEF HandleAck, Arrives, Awaited, Settle, SendStage, TypeOK
<1>12. ASSUME NEW c \in Client,
             HandleSendNack(c)
      PROVE  SendStage'
  BY <1>12, <1>a DEF HandleSendNack, Arrives, Awaited, Settle, SendStage, TypeOK
<1>13. ASSUME NEW c \in Client,
             HandleListNack(c)
      PROVE  SendStage'
  BY <1>13, <1>a
    DEF HandleListNack, Arrives, Awaited, ConnectThrows, SendStage, TypeOK
<1>14. ASSUME NEW c \in Client,
             HandlePage(c)
      PROVE  SendStage'
  BY <1>14, <1>a DEF HandlePage, Arrives, Awaited, SendStage
<1>15. ASSUME NEW c \in Client,
             HandleReceipt(c)
      PROVE  SendStage'
  BY <1>15, <1>a DEF HandleReceipt, Arrives, SendStage
<1>16. ASSUME SkipKnown PROVE SendStage'
  BY <1>16, <1>a DEF SkipKnown, Observing, NextReceipt, NoJob, SendStage
<1>17. ASSUME UpsertReceipt PROVE SendStage'
  BY <1>17, <1>a DEF UpsertReceipt, Observing, SendStage
<1>18. ASSUME MarkOutboxDelivered PROVE SendStage'
  BY <1>18, <1>a DEF MarkOutboxDelivered, Observing, SendStage
<1>19. ASSUME InsertSidecarEvent PROVE SendStage'
  BY <1>19, <1>a DEF InsertSidecarEvent, Observing, SendStage
<1>20. ASSUME UpdateReceiptCursor PROVE SendStage'
  BY <1>20, <1>a
    DEF UpdateReceiptCursor, Observing, NextReceipt, NoJob, SendStage
<1>21. ASSUME RecoveryEnds PROVE SendStage'
  <2>1. job.owner \in Task /\ pc[job.owner] = "recover"
    BY <1>21, <1>a DEF RecoveryEnds, PageObserved, TypeOK, Job, JobStage
  <2>2. env' = env /\ ConnectReturns(job.owner)
    BY <1>21 DEF RecoveryEnds
  <2>3. CASE job.owner \in Sender
    <3>1. env[job.owner] \in Envelope
      BY <1>a, <2>1, <2>3 DEF SendStage
    <3>2. InsertPending(env[job.owner]) /\ pc' = [pc EXCEPT ![job.owner] = "resolve"]
      BY <2>2, <2>3 DEF ConnectReturns
    <3>3. QED
      BY <1>a, <2>2, <2>3, <3>1, <3>2 DEF SendStage, TypeOK, InsertPending
  <2>4. CASE job.owner = Main
    BY <1>a, <2>2, <2>4 DEF ConnectReturns, SendStage, TypeOK
  <2>5. QED
    BY <2>1, <2>3, <2>4
<1>22. ASSUME NextPage PROVE SendStage'
  BY <1>22, <1>a DEF NextPage, PageObserved, LastPage, Ask, NoJob, SendStage
<1>23. ASSUME NEW t \in Task,
             RelayJoins(t)
      PROVE  SendStage'
  BY <1>23, <1>a DEF RelayJoins, Push, Reply, SendStage
<1>24. ASSUME NEW t \in Task,
             RelayRefusesJoin(t)
      PROVE  SendStage'
  BY <1>24, <1>a DEF RelayRefusesJoin, Push, Reply, SendStage
<1>25. ASSUME NEW t \in Task,
             RelayAccepts(t)
      PROVE  SendStage'
  BY <1>25, <1>a DEF RelayAccepts, Served, Push, Reply, SendStage
<1>26. ASSUME NEW t \in Task,
             RelayRefuses(t)
      PROVE  SendStage'
  BY <1>26, <1>a DEF RelayRefuses, Served, Push, Reply, SendStage
<1>27. ASSUME NEW t \in Task,
             RelayLists(t)
      PROVE  SendStage'
  BY <1>27, <1>a DEF RelayLists, Served, Push, Reply, SendStage
<1>28. ASSUME NEW e \in Envelope,
             RelayDelivers(e)
      PROVE  SendStage'
  BY <1>28, <1>a DEF RelayDelivers, Reply, SendStage
<1>29. ASSUME NEW t \in Task,
             ConnectFails(t)
      PROVE  SendStage'
  BY <1>29, <1>a DEF ConnectFails, ConnectThrows, SendStage, TypeOK
<1>30. ASSUME NEW c \in Client,
             Drop(c)
      PROVE  SendStage'
  BY <1>30, <1>a DEF Drop, Gone, SendStage
<1>31. ASSUME NEW c \in Client,
             CloseCompletes(c)
      PROVE  SendStage'
  BY <1>31, <1>a DEF CloseCompletes, Gone, SendStage
<1>32. ASSUME Crash PROVE SendStage'
  BY <1>32, <1>a DEF Crash, NoJob, SendStage
<1>33. CASE UNCHANGED vars
  BY <1>33, <1>a DEF SendStage, vars
<1>34. QED
  BY <1>1, <1>2, <1>3, <1>4, <1>5, <1>6, <1>7, <1>8, <1>9, <1>10, <1>11, <1>12,
     <1>13, <1>14, <1>15, <1>16, <1>17, <1>18, <1>19, <1>20, <1>21, <1>22,
     <1>23, <1>24, <1>25, <1>26, <1>27, <1>28, <1>29, <1>30, <1>31, <1>32,
     <1>33
     DEF Next, Sends, Keeps, Handles, Observes, Relays, Fails

\* Every step keeps WriteAhead.
LEMMA WriteAheadStep == IInv /\ [Next]_vars => WriteAhead'
<1> SUFFICES ASSUME IInv, [Next]_vars PROVE WriteAhead'
  OBVIOUS
<1> USE ConstantAssumption DEF Task, db, relay, net, tasks, loop, hist, caps
<1>a. TypeOK /\ SendStage /\ WriteAhead
  BY DEF IInv
<1>1. ASSUME NEW s \in Sender, NEW e \in Envelope,
             SendFromOutbox(s, e)
      PROVE  WriteAhead'
  BY <1>1, <1>a DEF SendFromOutbox, Call, WriteAhead
<1>2. ASSUME NEW s \in Sender, NEW e \in Envelope,
             SendConnected(s, e)
      PROVE  WriteAhead'
  BY <1>2, <1>a DEF SendConnected, Call, InsertPending, Connected, WriteAhead
<1>3. ASSUME NEW s \in Sender, NEW e \in Envelope,
             SendReconnects(s, e)
      PROVE  WriteAhead'
  BY <1>3, <1>a DEF SendReconnects, Call, OpenClient, Free, WriteAhead
<1>4. ASSUME NEW s \in Sender,
             SendOnWire(s)
      PROVE  WriteAhead'
  BY <1>4, <1>a DEF SendOnWire, Ask, SendStage, WriteAhead, TypeOK
<1>5. ASSUME NEW s \in Sender,
             ResolveFails(s)
      PROVE  WriteAhead'
  BY <1>5, <1>a DEF ResolveFails, Settle, WriteAhead
<1>6. ASSUME EnsureReady PROVE WriteAhead'
  BY <1>6, <1>a DEF EnsureReady, OpenClient, Free, WriteAhead
<1>7. ASSUME KeeperReconnects PROVE WriteAhead'
  BY <1>7, <1>a DEF KeeperReconnects, OpenClient, Free, WriteAhead
<1>8. ASSUME KeeperWakes PROVE WriteAhead'
  BY <1>8, <1>a DEF KeeperWakes, WriteAhead
<1>9. ASSUME NEW c \in Client,
             HandleJoin(c)
      PROVE  WriteAhead'
  BY <1>9, <1>a DEF HandleJoin, Arrives, Awaited, Ask, WriteAhead
<1>10. ASSUME NEW c \in Client,
             HandleJoinNack(c)
      PROVE  WriteAhead'
  BY <1>10, <1>a DEF HandleJoinNack, Arrives, Awaited, ConnectThrows, WriteAhead
<1>11. ASSUME NEW c \in Client,
             HandleAck(c)
      PROVE  WriteAhead'
  BY <1>11, <1>a DEF HandleAck, Arrives, Awaited, Settle, WriteAhead
<1>12. ASSUME NEW c \in Client,
             HandleSendNack(c)
      PROVE  WriteAhead'
  BY <1>12, <1>a DEF HandleSendNack, Arrives, Awaited, Settle, WriteAhead
<1>13. ASSUME NEW c \in Client,
             HandleListNack(c)
      PROVE  WriteAhead'
  BY <1>13, <1>a DEF HandleListNack, Arrives, Awaited, ConnectThrows, WriteAhead
<1>14. ASSUME NEW c \in Client,
             HandlePage(c)
      PROVE  WriteAhead'
  BY <1>14, <1>a DEF HandlePage, Arrives, Awaited, WriteAhead
<1>15. ASSUME NEW c \in Client,
             HandleReceipt(c)
      PROVE  WriteAhead'
  BY <1>15, <1>a DEF HandleReceipt, Arrives, WriteAhead
<1>16. ASSUME SkipKnown PROVE WriteAhead'
  BY <1>16, <1>a DEF SkipKnown, Observing, NextReceipt, NoJob, WriteAhead
<1>17. ASSUME UpsertReceipt PROVE WriteAhead'
  BY <1>17, <1>a DEF UpsertReceipt, Observing, WriteAhead
<1>18. ASSUME MarkOutboxDelivered PROVE WriteAhead'
  BY <1>18, <1>a DEF MarkOutboxDelivered, Observing, WriteAhead
<1>19. ASSUME InsertSidecarEvent PROVE WriteAhead'
  BY <1>19, <1>a DEF InsertSidecarEvent, Observing, WriteAhead
<1>20. ASSUME UpdateReceiptCursor PROVE WriteAhead'
  BY <1>20, <1>a
    DEF UpdateReceiptCursor, Observing, NextReceipt, NoJob, WriteAhead
<1>21. ASSUME RecoveryEnds PROVE WriteAhead'
  BY <1>21, <1>a
    DEF RecoveryEnds, PageObserved, LastPage, ConnectReturns, InsertPending,
        NoJob, SendStage, WriteAhead, TypeOK
<1>22. ASSUME NextPage PROVE WriteAhead'
  BY <1>22, <1>a DEF NextPage, PageObserved, LastPage, Ask, NoJob, WriteAhead
<1>23. ASSUME NEW t \in Task,
             RelayJoins(t)
      PROVE  WriteAhead'
  BY <1>23, <1>a DEF RelayJoins, Push, Reply, WriteAhead
<1>24. ASSUME NEW t \in Task,
             RelayRefusesJoin(t)
      PROVE  WriteAhead'
  BY <1>24, <1>a DEF RelayRefusesJoin, Push, Reply, WriteAhead
<1>25. ASSUME NEW t \in Task,
             RelayAccepts(t)
      PROVE  WriteAhead'
  BY <1>25, <1>a
    DEF RelayAccepts, Served, Push, Reply, SendStage, WriteAhead, TypeOK
<1>26. ASSUME NEW t \in Task,
             RelayRefuses(t)
      PROVE  WriteAhead'
  BY <1>26, <1>a DEF RelayRefuses, Served, Push, Reply, WriteAhead
<1>27. ASSUME NEW t \in Task,
             RelayLists(t)
      PROVE  WriteAhead'
  BY <1>27, <1>a DEF RelayLists, Served, Push, Reply, WriteAhead
<1>28. ASSUME NEW e \in Envelope,
             RelayDelivers(e)
      PROVE  WriteAhead'
  BY <1>28, <1>a DEF RelayDelivers, Reply, WriteAhead
<1>29. ASSUME NEW t \in Task,
             ConnectFails(t)
      PROVE  WriteAhead'
  BY <1>29, <1>a DEF ConnectFails, ConnectThrows, WriteAhead
<1>30. ASSUME NEW c \in Client,
             Drop(c)
      PROVE  WriteAhead'
  BY <1>30, <1>a DEF Drop, Gone, WriteAhead
<1>31. ASSUME NEW c \in Client,
             CloseCompletes(c)
      PROVE  WriteAhead'
  BY <1>31, <1>a DEF CloseCompletes, Gone, WriteAhead
<1>32. ASSUME Crash PROVE WriteAhead'
  BY <1>32, <1>a DEF Crash, NoJob, WriteAhead
<1>33. CASE UNCHANGED vars
  BY <1>33, <1>a DEF WriteAhead, vars
<1>34. QED
  BY <1>1, <1>2, <1>3, <1>4, <1>5, <1>6, <1>7, <1>8, <1>9, <1>10, <1>11, <1>12,
     <1>13, <1>14, <1>15, <1>16, <1>17, <1>18, <1>19, <1>20, <1>21, <1>22,
     <1>23, <1>24, <1>25, <1>26, <1>27, <1>28, <1>29, <1>30, <1>31, <1>32,
     <1>33
     DEF Next, Sends, Keeps, Handles, Observes, Relays, Fails

\* Every step keeps OutboxIsTrue.
LEMMA OutboxStep == IInv /\ [Next]_vars => OutboxIsTrue'
<1> SUFFICES ASSUME IInv, [Next]_vars PROVE OutboxIsTrue'
  OBVIOUS
<1> USE ConstantAssumption DEF Task, db, relay, net, tasks, loop, hist, caps
<1>a. TypeOK /\ Positions /\ Frames /\ JobStage /\ SendStage /\ OutboxIsTrue
  BY DEF IInv
<1>1. ASSUME NEW s \in Sender, NEW e \in Envelope,
             SendFromOutbox(s, e)
      PROVE  OutboxIsTrue'
  BY <1>1, <1>a DEF SendFromOutbox, Call, OutboxIsTrue
<1>2. ASSUME NEW s \in Sender, NEW e \in Envelope,
             SendConnected(s, e)
      PROVE  OutboxIsTrue'
  BY <1>2, <1>a
    DEF SendConnected, Call, InsertPending, Connected, OutboxIsTrue, TypeOK,
        Settled
<1>3. ASSUME NEW s \in Sender, NEW e \in Envelope,
             SendReconnects(s, e)
      PROVE  OutboxIsTrue'
  BY <1>3, <1>a DEF SendReconnects, Call, OpenClient, Free, OutboxIsTrue
<1>4. ASSUME NEW s \in Sender,
             SendOnWire(s)
      PROVE  OutboxIsTrue'
  BY <1>4, <1>a DEF SendOnWire, Ask, OutboxIsTrue
<1>5. ASSUME NEW s \in Sender,
             ResolveFails(s)
      PROVE  OutboxIsTrue'
  BY <1>5, <1>a DEF ResolveFails, Settle, OutboxIsTrue, TypeOK, Settled
<1>6. ASSUME EnsureReady PROVE OutboxIsTrue'
  BY <1>6, <1>a DEF EnsureReady, OpenClient, Free, OutboxIsTrue
<1>7. ASSUME KeeperReconnects PROVE OutboxIsTrue'
  BY <1>7, <1>a DEF KeeperReconnects, OpenClient, Free, OutboxIsTrue
<1>8. ASSUME KeeperWakes PROVE OutboxIsTrue'
  BY <1>8, <1>a DEF KeeperWakes, OutboxIsTrue
<1>9. ASSUME NEW c \in Client,
             HandleJoin(c)
      PROVE  OutboxIsTrue'
  BY <1>9, <1>a DEF HandleJoin, Arrives, Awaited, Ask, OutboxIsTrue
<1>10. ASSUME NEW c \in Client,
             HandleJoinNack(c)
      PROVE  OutboxIsTrue'
  BY <1>10, <1>a
    DEF HandleJoinNack, Arrives, Awaited, ConnectThrows, OutboxIsTrue
<1>11. ASSUME NEW c \in Client,
             HandleAck(c)
      PROVE  OutboxIsTrue'
  <2> DEFINE f == Head(down[c])
  <2>1. FrameTrue(f, Len(log), accepted) /\ f.kind = "ack" /\ accepted' = accepted
    BY <1>11, <1>a, FramesPopped DEF HandleAck, Settle
  <2>2. f.task \in Task /\ env[f.task] = f.env /\ f.env \in accepted
    BY <1>11, <1>a, <2>1 DEF HandleAck, Awaited, FrameTrue, Frame
  <2>3. /\ outbox' = [outbox EXCEPT ![f.env] = IF @ = "none" THEN @ ELSE "accepted"]
        /\ receipts' = receipts /\ acked' = acked \cup {f.env}
    BY <1>11, <2>2 DEF HandleAck, Settle
  <2> HIDE DEF f
  <2>4. QED
    BY <1>a, <2>1, <2>2, <2>3 DEF OutboxIsTrue, TypeOK, Settled
<1>12. ASSUME NEW c \in Client,
             HandleSendNack(c)
      PROVE  OutboxIsTrue'
  BY <1>12, <1>a
    DEF HandleSendNack, Arrives, Awaited, Settle, OutboxIsTrue, TypeOK,
        Settled
<1>13. ASSUME NEW c \in Client,
             HandleListNack(c)
      PROVE  OutboxIsTrue'
  BY <1>13, <1>a
    DEF HandleListNack, Arrives, Awaited, ConnectThrows, OutboxIsTrue
<1>14. ASSUME NEW c \in Client,
             HandlePage(c)
      PROVE  OutboxIsTrue'
  BY <1>14, <1>a DEF HandlePage, Arrives, Awaited, OutboxIsTrue
<1>15. ASSUME NEW c \in Client,
             HandleReceipt(c)
      PROVE  OutboxIsTrue'
  BY <1>15, <1>a DEF HandleReceipt, Arrives, OutboxIsTrue
<1>16. ASSUME SkipKnown PROVE OutboxIsTrue'
  BY <1>16, <1>a DEF SkipKnown, Observing, NextReceipt, NoJob, OutboxIsTrue
<1>17. ASSUME UpsertReceipt PROVE OutboxIsTrue'
  BY <1>17, <1>a DEF UpsertReceipt, Observing, OutboxIsTrue
<1>18. ASSUME MarkOutboxDelivered PROVE OutboxIsTrue'
  <2>1. log[job.pos] \in receipts /\ log[job.pos] \in accepted
    BY <1>18, <1>a, JobItem
      DEF MarkOutboxDelivered, Observing, JobStage, Positions
  <2>2. QED
    BY <1>18, <1>a, <2>1 DEF MarkOutboxDelivered, OutboxIsTrue, TypeOK, Settled
<1>19. ASSUME InsertSidecarEvent PROVE OutboxIsTrue'
  BY <1>19, <1>a DEF InsertSidecarEvent, Observing, OutboxIsTrue
<1>20. ASSUME UpdateReceiptCursor PROVE OutboxIsTrue'
  BY <1>20, <1>a
    DEF UpdateReceiptCursor, Observing, NextReceipt, NoJob, OutboxIsTrue
<1>21. ASSUME RecoveryEnds PROVE OutboxIsTrue'
  BY <1>21, <1>a
    DEF RecoveryEnds, PageObserved, LastPage, ConnectReturns, InsertPending,
        NoJob, OutboxIsTrue, TypeOK, Settled
<1>22. ASSUME NextPage PROVE OutboxIsTrue'
  BY <1>22, <1>a DEF NextPage, PageObserved, LastPage, Ask, NoJob, OutboxIsTrue
<1>23. ASSUME NEW t \in Task,
             RelayJoins(t)
      PROVE  OutboxIsTrue'
  BY <1>23, <1>a DEF RelayJoins, Push, Reply, OutboxIsTrue
<1>24. ASSUME NEW t \in Task,
             RelayRefusesJoin(t)
      PROVE  OutboxIsTrue'
  BY <1>24, <1>a DEF RelayRefusesJoin, Push, Reply, OutboxIsTrue
<1>25. ASSUME NEW t \in Task,
             RelayAccepts(t)
      PROVE  OutboxIsTrue'
  BY <1>25, <1>a DEF RelayAccepts, Served, Push, Reply, OutboxIsTrue
<1>26. ASSUME NEW t \in Task,
             RelayRefuses(t)
      PROVE  OutboxIsTrue'
  BY <1>26, <1>a DEF RelayRefuses, Served, Push, Reply, OutboxIsTrue
<1>27. ASSUME NEW t \in Task,
             RelayLists(t)
      PROVE  OutboxIsTrue'
  BY <1>27, <1>a DEF RelayLists, Served, Push, Reply, OutboxIsTrue
<1>28. ASSUME NEW e \in Envelope,
             RelayDelivers(e)
      PROVE  OutboxIsTrue'
  BY <1>28, <1>a DEF RelayDelivers, Reply, OutboxIsTrue
<1>29. ASSUME NEW t \in Task,
             ConnectFails(t)
      PROVE  OutboxIsTrue'
  BY <1>29, <1>a DEF ConnectFails, ConnectThrows, OutboxIsTrue
<1>30. ASSUME NEW c \in Client,
             Drop(c)
      PROVE  OutboxIsTrue'
  BY <1>30, <1>a DEF Drop, Gone, OutboxIsTrue
<1>31. ASSUME NEW c \in Client,
             CloseCompletes(c)
      PROVE  OutboxIsTrue'
  BY <1>31, <1>a DEF CloseCompletes, Gone, OutboxIsTrue
<1>32. ASSUME Crash PROVE OutboxIsTrue'
  BY <1>32, <1>a DEF Crash, NoJob, OutboxIsTrue
<1>33. CASE UNCHANGED vars
  BY <1>33, <1>a DEF OutboxIsTrue, vars
<1>34. QED
  BY <1>1, <1>2, <1>3, <1>4, <1>5, <1>6, <1>7, <1>8, <1>9, <1>10, <1>11, <1>12,
     <1>13, <1>14, <1>15, <1>16, <1>17, <1>18, <1>19, <1>20, <1>21, <1>22,
     <1>23, <1>24, <1>25, <1>26, <1>27, <1>28, <1>29, <1>30, <1>31, <1>32,
     <1>33
     DEF Next, Sends, Keeps, Handles, Observes, Relays, Fails

\* Every step of the agent and of the relay is a step of the ledger or leaves it
\* alone: RelayDelivers relays, UpsertReceipt records, and InsertSidecarEvent
\* publishes unless the event is there already.
LEMMA LedgerStep == IInv /\ [Next]_vars => [Ledger!Next]_(Ledger!ledger)
<1> SUFFICES ASSUME IInv, [Next]_vars PROVE [Ledger!Next]_(Ledger!ledger)
  OBVIOUS
<1> USE ConstantAssumption DEF Task, db, relay, net, tasks, loop, hist, caps, Ledger!ledger
<1>a. IInv
  OBVIOUS
<1>1. ASSUME NEW s \in Sender, NEW e \in Envelope,
             SendFromOutbox(s, e)
      PROVE  [Ledger!Next]_(Ledger!ledger)
  BY <1>1 DEF SendFromOutbox
<1>2. ASSUME NEW s \in Sender, NEW e \in Envelope,
             SendConnected(s, e)
      PROVE  [Ledger!Next]_(Ledger!ledger)
  BY <1>2 DEF SendConnected
<1>3. ASSUME NEW s \in Sender, NEW e \in Envelope,
             SendReconnects(s, e)
      PROVE  [Ledger!Next]_(Ledger!ledger)
  BY <1>3 DEF SendReconnects
<1>4. ASSUME NEW s \in Sender,
             SendOnWire(s)
      PROVE  [Ledger!Next]_(Ledger!ledger)
  BY <1>4 DEF SendOnWire
<1>5. ASSUME NEW s \in Sender,
             ResolveFails(s)
      PROVE  [Ledger!Next]_(Ledger!ledger)
  BY <1>5 DEF ResolveFails, Settle
<1>6. ASSUME EnsureReady PROVE [Ledger!Next]_(Ledger!ledger)
  BY <1>6 DEF EnsureReady
<1>7. ASSUME KeeperReconnects PROVE [Ledger!Next]_(Ledger!ledger)
  BY <1>7 DEF KeeperReconnects
<1>8. ASSUME KeeperWakes PROVE [Ledger!Next]_(Ledger!ledger)
  BY <1>8 DEF KeeperWakes
<1>9. ASSUME NEW c \in Client,
             HandleJoin(c)
      PROVE  [Ledger!Next]_(Ledger!ledger)
  BY <1>9 DEF HandleJoin
<1>10. ASSUME NEW c \in Client,
             HandleJoinNack(c)
      PROVE  [Ledger!Next]_(Ledger!ledger)
  BY <1>10 DEF HandleJoinNack
<1>11. ASSUME NEW c \in Client,
             HandleAck(c)
      PROVE  [Ledger!Next]_(Ledger!ledger)
  BY <1>11 DEF HandleAck, Settle
<1>12. ASSUME NEW c \in Client,
             HandleSendNack(c)
      PROVE  [Ledger!Next]_(Ledger!ledger)
  BY <1>12 DEF HandleSendNack, Settle
<1>13. ASSUME NEW c \in Client,
             HandleListNack(c)
      PROVE  [Ledger!Next]_(Ledger!ledger)
  BY <1>13 DEF HandleListNack
<1>14. ASSUME NEW c \in Client,
             HandlePage(c)
      PROVE  [Ledger!Next]_(Ledger!ledger)
  BY <1>14 DEF HandlePage
<1>15. ASSUME NEW c \in Client,
             HandleReceipt(c)
      PROVE  [Ledger!Next]_(Ledger!ledger)
  BY <1>15 DEF HandleReceipt
<1>16. ASSUME SkipKnown PROVE [Ledger!Next]_(Ledger!ledger)
  BY <1>16 DEF SkipKnown
<1>17. ASSUME UpsertReceipt PROVE [Ledger!Next]_(Ledger!ledger)
  <2>1. log[job.pos] \in Range(log) \ receipts /\ log[job.pos] \in Envelope
    BY <1>17, <1>a, JobItem DEF UpsertReceipt
  <2>2. Ledger!Record(log[job.pos])
    BY <1>17, <2>1 DEF UpsertReceipt, Ledger!Record
  <2>3. QED
    BY <2>1, <2>2 DEF Ledger!Next
<1>18. ASSUME MarkOutboxDelivered PROVE [Ledger!Next]_(Ledger!ledger)
  BY <1>18 DEF MarkOutboxDelivered
<1>19. ASSUME InsertSidecarEvent PROVE [Ledger!Next]_(Ledger!ledger)
  <2>1. log[job.pos] \in receipts /\ log[job.pos] \in Envelope
    BY <1>19, <1>a, JobItem DEF InsertSidecarEvent, Observing, IInv, JobStage
  <2>2. CASE log[job.pos] \in Range(events)
    BY <1>19, <2>2 DEF InsertSidecarEvent, Ledger!ledger
  <2>3. CASE log[job.pos] \notin Range(events)
    <3>1. events' = Append(events, log[job.pos]) /\ UNCHANGED <<log, receipts>>
      BY <1>19, <2>3 DEF InsertSidecarEvent
    <3>2. Range(log') = Range(log) /\ receipts' = receipts
      BY <3>1
    <3>3. Ledger!Publish(log[job.pos])
      BY <2>1, <2>3, <3>1, <3>2 DEF Ledger!Publish, Ledger!Range, Range
    <3>4. QED
      BY <2>1, <3>3 DEF Ledger!Next
  <2>4. QED
    BY <2>2, <2>3
<1>20. ASSUME UpdateReceiptCursor PROVE [Ledger!Next]_(Ledger!ledger)
  BY <1>20 DEF UpdateReceiptCursor
<1>21. ASSUME RecoveryEnds PROVE [Ledger!Next]_(Ledger!ledger)
  BY <1>21 DEF RecoveryEnds, ConnectReturns
<1>22. ASSUME NextPage PROVE [Ledger!Next]_(Ledger!ledger)
  BY <1>22 DEF NextPage
<1>23. ASSUME NEW t \in Task,
             RelayJoins(t)
      PROVE  [Ledger!Next]_(Ledger!ledger)
  BY <1>23 DEF RelayJoins
<1>24. ASSUME NEW t \in Task,
             RelayRefusesJoin(t)
      PROVE  [Ledger!Next]_(Ledger!ledger)
  BY <1>24 DEF RelayRefusesJoin
<1>25. ASSUME NEW t \in Task,
             RelayAccepts(t)
      PROVE  [Ledger!Next]_(Ledger!ledger)
  BY <1>25 DEF RelayAccepts
<1>26. ASSUME NEW t \in Task,
             RelayRefuses(t)
      PROVE  [Ledger!Next]_(Ledger!ledger)
  BY <1>26 DEF RelayRefuses
<1>27. ASSUME NEW t \in Task,
             RelayLists(t)
      PROVE  [Ledger!Next]_(Ledger!ledger)
  BY <1>27 DEF RelayLists
<1>28. ASSUME NEW e \in Envelope,
             RelayDelivers(e)
      PROVE  [Ledger!Next]_(Ledger!ledger)
  <2>1. log \in Seq(Envelope)
    BY <1>a DEF IInv, TypeOK
  <2>2. Range(log') = Range(log) \cup {e}
    BY <1>28, <2>1, AppendRange DEF RelayDelivers
  <2>3. Ledger!Relay(e)
    BY <1>28, <2>2 DEF RelayDelivers, Ledger!Relay
  <2>4. QED
    BY <2>3 DEF Ledger!Next
<1>29. ASSUME NEW t \in Task,
             ConnectFails(t)
      PROVE  [Ledger!Next]_(Ledger!ledger)
  BY <1>29 DEF ConnectFails
<1>30. ASSUME NEW c \in Client,
             Drop(c)
      PROVE  [Ledger!Next]_(Ledger!ledger)
  BY <1>30 DEF Drop, Gone
<1>31. ASSUME NEW c \in Client,
             CloseCompletes(c)
      PROVE  [Ledger!Next]_(Ledger!ledger)
  BY <1>31 DEF CloseCompletes, Gone
<1>32. ASSUME Crash PROVE [Ledger!Next]_(Ledger!ledger)
  BY <1>32 DEF Crash
<1>33. CASE UNCHANGED vars
  BY <1>33, <1>a DEF vars
<1>34. QED
  BY <1>1, <1>2, <1>3, <1>4, <1>5, <1>6, <1>7, <1>8, <1>9, <1>10, <1>11, <1>12,
     <1>13, <1>14, <1>15, <1>16, <1>17, <1>18, <1>19, <1>20, <1>21, <1>22,
     <1>23, <1>24, <1>25, <1>26, <1>27, <1>28, <1>29, <1>30, <1>31, <1>32,
     <1>33
     DEF Next, Sends, Keeps, Handles, Observes, Relays, Fails

\* An invariant that IInv implies holds of every behaviour.
LEMMA Inductive == Spec => []IInv
<1>1. IInv /\ [Next]_vars => IInv'
  BY TypeStep, PositionsStep, FramesStep, JobStep, SendStep, WriteAheadStep,
     OutboxStep DEF IInv
<1>2. QED BY InitHolds, <1>1, PTL DEF Spec

\* The state of the agent, of its store and of the relay stays well typed through
\* every interleaving of sends, reconnections, recoveries and crashes.
THEOREM TypeCorrect == Spec => []TypeOK
<1>1. IInv => TypeOK
  BY DEF IInv
<1>2. QED BY Inductive, <1>1, PTL

\* send() writes its outbox row before its frame leaves: no interleaving with a
\* reconnection, another send or a crash lets the relay take an envelope of this
\* program that has no row (agent.ts: insertOutboxPending before client.send).
THEOREM RowBeforeWire == Spec => []WriteAhead
<1>1. IInv => WriteAhead
  BY DEF IInv
<1>2. QED BY Inductive, <1>1, PTL

\* An outbox row that says accepted or delivered, and a send() that resolved, are
\* for envelopes the relay took; a delivered row has its receipt on disk.
THEOREM OutboxTruth == Spec => []OutboxIsTrue
<1>1. IInv => OutboxIsTrue
  BY DEF IInv
<1>2. QED BY Inductive, <1>1, PTL

\* The agent implements the receipt ledger: receipts are recorded and published
\* at most once, only when the relay keeps them, and never taken back.
THEOREM LedgerImplemented == Spec => ReceiptsOnce
<1>1. Init => Ledger!Init
  BY DEF Init, Ledger!Init, Range
<1>2. QED
  BY Inductive, LedgerStep, <1>1, PTL DEF Spec, ReceiptsOnce, Ledger!Spec

\* What a ledger says is true in every state of it.
LEMMA LedgerIsTruthful == Ledger!Spec => []Ledger!Truthful
<1>1. Ledger!Init => Ledger!Truthful
  BY DEF Ledger!Init, Ledger!Truthful, Ledger!IsInjective
<1>2. Ledger!Truthful /\ [Ledger!Next]_(Ledger!ledger) => Ledger!Truthful'
  <2> SUFFICES ASSUME Ledger!Truthful, [Ledger!Next]_(Ledger!ledger) PROVE Ledger!Truthful'
    OBVIOUS
  <2>1. ASSUME NEW e \in Envelope, Ledger!Relay(e) PROVE Ledger!Truthful'
    BY <2>1 DEF Ledger!Relay, Ledger!Truthful, Ledger!IsInjective
  <2>2. ASSUME NEW e \in Envelope, Ledger!Record(e) PROVE Ledger!Truthful'
    BY <2>2 DEF Ledger!Record, Ledger!Truthful, Ledger!IsInjective
  <2>3. ASSUME NEW e \in Envelope, Ledger!Publish(e) PROVE Ledger!Truthful'
    <3>1. /\ receipts' = receipts /\ receipts \subseteq Range(log) /\ Range(log)' = Range(log)
          /\ events \in Seq(receipts) /\ events' = Append(events, e) /\ e \in receipts
      BY <2>3 DEF Ledger!Publish, Ledger!Truthful
    <3>2. \A i \in DOMAIN events : events[i] # e
      BY <2>3 DEF Ledger!Publish, Ledger!Range
    <3>3. Ledger!IsInjective(events)'
      BY <3>1, <3>2 DEF Ledger!Truthful, Ledger!IsInjective
    <3> QED
      BY <3>1, <3>3 DEF Ledger!Truthful
  <2>4. ASSUME UNCHANGED Ledger!ledger PROVE Ledger!Truthful'
    BY <2>4 DEF Ledger!ledger, Ledger!Truthful, Ledger!IsInjective
  <2> QED
    BY <2>1, <2>2, <2>3, <2>4 DEF Ledger!Next
<1> QED
  BY <1>1, <1>2, PTL DEF Ledger!Spec

\* The store and the event stream of the agent never hold a receipt the relay does
\* not keep, and no receipt is in the stream twice or before it is recorded
\* (observeReceipt, insertSidecarEvent).
THEOREM ReceiptsAreTruthful == Spec => []Ledger!Truthful
  BY LedgerImplemented, LedgerIsTruthful DEF ReceiptsOnce

============================================================================
