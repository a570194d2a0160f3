------------------------- MODULE AgentAwaits_proofs -------------------------
(***************************************************************************)
(* The requests and replies of AgentRuntime: what a task awaits is with    *)
(* the relay, on its way or cut off, and what is on its way is awaited, for *)
(* any callers that reconnect over each other, any clients they replace and *)
(* any refusals, lost connections and deaths of the process.               *)
(*                                                                         *)
(* Neither half is inductive by itself.  A reply finds its task where it   *)
(* awaits it because no task has two replies on their way, and none while  *)
(* the relay still has its request or its page is being observed (Replies, *)
(* Asks); a request leaves on a socket that is up or cut because tasks     *)
(* past connect() hold a client that was up (Linked).                      *)
(***************************************************************************)
EXTENDS AgentRecovery_proofs

Up == {"open", "closing", "closed"}

\* Where the clients of the tasks are: each connects on one of its own, which is
\* not the one in use; past it there is one in use, and theirs was up.
Linked ==
  /\ \A c \in Client : status[c] \in {"closed", "connecting"} => down[c] = <<>>
  /\ current # None => status[current] \in Up
  /\ \A t \in Task :
       /\ pc[t] \in {"connect", "recover", "resolve", "wire"} => sock[t] \in Client
       /\ pc[t] \in {"recover", "resolve", "wire"} => current # None /\ status[sock[t]] \in Up
       /\ pc[t] = "connect" => /\ sock[t] # current /\ status[sock[t]] # "closing"
                               /\ \A u \in Task \ {t} : sock[u] # sock[t]

\* The relay has the requests of tasks that await them.
Asks == \A t \in todo : pc[t] \in {"recover", "wire"} /\ job.owner # t

\* What a frame on its way to client c answers.
Answers(f, c) ==
  IF f.kind = "receipt" THEN f.task = None
  ELSE /\ f.task \in Task \ todo /\ job.owner # f.task
       /\ sock[f.task] = c /\ Fits(f.kind, pc[f.task])
       /\ f.kind = "join" => status[c] = "open"

\* No task has two replies on their way.
Replies ==
  \A c \in Client : \A i \in 1..Len(down[c]) :
    /\ Answers(down[c][i], c)
    /\ \A j \in 1..Len(down[c]) :
         j # i /\ down[c][j].task = down[c][i].task => down[c][i].task = None

\* A task that awaits is not forgotten.
Comes == \A t \in Task : Awaiting(t) => Asked(t) \/ Replied(t) \/ job.owner = t \/ Cut(t)

AwaitInv == IInv /\ Linked /\ Asks /\ Replies /\ Comes

\* No reply to task t is on its way.
Silent(t) == \A c \in Client : \A i \in 1..Len(down[c]) : down[c][i].task # t

-----------------------------------------------------------------------------
(* Replies.                                                                *)

\* A task gets no reply before its request, and awaits where it gets one.
LEMMA SilentIf ==
  ASSUME IInv, Linked, Replies, NEW t \in Task,
         \/ ~Awaiting(t) \/ t \in todo \/ job.owner = t
         \/ pc[t] = "connect" /\ status[sock[t]] \in {"connecting", "closed"}
  PROVE  Silent(t)
<1> SUFFICES ASSUME NEW c \in Client, NEW i \in 1..Len(down[c]), down[c][i].task = t
             PROVE  FALSE
  BY DEF Silent
<1>1. t # None /\ Answers(down[c][i], c)
  BY ConstantAssumption DEF Replies
<1>2. t \notin todo /\ job.owner # t /\ sock[t] = c /\ Fits(down[c][i].kind, pc[t])
  BY <1>1 DEF Answers
<1>3. Awaiting(t)
  BY <1>2 DEF Fits, Awaiting
<1>4. pc[t] = "connect" /\ status[c] \in {"connecting", "closed"}
  BY <1>2, <1>3
<1>5. Len(down[c]) = 0
  BY <1>4 DEF Linked
<1> QED
  BY <1>5

\* What the first frame of a queue tells, and that it was the only reply of its
\* task.
LEMMA PoppedReply ==
  ASSUME IInv, Replies, NEW c \in Client, NEW kind, Arrives(c, kind)
  PROVE  /\ Head(down[c]).kind = kind /\ Answers(Head(down[c]), c)
         /\ Head(down[c]).task \in Task \cup {None}
         /\ \A d \in Client : \A i \in 1..Len(down'[d]) :
              Head(down[c]).task \in Task => down'[d][i].task # Head(down[c]).task
<1> DEFINE h == Head(down[c])
<1>1. /\ Len(down[c]) \in Nat \ {0} /\ h = down[c][1] /\ h.kind = kind /\ h \in Frame
      /\ Len(down'[c]) = Len(down[c]) - 1
      /\ \A i \in 1..Len(down'[c]) : down'[c][i] = down[c][i + 1]
      /\ \A d \in Client : d # c => down'[d] = down[d]
  BY Popped DEF IInv
<1>2. 1 \in 1..Len(down[c]) /\ \A i \in 1..Len(down'[c]) : i + 1 \in 1..Len(down[c]) /\ i + 1 # 1
  BY <1>1
<1> HIDE DEF h
<1>3. Answers(h, c) /\ h.task \in Task \cup {None}
  BY <1>1, <1>2 DEF Replies, Frame
<1>4. ASSUME NEW d \in Client, NEW i \in 1..Len(down'[d]), h.task \in Task
      PROVE  down'[d][i].task # h.task
  <2>1. h.task # None
    BY <1>4, ConstantAssumption
  <2>2. CASE d = c
    BY <1>1, <1>2, <2>1, <2>2 DEF Replies
  <2>3. CASE d # c
    <3>1. SUFFICES ASSUME down[d][i].task = h.task PROVE FALSE
      BY <1>1, <2>3
    <3>2. i \in 1..Len(down[d])
      BY <1>1, <2>3
    <3>3. Answers(down[d][i], d)
      BY <3>2 DEF Replies
    <3>4. sock[h.task] = d /\ sock[h.task] = c
      BY <1>3, <2>1, <3>1, <3>3 DEF Answers
    <3> QED
      BY <2>3, <3>4
  <2> QED
    BY <2>2, <2>3
<1> QED
  BY <1>1, <1>3, <1>4 DEF h

\* What a frame answers after a step.
AnswersNext(f, c) ==
  IF f.kind = "receipt" THEN f.task = None
  ELSE /\ f.task \in Task \ todo' /\ job'.owner # f.task
       /\ sock'[f.task] = c /\ Fits(f.kind, pc'[f.task])
       /\ f.kind = "join" => status'[c] = "open"

\* The queues lose frames at their heads, and task t, that moves, has none left.
Shorter(t) ==
  /\ \A c \in Client : \E k \in Nat :
       /\ Len(down'[c]) \in Nat /\ Len(down[c]) \in Nat
       /\ Len(down'[c]) = 0 \/ Len(down'[c]) + k <= Len(down[c])
       /\ \A i \in 1..Len(down'[c]) : down'[c][i] = down[c][i + k]
  /\ t \in Task => \A c \in Client : \A i \in 1..Len(down'[c]) : down'[c][i].task # t

\* The other tasks stay where they are.
Others(t) ==
  /\ \A u \in Task \ {t} :
       /\ pc'[u] = pc[u] /\ sock'[u] = sock[u]
       /\ u \in todo' => u \in todo
       /\ job'.owner = u => job.owner = u

\* A step that moves one task, and only takes frames, keeps the replies in order.
LEMMA RepliesShorter ==
  ASSUME Replies, NEW t, Shorter(t), Others(t),
         \A c \in Client : \A i \in 1..Len(down'[c]) :
           down'[c][i].kind = "join" /\ status[c] = "open" => status'[c] = "open"
  PROVE  Replies'
<1> SUFFICES ASSUME NEW c \in Client, NEW i \in 1..Len(down'[c])
             PROVE  /\ AnswersNext(down'[c][i], c)
                    /\ \A j \in 1..Len(down'[c]) :
                         j # i /\ down'[c][j].task = down'[c][i].task => down'[c][i].task = None
  BY DEF Replies, Answers, AnswersNext
<1>1. PICK k \in Nat :
        /\ Len(down'[c]) \in Nat /\ Len(down[c]) \in Nat
        /\ Len(down'[c]) = 0 \/ Len(down'[c]) + k <= Len(down[c])
        /\ \A j \in 1..Len(down'[c]) : down'[c][j] = down[c][j + k]
  BY DEF Shorter
<1>2. \A j \in 1..Len(down'[c]) : j + k \in 1..Len(down[c])
  BY <1>1
<1> DEFINE f == down'[c][i]
<1>3. Answers(f, c) /\ (t \in Task => f.task # t)
  <2>1. i + k \in 1..Len(down[c]) /\ f = down[c][i + k]
    BY <1>1, <1>2
  <2> QED
    BY <2>1 DEF Replies, Shorter
<1>4. f.kind = "join" /\ status[c] = "open" => status'[c] = "open"
  OBVIOUS
<1> HIDE DEF f
<1>5. AnswersNext(f, c)
  <2>1. CASE f.kind = "receipt"
    BY <1>3, <2>1 DEF Answers, AnswersNext
  <2>2. CASE f.kind # "receipt"
    <3>1. f.task \in Task \ {t}
      BY <1>3, <2>2 DEF Answers
    <3> QED
      BY <1>3, <1>4, <2>2, <3>1 DEF Answers, AnswersNext, Others
  <2> QED
    BY <2>1, <2>2
<1>6. ASSUME NEW j \in 1..Len(down'[c]), j # i, down'[c][j].task = down'[c][i].task
      PROVE  down'[c][i].task = None
  <2>1. j + k # i + k /\ j + k \in 1..Len(down[c]) /\ i + k \in 1..Len(down[c])
    BY <1>1, <1>2, <1>6
  <2>2. down'[c][j] = down[c][j + k] /\ down'[c][i] = down[c][i + k]
    BY <1>1
  <2> QED
    BY <1>6, <2>1, <2>2 DEF Replies
<1> QED
  BY <1>5, <1>6 DEF f

\* A step that leaves the queues alone.
LEMMA ShorterSame ==
  ASSUME TypeOK, NEW t, t \in Task => Silent(t), down' = down
  PROVE  Shorter(t)
<1>1. \A c \in Client : Len(down[c]) \in Nat
  BY DEF TypeOK
<1>2. \A c \in Client : /\ Len(down[c]) + 0 <= Len(down[c])
                        /\ \A i \in 1..Len(down[c]) : down[c][i + 0] = down[c][i]
  BY <1>1
<1> QED
  BY <1>1, <1>2 DEF Shorter, Silent

\* A step that takes the frame at the head of a queue.
LEMMA ShorterPopped ==
  ASSUME IInv, Replies, NEW c \in Client, NEW kind, Arrives(c, kind)
  PROVE  Shorter(Head(down[c]).task)
<1>1. /\ Len(down[c]) \in Nat \ {0} /\ Len(down'[c]) = Len(down[c]) - 1
      /\ \A i \in 1..Len(down'[c]) : down'[c][i] = down[c][i + 1]
      /\ \A d \in Client : d # c => down'[d] = down[d]
  BY Popped DEF IInv
<1>2. \A d \in Client : Len(down[d]) \in Nat
  BY DEF IInv, TypeOK
<1>3. ASSUME NEW d \in Client
      PROVE  \E k \in Nat :
               /\ Len(down'[d]) \in Nat /\ Len(down[d]) \in Nat
               /\ Len(down'[d]) = 0 \/ Len(down'[d]) + k <= Len(down[d])
               /\ \A i \in 1..Len(down'[d]) : down'[d][i] = down[d][i + k]
  <2>1. CASE d = c
    <3>1. 1 \in Nat /\ Len(down'[d]) \in Nat /\ Len(down'[d]) + 1 <= Len(down[d])
      BY <1>1, <2>1
    <3> QED
      BY <1>1, <1>2, <2>1, <3>1
  <2>2. CASE d # c
    <3>1. /\ 0 \in Nat /\ Len(down[d]) + 0 <= Len(down[d])
          /\ \A i \in 1..Len(down[d]) : i + 0 = i
      BY <1>2
    <3>2. down'[d] = down[d]
      BY <1>1, <2>2
    <3> QED
      BY <1>2, <3>1, <3>2
  <2> QED
    BY <2>1, <2>2
<1>4. \A d \in Client : \A i \in 1..Len(down'[d]) :
        Head(down[c]).task \in Task => down'[d][i].task # Head(down[c]).task
  BY PoppedReply
<1> QED
  BY <1>3, <1>4 DEF Shorter

\* A step that empties queues.
LEMMA ShorterGone ==
  ASSUME TypeOK, \A c \in Client : down'[c] = down[c] \/ down'[c] = <<>>
  PROVE  Shorter(None)
<1>1. \A c \in Client : Len(down[c]) \in Nat
  BY DEF TypeOK
<1>2. \A c \in Client : /\ Len(down[c]) + 0 <= Len(down[c])
                        /\ \A i \in 1..Len(down[c]) : down[c][i + 0] = down[c][i]
  BY <1>1
<1>3. Len(<<>>) = 0
  OBVIOUS
<1>4. ASSUME NEW c \in Client
      PROVE  \E k \in Nat :
               /\ Len(down'[c]) \in Nat /\ Len(down[c]) \in Nat
               /\ Len(down'[c]) = 0 \/ Len(down'[c]) + k <= Len(down[c])
               /\ \A i \in 1..Len(down'[c]) : down'[c][i] = down[c][i + k]
  <2>1. CASE down'[c] = down[c]
    BY <1>1, <1>2, <2>1
  <2>2. CASE Len(down'[c]) = 0
    BY <1>1, <2>2
  <2> QED
    BY <1>3, <2>1, <2>2
<1> QED
  BY <1>4, ConstantAssumption DEF Shorter

\* What one more reply does to the replies of the others.
LEMMA RepliesPushed ==
  ASSUME IInv, Replies, NEW t \in Task, sock[t] \in Client, NEW f \in Frame, Push(sock[t], f),
         f.task = t, f.kind # "receipt", Fits(f.kind, pc[t]), Silent(t), job.owner # t,
         t \notin todo', todo' \subseteq todo, UNCHANGED <<pc, sock, job>>,
         f.kind = "join" => status'[sock[t]] = "open",
         \A c \in Client : status[c] = "open" => status'[c] = "open"
  PROVE  Replies'
<1> DEFINE s == sock[t]
<1>1. /\ Len(down[s]) \in Nat /\ Len(down'[s]) = Len(down[s]) + 1
      /\ down'[s][Len(down[s]) + 1] = f
      /\ \A i \in 1..Len(down[s]) : down'[s][i] = down[s][i]
      /\ \A d \in Client : d # s => down'[d] = down[d]
  BY Pushed DEF IInv
<1>2. AnswersNext(f, s) /\ t # None
  BY ConstantAssumption DEF AnswersNext
<1>3. ASSUME NEW g, NEW c \in Client, Answers(g, c)
      PROVE  AnswersNext(g, c)
  <2>1. g.kind # "receipt" => g.task \notin todo'
    BY <1>3 DEF Answers
  <2> QED
    BY <1>3, <2>1 DEF Answers, AnswersNext
<1> SUFFICES ASSUME NEW c \in Client, NEW i \in 1..Len(down'[c])
             PROVE  /\ AnswersNext(down'[c][i], c)
                    /\ \A j \in 1..Len(down'[c]) :
                         j # i /\ down'[c][j].task = down'[c][i].task => down'[c][i].task = None
  BY DEF Replies, Answers, AnswersNext
<1> HIDE DEF s
<1>4. CASE c # s
  BY <1>1, <1>3, <1>4 DEF Replies
<1>5. CASE c = s
  <2>1. \A j \in 1..Len(down'[s]) : j \in 1..Len(down[s]) \/ j = Len(down[s]) + 1
    BY <1>1
  <2>2. \A j \in 1..Len(down[s]) : down[s][j].task # t
    BY <1>5 DEF Silent
  <2>3. \A j \in 1..Len(down'[s]) :
          \/ j \in 1..Len(down[s]) /\ down'[s][j] = down[s][j] /\ down'[s][j].task # t
          \/ j = Len(down[s]) + 1 /\ down'[s][j] = f
    BY <1>1, <2>1, <2>2
  <2>4. CASE i \in 1..Len(down[s])
    <3>1. Answers(down[s][i], s) /\ down'[s][i] = down[s][i] /\ down'[s][i].task # t
      BY <1>1, <1>5, <2>2, <2>4 DEF Replies
    <3>2. ASSUME NEW j \in 1..Len(down'[s]), j # i, down'[s][j].task = down'[s][i].task
          PROVE  down'[s][i].task = None
      BY <1>5, <2>3, <2>4, <3>1, <3>2 DEF Replies
    <3> QED
      BY <1>3, <1>5, <3>1, <3>2
  <2>5. CASE i = Len(down[s]) + 1
    BY <1>1, <1>2, <1>5, <2>3, <2>5
  <2> QED
    BY <1>5, <2>1, <2>4, <2>5
<1> QED
  BY <1>4, <1>5

\* A receipt pushed live answers nobody.
LEMMA RepliesDelivered ==
  ASSUME IInv, Replies, NEW e \in Envelope, RelayDelivers(e)
  PROVE  Replies'
<1>1. UNCHANGED <<status, todo, pc, sock, job>>
  BY DEF RelayDelivers, tasks
<1>2. \A g : \A c \in Client : Answers(g, c) => AnswersNext(g, c)
  BY <1>1 DEF Answers, AnswersNext
<1> SUFFICES ASSUME NEW c \in Client, NEW i \in 1..Len(down'[c])
             PROVE  /\ AnswersNext(down'[c][i], c)
                    /\ \A j \in 1..Len(down'[c]) :
                         j # i /\ down'[c][j].task = down'[c][i].task => down'[c][i].task = None
  BY DEF Replies, Answers, AnswersNext
<1>3. CASE status[c] \in {"open", "closing"}
  <2>1. /\ Len(down[c]) \in Nat /\ Len(down'[c]) = Len(down[c]) + 1
        /\ down'[c][Len(down[c]) + 1].kind = "receipt"
        /\ down'[c][Len(down[c]) + 1].task = None
        /\ \A j \in 1..Len(down[c]) : down'[c][j] = down[c][j]
    BY <1>3, Delivered DEF IInv
  <2>2. \A j \in 1..Len(down'[c]) : j \in 1..Len(down[c]) \/ j = Len(down[c]) + 1
    BY <2>1
  <2>3. CASE i = Len(down[c]) + 1
    BY <2>1, <2>3 DEF AnswersNext
  <2>4. CASE i \in 1..Len(down[c])
    <3>1. Answers(down[c][i], c) /\ down'[c][i] = down[c][i]
      BY <2>1, <2>4 DEF Replies
    <3>2. ASSUME NEW j \in 1..Len(down'[c]), j # i, down'[c][j].task = down'[c][i].task
          PROVE  down'[c][i].task = None
      BY <2>1, <2>2, <2>4, <3>1, <3>2 DEF Replies
    <3> QED
      BY <1>2, <3>1, <3>2
  <2> QED
    BY <2>2, <2>3, <2>4
<1>4. CASE status[c] \notin {"open", "closing"}
  <2>1. down'[c] = down[c]
    BY <1>4, Delivered DEF IInv
  <2> QED
    BY <1>2, <2>1 DEF Replies
<1> QED
  BY <1>3, <1>4

-----------------------------------------------------------------------------
(* The steps.                                                              *)

\* The task a reply arrives for, and that it awaits nothing else.
LEMMA HeadAnswers ==
  ASSUME AwaitInv, NEW c \in Client, NEW kind, kind # "receipt", Arrives(c, kind), NEW label,
         Awaited(c, Head(down[c]).task, label)
  PROVE  LET t == Head(down[c]).task IN
         /\ t \in Task /\ pc[t] = label /\ sock[t] = c /\ t \notin todo /\ job.owner = None
         /\ kind = "join" => status[c] = "open"
         /\ \A d \in Client : \A i \in 1..Len(down'[d]) : down'[d][i].task # t
<1>1. /\ Head(down[c]).kind = kind /\ Answers(Head(down[c]), c)
      /\ Head(down[c]).task \in Task \cup {None}
      /\ \A d \in Client : \A i \in 1..Len(down'[d]) :
           Head(down[c]).task \in Task => down'[d][i].task # Head(down[c]).task
  BY PoppedReply DEF AwaitInv
<1>2. job.owner = None
  BY DEF Arrives, JsIdle, AwaitInv, IInv, JobStage
<1>3. Head(down[c]).task \in Task
  BY <1>1 DEF Awaited
<1> QED
  BY <1>1, <1>2, <1>3 DEF Answers, Awaited

\* The task whose page has been observed.
LEMMA PageOwner ==
  ASSUME AwaitInv, PageObserved
  PROVE  \E t \in Task :
           /\ t = job.owner /\ pc[t] = "recover" /\ t \notin todo /\ Silent(t)
           /\ current \in Client /\ status[current] \in Up /\ sock[t] \in Client
<1> DEFINE t == job.owner
<1>1. t \in Task /\ pc[t] = "recover"
  BY DEF PageObserved, AwaitInv, IInv, TypeOK, Job, JobStage
<1>2. t \notin todo
  BY DEF AwaitInv, Asks
<1>3. Silent(t)
  BY <1>1, SilentIf DEF AwaitInv
<1>4. current \in Client /\ status[current] \in Up /\ sock[t] \in Client
  BY <1>1 DEF AwaitInv, Linked, IInv, TypeOK
<1> QED
  BY <1>1, <1>2, <1>3, <1>4

\* Every step keeps the clients of the tasks apart.
LEMMA LinkedStep == AwaitInv /\ [Next]_vars => Linked'
<1> SUFFICES ASSUME AwaitInv, [Next]_vars PROVE Linked'
  OBVIOUS
<1> USE ConstantAssumption DEF Task, db, relay, net, tasks, loop, hist, caps
<1>a. /\ Linked /\ Asks /\ Replies /\ Comes /\ JobStage
      /\ status \in [Client -> Sockets] /\ down \in [Client -> Seq(Frame)]
      /\ pc \in [Task -> Labels] /\ sock \in [Task -> Client \cup {None}]
      /\ current \in Client \cup {None} /\ job \in Job /\ todo \subseteq Task
  BY DEF AwaitInv, IInv, TypeOK
<1>1. ASSUME NEW s \in Sender, NEW e \in Envelope, SendFromOutbox(s, e)
      PROVE  Linked'
  BY <1>1, <1>a DEF SendFromOutbox, Call, Linked, Up
<1>2. ASSUME NEW s \in Sender, NEW e \in Envelope, SendConnected(s, e)
      PROVE  Linked'
  BY <1>2, <1>a DEF SendConnected, Call, InsertPending, Connected, Linked, Up
<1>3. ASSUME NEW s \in Sender, NEW e \in Envelope, SendReconnects(s, e)
      PROVE  Linked'
  BY <1>3, <1>a DEF SendReconnects, Call, OpenClient, Free, Linked, Up
<1>4. ASSUME NEW s \in Sender, SendOnWire(s)
      PROVE  Linked'
  BY <1>4, <1>a DEF SendOnWire, Ask, Linked, Up
<1>5. ASSUME NEW s \in Sender, ResolveFails(s)
      PROVE  Linked'
  BY <1>5, <1>a DEF ResolveFails, Settle, Linked, Up
<1>6. ASSUME EnsureReady
      PROVE  Linked'
  BY <1>6, <1>a DEF EnsureReady, OpenClient, Free, Linked, Up
<1>7. ASSUME KeeperReconnects
      PROVE  Linked'
  BY <1>7, <1>a DEF KeeperReconnects, OpenClient, Free, Linked, Up
<1>8. ASSUME KeeperWakes
      PROVE  Linked'
  BY <1>8, <1>a DEF KeeperWakes, Linked, Up
<1>9. ASSUME NEW c \in Client, HandleJoin(c)
      PROVE  Linked'
  <2>1. Arrives(c, "join") /\ Awaited(c, Head(down[c]).task, "connect")
    BY <1>9 DEF HandleJoin
  <2> DEFINE t == Head(down[c]).task
  <2>2. /\ t \in Task /\ pc[t] = "connect" /\ sock[t] = c /\ t \notin todo
        /\ job.owner = None /\ status[c] = "open"
    BY <2>1, HeadAnswers
  <2>3. /\ pc' = [pc EXCEPT ![t] = "recover"] /\ current' = c /\ UNCHANGED <<status, sock>>
        /\ \A d \in Client : status[d] \in {"closed", "connecting"} => down'[d] = down[d]
    BY <1>a, <1>9, <2>2 DEF HandleJoin, Arrives
  <2>4. \A d \in Client : status'[d] \in {"closed", "connecting"} => down'[d] = <<>>
    BY <1>a, <2>3 DEF Linked
  <2>5. current' \in Client /\ status'[current'] \in Up
    BY <2>2, <2>3 DEF Up
  <2>6. ASSUME NEW u \in Task
        PROVE  /\ pc'[u] \in {"connect", "recover", "resolve", "wire"} => sock'[u] \in Client
               /\ pc'[u] \in {"recover", "resolve", "wire"} =>
                    current' # None /\ status'[sock'[u]] \in Up
               /\ pc'[u] = "connect" =>
                    /\ sock'[u] # current' /\ status'[sock'[u]] # "closing"
                    /\ \A v \in Task \ {u} : sock'[v] # sock'[u]
    BY <1>a, <2>2, <2>3, <2>5 DEF Linked
  <2> QED
    BY <2>4, <2>5, <2>6 DEF Linked
<1>10. ASSUME NEW c \in Client, HandleJoinNack(c)
      PROVE  Linked'
  BY <1>10, <1>a DEF HandleJoinNack, Arrives, Awaited, ConnectThrows, Linked, Up
<1>11. ASSUME NEW c \in Client, HandleAck(c)
      PROVE  Linked'
  BY <1>11, <1>a DEF HandleAck, Arrives, Awaited, Settle, Linked, Up
<1>12. ASSUME NEW c \in Client, HandleSendNack(c)
      PROVE  Linked'
  BY <1>12, <1>a DEF HandleSendNack, Arrives, Awaited, Settle, Linked, Up
<1>13. ASSUME NEW c \in Client, HandleListNack(c)
      PROVE  Linked'
  BY <1>13, <1>a DEF HandleListNack, Arrives, Awaited, ConnectThrows, Linked, Up
<1>14. ASSUME NEW c \in Client, HandlePage(c)
      PROVE  Linked'
  BY <1>14, <1>a DEF HandlePage, Arrives, Awaited, Linked, Up
<1>15. ASSUME NEW c \in Client, HandleReceipt(c)
      PROVE  Linked'
  BY <1>15, <1>a DEF HandleReceipt, Arrives, Linked, Up
<1>16. ASSUME SkipKnown
      PROVE  Linked'
  BY <1>16, <1>a DEF SkipKnown, Observing, NextReceipt, NoJob, Linked, Up
<1>17. ASSUME UpsertReceipt
      PROVE  Linked'
  BY <1>17, <1>a DEF UpsertReceipt, Observing, Linked, Up
<1>18. ASSUME MarkOutboxDelivered
      PROVE  Linked'
  BY <1>18, <1>a DEF MarkOutboxDelivered, Observing, Linked, Up
<1>19. ASSUME InsertSidecarEvent
      PROVE  Linked'
  BY <1>19, <1>a DEF InsertSidecarEvent, Observing, Linked, Up
<1>20. ASSUME UpdateReceiptCursor
      PROVE  Linked'
  BY <1>20, <1>a DEF UpdateReceiptCursor, Observing, NextReceipt, NoJob, Linked, Up
<1>21. ASSUME RecoveryEnds
      PROVE  Linked'
  <2>1. PICK t \in Task :
          /\ t = job.owner /\ pc[t] = "recover" /\ t \notin todo
          /\ current \in Client /\ status[current] \in Up
    BY <1>21, PageOwner DEF RecoveryEnds
  <2>2. /\ \A u \in Task \ {t} : pc'[u] = pc[u] /\ sock'[u] = sock[u]
        /\ \/ pc'[t] = "resolve" /\ sock'[t] = current
           \/ pc'[t] = "idle" /\ sock'[t] = None
        /\ UNCHANGED <<status, down, current>>
    BY <1>a, <1>21, <2>1 DEF RecoveryEnds, ConnectReturns
  <2>3. ASSUME NEW u \in Task, pc'[u] \in {"connect", "recover", "resolve", "wire"}
        PROVE  sock'[u] \in Client
    BY <1>a, <2>1, <2>2, <2>3 DEF Linked
  <2>4. ASSUME NEW u \in Task, pc'[u] \in {"recover", "resolve", "wire"}
        PROVE  current # None /\ status[sock'[u]] \in Up
    BY <1>a, <2>1, <2>2, <2>4 DEF Linked
  <2>5. ASSUME NEW u \in Task, pc'[u] = "connect"
        PROVE  /\ sock'[u] # current /\ status[sock'[u]] # "closing"
               /\ \A v \in Task \ {u} : sock'[v] # sock'[u]
    <3>1. u # t /\ pc[u] = "connect" /\ sock'[u] = sock[u]
      BY <2>1, <2>2, <2>5
    <3>2. /\ sock[u] # current /\ status[sock[u]] # "closing" /\ sock[u] \in Client
          /\ \A v \in Task \ {u} : sock[v] # sock[u]
      BY <1>a, <3>1 DEF Linked
    <3> QED
      BY <2>2, <3>1, <3>2
  <2> QED
    BY <1>a, <2>2, <2>3, <2>4, <2>5 DEF Linked
<1>22. ASSUME NextPage
      PROVE  Linked'
  <2>1. PICK t \in Task :
          /\ t = job.owner /\ pc[t] = "recover" /\ t \notin todo
          /\ current \in Client /\ status[current] \in Up
    BY <1>22, PageOwner DEF NextPage
  <2>2. /\ \A u \in Task \ {t} : pc'[u] = pc[u] /\ sock'[u] = sock[u]
        /\ pc'[t] = "recover" /\ sock'[t] = current
        /\ UNCHANGED <<status, down, current>>
    BY <1>a, <1>22, <2>1 DEF NextPage
  <2>3. ASSUME NEW u \in Task, pc'[u] \in {"connect", "recover", "resolve", "wire"}
        PROVE  sock'[u] \in Client
    BY <1>a, <2>1, <2>2, <2>3 DEF Linked
  <2>4. ASSUME NEW u \in Task, pc'[u] \in {"recover", "resolve", "wire"}
        PROVE  current # None /\ status[sock'[u]] \in Up
    BY <1>a, <2>1, <2>2, <2>4 DEF Linked
  <2>5. ASSUME NEW u \in Task, pc'[u] = "connect"
        PROVE  /\ sock'[u] # current /\ status[sock'[u]] # "closing"
               /\ \A v \in Task \ {u} : sock'[v] # sock'[u]
    <3>1. u # t /\ pc[u] = "connect" /\ sock'[u] = sock[u]
      BY <2>1, <2>2, <2>5
    <3>2. /\ sock[u] # current /\ status[sock[u]] # "closing" /\ sock[u] \in Client
          /\ \A v \in Task \ {u} : sock[v] # sock[u]
      BY <1>a, <3>1 DEF Linked
    <3> QED
      BY <2>2, <3>1, <3>2
  <2> QED
    BY <1>a, <2>2, <2>3, <2>4, <2>5 DEF Linked
<1>23. ASSUME NEW t \in Task, RelayJoins(t)
      PROVE  Linked'
  BY <1>23, <1>a DEF RelayJoins, Push, Reply, Linked, Up
<1>24. ASSUME NEW t \in Task, RelayRefusesJoin(t)
      PROVE  Linked'
  BY <1>24, <1>a DEF RelayRefusesJoin, Push, Reply, Linked, Up
<1>25. ASSUME NEW t \in Task, RelayAccepts(t)
      PROVE  Linked'
  BY <1>25, <1>a DEF RelayAccepts, Served, Push, Reply, Linked, Up
<1>26. ASSUME NEW t \in Task, RelayRefuses(t)
      PROVE  Linked'
  BY <1>26, <1>a DEF RelayRefuses, Served, Push, Reply, Linked, Up
<1>27. ASSUME NEW t \in Task, RelayLists(t)
      PROVE  Linked'
  BY <1>27, <1>a DEF RelayLists, Served, Push, Linked, Up
<1>28. ASSUME NEW e \in Envelope, RelayDelivers(e)
      PROVE  Linked'
  BY <1>28, <1>a DEF RelayDelivers, Linked, Up
<1>29. ASSUME NEW t \in Task, ConnectFails(t)
      PROVE  Linked'
  BY <1>29, <1>a DEF ConnectFails, ConnectThrows, Linked, Up
<1>30. ASSUME NEW c \in Client, Drop(c)
      PROVE  Linked'
  BY <1>30, <1>a DEF Drop, Gone, Linked, Up
<1>31. ASSUME NEW c \in Client, CloseCompletes(c)
      PROVE  Linked'
  BY <1>31, <1>a DEF CloseCompletes, Gone, Linked, Up
<1>32. ASSUME Crash
      PROVE  Linked'
  BY <1>32, <1>a DEF Crash, NoJob, Linked, Up
<1>33. CASE UNCHANGED vars
  BY <1>33, <1>a DEF Linked, Up, vars
<1> QED
  BY <1>1, <1>2, <1>3, <1>4, <1>5, <1>6, <1>7, <1>8, <1>9, <1>10, <1>11, <1>12,
     <1>13, <1>14, <1>15, <1>16, <1>17, <1>18, <1>19, <1>20, <1>21, <1>22, <1>23,
     <1>24, <1>25, <1>26, <1>27, <1>28, <1>29, <1>30, <1>31, <1>32, <1>33
     DEF Next, Sends, Keeps, Handles, Observes, Relays, Fails

\* Every step leaves the relay with requests of tasks that await.
LEMMA AsksStep == AwaitInv /\ [Next]_vars => Asks'
<1> SUFFICES ASSUME AwaitInv, [Next]_vars PROVE Asks'
  OBVIOUS
<1> USE ConstantAssumption DEF Task, db, relay, net, tasks, loop, hist, caps
<1>a. /\ Linked /\ Asks /\ Replies /\ Comes /\ JobStage
      /\ status \in [Client -> Sockets] /\ down \in [Client -> Seq(Frame)]
      /\ pc \in [Task -> Labels] /\ sock \in [Task -> Client \cup {None}]
      /\ current \in Client \cup {None} /\ job \in Job /\ todo \subseteq Task
  BY DEF AwaitInv, IInv, TypeOK
<1>1. ASSUME NEW s \in Sender, NEW e \in Envelope, SendFromOutbox(s, e)
      PROVE  Asks'
  BY <1>1, <1>a DEF SendFromOutbox, Call, Asks
<1>2. ASSUME NEW s \in Sender, NEW e \in Envelope, SendConnected(s, e)
      PROVE  Asks'
  BY <1>2, <1>a DEF SendConnected, Call, InsertPending, Connected, Asks
<1>3. ASSUME NEW s \in Sender, NEW e \in Envelope, SendReconnects(s, e)
      PROVE  Asks'
  <2>1. \A u \in Task \ {s} : pc'[u] = pc[u]
    BY <1>a, <1>3 DEF SendReconnects, OpenClient
  <2>2. pc[s] = "idle" /\ UNCHANGED <<todo, job>>
    BY <1>3 DEF SendReconnects, Call, OpenClient
  <2> QED
    BY <1>a, <2>1, <2>2 DEF Asks
<1>4. ASSUME NEW s \in Sender, SendOnWire(s)
      PROVE  Asks'
  <2>1. s \in Task /\ pc[s] = "resolve" /\ pc' = [pc EXCEPT ![s] = "wire"]
    BY <1>4 DEF SendOnWire
  <2>2. todo' \subseteq todo \cup {s} /\ job' = job
    BY <1>4 DEF SendOnWire, Ask
  <2>3. job.owner # s
    BY <1>a, <2>1 DEF JobStage
  <2> QED
    BY <1>a, <2>1, <2>2, <2>3 DEF Asks
<1>5. ASSUME NEW s \in Sender, ResolveFails(s)
      PROVE  Asks'
  BY <1>5, <1>a DEF ResolveFails, Settle, Asks
<1>6. ASSUME EnsureReady
      PROVE  Asks'
  BY <1>6, <1>a DEF EnsureReady, OpenClient, Free, Asks
<1>7. ASSUME KeeperReconnects
      PROVE  Asks'
  BY <1>7, <1>a DEF KeeperReconnects, OpenClient, Free, Asks
<1>8. ASSUME KeeperWakes
      PROVE  Asks'
  BY <1>8, <1>a DEF KeeperWakes, Asks
<1>9. ASSUME NEW c \in Client, HandleJoin(c)
      PROVE  Asks'
  <2>1. Arrives(c, "join") /\ Awaited(c, Head(down[c]).task, "connect")
    BY <1>9 DEF HandleJoin
  <2> DEFINE t == Head(down[c]).task
  <2>2. /\ t \in Task /\ pc[t] = "connect" /\ sock[t] = c /\ t \notin todo
        /\ job.owner = None /\ status[c] = "open"
    BY <2>1, HeadAnswers
  <2>3. pc' = [pc EXCEPT ![t] = "recover"] /\ todo' \subseteq todo \cup {t} /\ job' = job
    BY <1>9, <2>2 DEF HandleJoin, Ask
  <2> QED
    BY <1>a, <2>2, <2>3 DEF Asks
<1>10. ASSUME NEW c \in Client, HandleJoinNack(c)
      PROVE  Asks'
  <2>1. Arrives(c, "nack") /\ Awaited(c, Head(down[c]).task, "connect")
    BY <1>10 DEF HandleJoinNack
  <2> DEFINE t == Head(down[c]).task
  <2>2. /\ t \in Task /\ pc[t] = "connect" /\ sock[t] = c /\ t \notin todo
        /\ job.owner = None
    BY <2>1, HeadAnswers
  <2>3. \A u \in Task \ {t} : pc'[u] = pc[u]
    BY <1>a, <1>10, <2>2 DEF HandleJoinNack, ConnectThrows
  <2>4. UNCHANGED <<todo, job>>
    BY <1>10 DEF HandleJoinNack
  <2> QED
    BY <1>a, <2>2, <2>3, <2>4 DEF Asks
<1>11. ASSUME NEW c \in Client, HandleAck(c)
      PROVE  Asks'
  <2>1. Arrives(c, "ack") /\ Awaited(c, Head(down[c]).task, "wire")
    BY <1>11 DEF HandleAck
  <2> DEFINE t == Head(down[c]).task
  <2>2. /\ t \in Task /\ pc[t] = "wire" /\ sock[t] = c /\ t \notin todo
        /\ job.owner = None
    BY <2>1, HeadAnswers
  <2>3. \A u \in Task \ {t} : pc'[u] = pc[u]
    BY <1>a, <1>11, <2>2 DEF HandleAck, Settle
  <2>4. UNCHANGED <<todo, job>>
    BY <1>11 DEF HandleAck
  <2> QED
    BY <1>a, <2>2, <2>3, <2>4 DEF Asks
<1>12. ASSUME NEW c \in Client, HandleSendNack(c)
      PROVE  Asks'
  <2>1. Arrives(c, "nack") /\ Awaited(c, Head(down[c]).task, "wire")
    BY <1>12 DEF HandleSendNack
  <2> DEFINE t == Head(down[c]).task
  <2>2. /\ t \in Task /\ pc[t] = "wire" /\ sock[t] = c /\ t \notin todo
        /\ job.owner = None
    BY <2>1, HeadAnswers
  <2>3. \A u \in Task \ {t} : pc'[u] = pc[u]
    BY <1>a, <1>12, <2>2 DEF HandleSendNack, Settle
  <2>4. UNCHANGED <<todo, job>>
    BY <1>12 DEF HandleSendNack
  <2> QED
    BY <1>a, <2>2, <2>3, <2>4 DEF Asks
<1>13. ASSUME NEW c \in Client, HandleListNack(c)
      PROVE  Asks'
  <2>1. Arrives(c, "nack") /\ Awaited(c, Head(down[c]).task, "recover")
    BY <1>13 DEF HandleListNack
  <2> DEFINE t == Head(down[c]).task
  <2>2. /\ t \in Task /\ pc[t] = "recover" /\ sock[t] = c /\ t \notin todo
        /\ job.owner = None
    BY <2>1, HeadAnswers
  <2>3. \A u \in Task \ {t} : pc'[u] = pc[u]
    BY <1>a, <1>13, <2>2 DEF HandleListNack, ConnectThrows
  <2>4. UNCHANGED <<todo, job>>
    BY <1>13 DEF HandleListNack
  <2> QED
    BY <1>a, <2>2, <2>3, <2>4 DEF Asks
<1>14. ASSUME NEW c \in Client, HandlePage(c)
      PROVE  Asks'
  <2>1. Arrives(c, "page") /\ Awaited(c, Head(down[c]).task, "recover")
    BY <1>14 DEF HandlePage
  <2> DEFINE t == Head(down[c]).task
  <2>2. /\ t \in Task /\ pc[t] = "recover" /\ sock[t] = c /\ t \notin todo
        /\ job.owner = None
    BY <2>1, HeadAnswers
  <2>3. job'.owner = t /\ UNCHANGED <<todo, pc>>
    BY <1>14, <2>2 DEF HandlePage
  <2> QED
    BY <1>a, <2>2, <2>3 DEF Asks
<1>15. ASSUME NEW c \in Client, HandleReceipt(c)
      PROVE  Asks'
  BY <1>15, <1>a DEF HandleReceipt, Arrives, Asks
<1>16. ASSUME SkipKnown
      PROVE  Asks'
  BY <1>16, <1>a DEF SkipKnown, Observing, NextReceipt, NoJob, Asks
<1>17. ASSUME UpsertReceipt
      PROVE  Asks'
  BY <1>17, <1>a DEF UpsertReceipt, Observing, Asks
<1>18. ASSUME MarkOutboxDelivered
      PROVE  Asks'
  BY <1>18, <1>a DEF MarkOutboxDelivered, Observing, Asks
<1>19. ASSUME InsertSidecarEvent
      PROVE  Asks'
  BY <1>19, <1>a DEF InsertSidecarEvent, Observing, Asks
<1>20. ASSUME UpdateReceiptCursor
      PROVE  Asks'
  BY <1>20, <1>a DEF UpdateReceiptCursor, Observing, NextReceipt, NoJob, Asks
<1>21. ASSUME RecoveryEnds
      PROVE  Asks'
  <2>1. PICK t \in Task :
          /\ t = job.owner /\ pc[t] = "recover" /\ t \notin todo
          /\ current \in Client /\ status[current] \in Up
    BY <1>21, PageOwner DEF RecoveryEnds
  <2>2. \A u \in Task \ {t} : pc'[u] = pc[u]
    BY <1>a, <1>21, <2>1 DEF RecoveryEnds, ConnectReturns
  <2>3. todo' = todo /\ job'.owner = None
    BY <1>21 DEF RecoveryEnds, NoJob
  <2> QED
    BY <1>a, <2>1, <2>2, <2>3 DEF Asks
<1>22. ASSUME NextPage
      PROVE  Asks'
  <2>1. PICK t \in Task :
          /\ t = job.owner /\ pc[t] = "recover" /\ t \notin todo
          /\ current \in Client /\ status[current] \in Up
    BY <1>22, PageOwner DEF NextPage
  <2>2. pc' = pc /\ todo' \subseteq todo \cup {t} /\ job'.owner = None
    BY <1>22, <2>1 DEF NextPage, NoJob, Ask
  <2> QED
    BY <1>a, <2>1, <2>2 DEF Asks
<1>23. ASSUME NEW t \in Task, RelayJoins(t)
      PROVE  Asks'
  BY <1>23, <1>a DEF RelayJoins, Push, Reply, Asks
<1>24. ASSUME NEW t \in Task, RelayRefusesJoin(t)
      PROVE  Asks'
  BY <1>24, <1>a DEF RelayRefusesJoin, Push, Reply, Asks
<1>25. ASSUME NEW t \in Task, RelayAccepts(t)
      PROVE  Asks'
  BY <1>25, <1>a DEF RelayAccepts, Served, Push, Reply, Asks
<1>26. ASSUME NEW t \in Task, RelayRefuses(t)
      PROVE  Asks'
  BY <1>26, <1>a DEF RelayRefuses, Served, Push, Reply, Asks
<1>27. ASSUME NEW t \in Task, RelayLists(t)
      PROVE  Asks'
  BY <1>27, <1>a DEF RelayLists, Served, Push, Asks
<1>28. ASSUME NEW e \in Envelope, RelayDelivers(e)
      PROVE  Asks'
  BY <1>28, <1>a DEF RelayDelivers, Asks
<1>29. ASSUME NEW t \in Task, ConnectFails(t)
      PROVE  Asks'
  BY <1>29, <1>a DEF ConnectFails, ConnectThrows, Asks
<1>30. ASSUME NEW c \in Client, Drop(c)
      PROVE  Asks'
  BY <1>30, <1>a DEF Drop, Gone, Asks
<1>31. ASSUME NEW c \in Client, CloseCompletes(c)
      PROVE  Asks'
  BY <1>31, <1>a DEF CloseCompletes, Gone, Asks
<1>32. ASSUME Crash
      PROVE  Asks'
  BY <1>32, <1>a DEF Crash, NoJob, Asks
<1>33. CASE UNCHANGED vars
  BY <1>33, <1>a DEF Asks, vars
<1> QED
  BY <1>1, <1>2, <1>3, <1>4, <1>5, <1>6, <1>7, <1>8, <1>9, <1>10, <1>11, <1>12,
     <1>13, <1>14, <1>15, <1>16, <1>17, <1>18, <1>19, <1>20, <1>21, <1>22, <1>23,
     <1>24, <1>25, <1>26, <1>27, <1>28, <1>29, <1>30, <1>31, <1>32, <1>33
     DEF Next, Sends, Keeps, Handles, Observes, Relays, Fails

\* A step that moves task t, gets it no reply and takes no frame.
LEMMA RepliesMoved ==
  ASSUME AwaitInv, NEW t, t \in Task => Silent(t), Others(t), UNCHANGED <<status, down>>
  PROVE  Replies'
<1>1. Shorter(t)
  BY ShorterSame DEF AwaitInv, IInv
<1>2. \A c \in Client : \A i \in 1..Len(down'[c]) :
        down'[c][i].kind = "join" /\ status[c] = "open" => status'[c] = "open"
  OBVIOUS
<1> QED
  BY <1>1, <1>2, RepliesShorter DEF AwaitInv

\* No task that gets its join replied is on the client in use.
LEMMA NoJoinOnCurrent ==
  ASSUME AwaitInv, NEW i \in 1..Len(down[current]), current \in Client
  PROVE  down[current][i].kind # "join"
<1> SUFFICES ASSUME down[current][i].kind = "join"
             PROVE  FALSE
  OBVIOUS
<1> DEFINE t == down[current][i].task
<1>1. t \in Task /\ sock[t] = current /\ Fits("join", pc[t])
  BY DEF AwaitInv, Replies, Answers
<1>2. pc[t] = "connect"
  BY <1>1 DEF Fits
<1> QED
  BY <1>1, <1>2 DEF AwaitInv, Linked

\* connectClient up to its await.
LEMMA RepliesOpened ==
  ASSUME AwaitInv, NEW t \in Task, OpenClient(t), ~Awaiting(t), job' = job
  PROVE  Replies'
<1>1. PICK c \in Client :
        /\ Free(c)
        /\ status' = [d \in Client |->
                    IF d = c THEN "connecting"
                    ELSE IF d = current /\ status[d] = "open" THEN "closing"
                    ELSE status[d]]
        /\ sock' = [sock EXCEPT ![t] = c]
        /\ pc' = [pc EXCEPT ![t] = "connect"]
        /\ UNCHANGED <<down, todo>>
  BY DEF OpenClient
<1>2. Silent(t)
  BY SilentIf DEF AwaitInv
<1>3. Shorter(t)
  BY <1>1, <1>2, ShorterSame DEF AwaitInv, IInv
<1>4. Others(t)
  BY <1>1 DEF Others, AwaitInv, IInv, TypeOK
<1>5. ASSUME NEW d \in Client, NEW i \in 1..Len(down'[d]), down'[d][i].kind = "join",
             status[d] = "open"
      PROVE  status'[d] = "open"
  <2>1. d # current
    BY <1>1, <1>5, NoJoinOnCurrent
  <2>2. d # c
    BY <1>1, <1>5 DEF Free
  <2> QED
    BY <1>1, <1>5, <2>1, <2>2
<1> QED
  BY <1>3, <1>4, <1>5, RepliesShorter DEF AwaitInv

\* A reply is handled: its task goes on, the others stay.
LEMMA RepliesHandled ==
  ASSUME AwaitInv, NEW c \in Client, NEW kind, Arrives(c, kind), status' = status,
         Others(Head(down[c]).task)
  PROVE  Replies'
<1>1. Shorter(Head(down[c]).task)
  BY ShorterPopped DEF AwaitInv
<1> QED
  BY <1>1, RepliesShorter DEF AwaitInv

\* Every step keeps the replies in order.
LEMMA RepliesStep == AwaitInv /\ [Next]_vars => Replies'
<1> SUFFICES ASSUME AwaitInv, [Next]_vars PROVE Replies'
  OBVIOUS
<1> USE ConstantAssumption DEF Task, db, relay, net, tasks, loop, hist, caps
<1>a. /\ IInv /\ TypeOK /\ Linked /\ Asks /\ Replies /\ Comes /\ JobStage
      /\ status \in [Client -> Sockets] /\ down \in [Client -> Seq(Frame)]
      /\ pc \in [Task -> Labels] /\ sock \in [Task -> Client \cup {None}]
      /\ current \in Client \cup {None} /\ job \in Job /\ todo \subseteq Task
  BY DEF AwaitInv, IInv, TypeOK
<1>1. ASSUME NEW s \in Sender, NEW e \in Envelope, SendFromOutbox(s, e)
      PROVE  Replies'
  <2>1. Others(None) /\ UNCHANGED <<status, down>>
    BY <1>1, <1>a DEF SendFromOutbox, Others
  <2> QED
    BY <2>1, RepliesMoved
<1>2. ASSUME NEW s \in Sender, NEW e \in Envelope, SendConnected(s, e)
      PROVE  Replies'
  <2>1. Silent(s)
    BY <1>2, <1>a, SilentIf DEF SendConnected, Call, Awaiting
  <2>2. Others(s) /\ UNCHANGED <<status, down>>
    BY <1>2, <1>a DEF SendConnected, Others
  <2> QED
    BY <2>1, <2>2, RepliesMoved
<1>3. ASSUME NEW s \in Sender, NEW e \in Envelope, SendReconnects(s, e)
      PROVE  Replies'
  <2>1. OpenClient(s) /\ ~Awaiting(s) /\ job' = job
    BY <1>3 DEF SendReconnects, Call, Awaiting
  <2> QED
    BY <2>1, RepliesOpened
<1>4. ASSUME NEW s \in Sender, SendOnWire(s)
      PROVE  Replies'
  <2>1. Silent(s)
    BY <1>4, <1>a, SilentIf DEF SendOnWire, Awaiting
  <2>2. Others(s) /\ UNCHANGED <<status, down>>
    BY <1>4, <1>a DEF SendOnWire, Ask, Others
  <2> QED
    BY <2>1, <2>2, RepliesMoved
<1>5. ASSUME NEW s \in Sender, ResolveFails(s)
      PROVE  Replies'
  <2>1. Silent(s)
    BY <1>5, <1>a, SilentIf DEF ResolveFails, Awaiting
  <2>2. Others(s) /\ UNCHANGED <<status, down>>
    BY <1>5, <1>a DEF ResolveFails, Settle, Others
  <2> QED
    BY <2>1, <2>2, RepliesMoved
<1>6. ASSUME EnsureReady
      PROVE  Replies'
  <2>1. OpenClient(Main) /\ ~Awaiting(Main) /\ job' = job
    BY <1>6 DEF EnsureReady, Awaiting
  <2> QED
    BY <2>1, RepliesOpened
<1>7. ASSUME KeeperReconnects
      PROVE  Replies'
  <2>1. OpenClient(Main) /\ ~Awaiting(Main) /\ job' = job
    BY <1>7 DEF KeeperReconnects, Awaiting
  <2> QED
    BY <2>1, RepliesOpened
<1>8. ASSUME KeeperWakes
      PROVE  Replies'
  <2>1. Silent(Main)
    BY <1>8, <1>a, SilentIf DEF KeeperWakes, Awaiting
  <2>2. Others(Main) /\ UNCHANGED <<status, down>>
    BY <1>8, <1>a DEF KeeperWakes, Others
  <2> QED
    BY <2>1, <2>2, RepliesMoved
<1>9. ASSUME NEW c \in Client, HandleJoin(c)
      PROVE  Replies'
  <2>1. Arrives(c, "join") /\ Awaited(c, Head(down[c]).task, "connect")
    BY <1>9 DEF HandleJoin
  <2> DEFINE t == Head(down[c]).task
  <2>2. t \in Task /\ job.owner = None
    BY <2>1, HeadAnswers
  <2>3. Others(t) /\ status' = status
    BY <1>9, <1>a, <2>2 DEF HandleJoin, Ask, Others
  <2> QED
    BY <2>1, <2>3, RepliesHandled
<1>10. ASSUME NEW c \in Client, HandleJoinNack(c)
      PROVE  Replies'
  <2>1. Arrives(c, "nack") /\ Awaited(c, Head(down[c]).task, "connect")
    BY <1>10 DEF HandleJoinNack
  <2> DEFINE t == Head(down[c]).task
  <2>2. t \in Task /\ job.owner = None
    BY <2>1, HeadAnswers
  <2>3. Others(t) /\ status' = status
    BY <1>10, <1>a, <2>2 DEF HandleJoinNack, ConnectThrows, Others
  <2> QED
    BY <2>1, <2>3, RepliesHandled
<1>11. ASSUME NEW c \in Client, HandleAck(c)
      PROVE  Replies'
  <2>1. Arrives(c, "ack") /\ Awaited(c, Head(down[c]).task, "wire")
    BY <1>11 DEF HandleAck
  <2> DEFINE t == Head(down[c]).task
  <2>2. t \in Task /\ job.owner = None
    BY <2>1, HeadAnswers
  <2>3. Others(t) /\ status' = status
    BY <1>11, <1>a, <2>2 DEF HandleAck, Settle, Others
  <2> QED
    BY <2>1, <2>3, RepliesHandled
<1>12. ASSUME NEW c \in Client, HandleSendNack(c)
      PROVE  Replies'
  <2>1. Arrives(c, "nack") /\ Awaited(c, Head(down[c]).task, "wire")
    BY <1>12 DEF HandleSendNack
  <2> DEFINE t == Head(down[c]).task
  <2>2. t \in Task /\ job.owner = None
    BY <2>1, HeadAnswers
  <2>3. Others(t) /\ status' = status
    BY <1>12, <1>a, <2>2 DEF HandleSendNack, Settle, Others
  <2> QED
    BY <2>1, <2>3, RepliesHandled
<1>13. ASSUME NEW c \in Client, HandleListNack(c)
      PROVE  Replies'
  <2>1. Arrives(c, "nack") /\ Awaited(c, Head(down[c]).task, "recover")
    BY <1>13 DEF HandleListNack
  <2> DEFINE t == Head(down[c]).task
  <2>2. t \in Task /\ job.owner = None
    BY <2>1, HeadAnswers
  <2>3. Others(t) /\ status' = status
    BY <1>13, <1>a, <2>2 DEF HandleListNack, ConnectThrows, Others
  <2> QED
    BY <2>1, <2>3, RepliesHandled
<1>14. ASSUME NEW c \in Client, HandlePage(c)
      PROVE  Replies'
  <2>1. Arrives(c, "page") /\ Awaited(c, Head(down[c]).task, "recover")
    BY <1>14 DEF HandlePage
  <2> DEFINE t == Head(down[c]).task
  <2>2. t \in Task /\ job.owner = None
    BY <2>1, HeadAnswers
  <2>3. Others(t) /\ status' = status
    BY <1>14, <1>a, <2>2 DEF HandlePage, Others
  <2> QED
    BY <2>1, <2>3, RepliesHandled
<1>15. ASSUME NEW c \in Client, HandleReceipt(c)
      PROVE  Replies'
  <2>1. Arrives(c, "receipt") /\ Others(Head(down[c]).task) /\ status' = status
    BY <1>15 DEF HandleReceipt, Others
  <2> QED
    BY <2>1, RepliesHandled
<1>16. ASSUME SkipKnown
      PROVE  Replies'
  <2>1. Others(None) /\ UNCHANGED <<status, down>>
    BY <1>16, <1>a DEF SkipKnown, NextReceipt, NoJob, Job, Others
  <2> QED
    BY <2>1, RepliesMoved
<1>17. ASSUME UpsertReceipt
      PROVE  Replies'
  <2>1. Others(None) /\ UNCHANGED <<status, down>>
    BY <1>17, <1>a DEF UpsertReceipt, Job, Others
  <2> QED
    BY <2>1, RepliesMoved
<1>18. ASSUME MarkOutboxDelivered
      PROVE  Replies'
  <2>1. Others(None) /\ UNCHANGED <<status, down>>
    BY <1>18, <1>a DEF MarkOutboxDelivered, Job, Others
  <2> QED
    BY <2>1, RepliesMoved
<1>19. ASSUME InsertSidecarEvent
      PROVE  Replies'
  <2>1. Others(None) /\ UNCHANGED <<status, down>>
    BY <1>19, <1>a DEF InsertSidecarEvent, Job, Others
  <2> QED
    BY <2>1, RepliesMoved
<1>20. ASSUME UpdateReceiptCursor
      PROVE  Replies'
  <2>1. Others(None) /\ UNCHANGED <<status, down>>
    BY <1>20, <1>a DEF UpdateReceiptCursor, NextReceipt, NoJob, Job, Others
  <2> QED
    BY <2>1, RepliesMoved
<1>21. ASSUME RecoveryEnds
      PROVE  Replies'
  <2>1. PICK t \in Task : t = job.owner /\ Silent(t)
    BY <1>21, PageOwner DEF RecoveryEnds
  <2>2. Others(t) /\ UNCHANGED <<status, down>>
    BY <1>21, <1>a, <2>1 DEF RecoveryEnds, ConnectReturns, NoJob, Others
  <2> QED
    BY <2>1, <2>2, RepliesMoved
<1>22. ASSUME NextPage
      PROVE  Replies'
  <2>1. PICK t \in Task : t = job.owner /\ Silent(t)
    BY <1>22, PageOwner DEF NextPage
  <2>2. Others(t) /\ UNCHANGED <<status, down>>
    BY <1>22, <1>a, <2>1 DEF NextPage, Ask, NoJob, Others
  <2> QED
    BY <2>1, <2>2, RepliesMoved
<1>23. ASSUME NEW t \in Task, RelayJoins(t)
      PROVE  Replies'
  <2>1. /\ pc[t] = "connect" /\ status[sock[t]] = "connecting" /\ Push(sock[t], Reply("join", t))
        /\ status' = [status EXCEPT ![sock[t]] = "open"] /\ UNCHANGED <<todo, pc, sock, job>>
    BY <1>23 DEF RelayJoins
  <2>2. Reply("join", t) \in Frame /\ Reply("join", t).task = t /\ Reply("join", t).kind = "join"
    BY <1>a, ReplyType DEF Reply, Msg
  <2>3. sock[t] \in Client /\ Silent(t) /\ job.owner # t /\ t \notin todo /\ Fits("join", pc[t])
    BY <1>a, <2>1, SilentIf DEF Linked, Asks, JobStage, Fits
  <2>4. \A c \in Client : status[c] = "open" => status'[c] = "open"
    BY <1>a, <2>1
  <2>5. status'[sock[t]] = "open"
    BY <1>a, <2>1, <2>3
  <2> QED
    BY <1>a, <2>1, <2>2, <2>3, <2>4, <2>5, RepliesPushed
<1>24. ASSUME NEW t \in Task, RelayRefusesJoin(t)
      PROVE  Replies'
  <2>1. /\ pc[t] = "connect" /\ status[sock[t]] = "connecting" /\ Push(sock[t], Reply("nack", t))
        /\ status' = [status EXCEPT ![sock[t]] = "refused"] /\ UNCHANGED <<todo, pc, sock, job>>
    BY <1>24 DEF RelayRefusesJoin
  <2>2. Reply("nack", t) \in Frame /\ Reply("nack", t).task = t /\ Reply("nack", t).kind = "nack"
    BY <1>a, ReplyType DEF Reply, Msg
  <2>3. sock[t] \in Client /\ Silent(t) /\ job.owner # t /\ t \notin todo /\ Fits("nack", pc[t])
    BY <1>a, <2>1, SilentIf DEF Linked, Asks, JobStage, Fits
  <2>4. \A c \in Client : status[c] = "open" => status'[c] = "open"
    BY <1>a, <2>1
  <2>5. "nack" # "join"
    BY <1>a, <2>1, <2>3
  <2> QED
    BY <1>a, <2>1, <2>2, <2>3, <2>4, <2>5, RepliesPushed
<1>25. ASSUME NEW t \in Task, RelayAccepts(t)
      PROVE  Replies'
  <2>1. /\ t \in todo /\ pc[t] \in {"wire"} /\ todo' = todo \ {t}
        /\ Push(sock[t], Reply("ack", t)) /\ UNCHANGED <<status, pc, sock, job>>
    BY <1>25 DEF RelayAccepts, Served
  <2>2. Reply("ack", t) \in Frame /\ Reply("ack", t).task = t /\ Reply("ack", t).kind = "ack"
    BY <1>a, ReplyType DEF Reply, Msg
  <2>3. sock[t] \in Client /\ Silent(t) /\ job.owner # t /\ Fits("ack", pc[t])
    BY <1>a, <2>1, SilentIf DEF Linked, Asks, Fits
  <2>4. t \notin todo' /\ todo' \subseteq todo
    BY <2>1
  <2> QED
    BY <1>a, <2>1, <2>2, <2>3, <2>4, RepliesPushed
<1>26. ASSUME NEW t \in Task, RelayRefuses(t)
      PROVE  Replies'
  <2>1. /\ t \in todo /\ pc[t] \in {"wire", "recover"} /\ todo' = todo \ {t}
        /\ Push(sock[t], Reply("nack", t)) /\ UNCHANGED <<status, pc, sock, job>>
    BY <1>26 DEF RelayRefuses, Served
  <2>2. Reply("nack", t) \in Frame /\ Reply("nack", t).task = t /\ Reply("nack", t).kind = "nack"
    BY <1>a, ReplyType DEF Reply, Msg
  <2>3. sock[t] \in Client /\ Silent(t) /\ job.owner # t /\ Fits("nack", pc[t])
    BY <1>a, <2>1, SilentIf DEF Linked, Asks, Fits
  <2>4. t \notin todo' /\ todo' \subseteq todo
    BY <2>1
  <2> QED
    BY <1>a, <2>1, <2>2, <2>3, <2>4, RepliesPushed
<1>27. ASSUME NEW t \in Task, RelayLists(t)
      PROVE  Replies'
  <2>1. t \in todo /\ pc[t] = "recover" /\ todo' = todo \ {t} /\ UNCHANGED <<status, pc, sock, job>>
    BY <1>27 DEF RelayLists, Served
  <2>2. PICK f \in Frame : f.kind = "page" /\ f.task = t /\ Push(sock[t], f)
    BY <1>27, <1>a, ListType
  <2>3. sock[t] \in Client /\ Silent(t) /\ job.owner # t /\ Fits("page", pc[t])
    BY <1>a, <2>1, SilentIf DEF Linked, Asks, Fits
  <2>4. t \notin todo' /\ todo' \subseteq todo
    BY <2>1
  <2> QED
    BY <1>a, <2>1, <2>2, <2>3, <2>4, RepliesPushed
<1>28. ASSUME NEW e \in Envelope, RelayDelivers(e)
      PROVE  Replies'
  BY <1>28, <1>a, RepliesDelivered
<1>29. ASSUME NEW t \in Task, ConnectFails(t)
      PROVE  Replies'
  <2>1. /\ pc[t] = "connect" /\ status[sock[t]] = "connecting" /\ sock[t] \in Client
        /\ status' = [status EXCEPT ![sock[t]] = "closed"] /\ UNCHANGED <<down, todo, job>>
    BY <1>29, <1>a DEF ConnectFails, Linked
  <2>2. Silent(t) /\ Shorter(t)
    BY <1>a, <2>1, SilentIf, ShorterSame
  <2>3. Others(t)
    BY <1>29, <1>a, <2>1 DEF ConnectFails, ConnectThrows, Others
  <2>4. \A c \in Client : status[c] = "open" => status'[c] = "open"
    BY <1>a, <2>1
  <2> QED
    BY <1>a, <2>2, <2>3, <2>4, RepliesShorter
<1>30. ASSUME NEW c \in Client, Drop(c)
      PROVE  Replies'
  <2>1. /\ status' = [status EXCEPT ![c] = "closed"] /\ down' = [down EXCEPT ![c] = <<>>]
        /\ todo' \subseteq todo /\ UNCHANGED <<pc, sock, job>>
    BY <1>30 DEF Drop, Gone
  <2>2. /\ \A d \in Client : IF d = c THEN down'[d] = <<>>
                           ELSE down'[d] = down[d] /\ status'[d] = status[d]
    BY <1>a, <2>1
  <2>3. Shorter(None)
    BY <1>a, <2>2, ShorterGone
  <2>4. Others(None)
    BY <2>1 DEF Others
  <2>5. Len(down'[c]) = 0
    BY <2>2
  <2>6. \A d \in Client : \A i \in 1..Len(down'[d]) : status'[d] = status[d]
    BY <2>2, <2>5
  <2> QED
    BY <1>a, <2>3, <2>4, <2>6, RepliesShorter
<1>31. ASSUME NEW c \in Client, CloseCompletes(c)
      PROVE  Replies'
  <2>1. /\ status' = [status EXCEPT ![c] = "closed"] /\ down' = [down EXCEPT ![c] = <<>>]
        /\ todo' \subseteq todo /\ UNCHANGED <<pc, sock, job>>
    BY <1>31 DEF CloseCompletes, Gone
  <2>2. /\ \A d \in Client : IF d = c THEN down'[d] = <<>>
                           ELSE down'[d] = down[d] /\ status'[d] = status[d]
    BY <1>a, <2>1
  <2>3. Shorter(None)
    BY <1>a, <2>2, ShorterGone
  <2>4. Others(None)
    BY <2>1 DEF Others
  <2>5. Len(down'[c]) = 0
    BY <2>2
  <2>6. \A d \in Client : \A i \in 1..Len(down'[d]) : status'[d] = status[d]
    BY <2>2, <2>5
  <2> QED
    BY <1>a, <2>3, <2>4, <2>6, RepliesShorter
<1>32. ASSUME Crash
      PROVE  Replies'
  <2>1. \A c \in Client : down'[c] = <<>>
    BY <1>32 DEF Crash
  <2>2. \A c \in Client : Len(down'[c]) = 0
    BY <2>1
  <2> QED
    BY <2>2 DEF Replies
<1>33. CASE UNCHANGED vars
  BY <1>33, <1>a DEF Replies, Answers, vars
<1> QED
  BY <1>1, <1>2, <1>3, <1>4, <1>5, <1>6, <1>7, <1>8, <1>9, <1>10, <1>11, <1>12,
     <1>13, <1>14, <1>15, <1>16, <1>17, <1>18, <1>19, <1>20, <1>21, <1>22, <1>23,
     <1>24, <1>25, <1>26, <1>27, <1>28, <1>29, <1>30, <1>31, <1>32, <1>33
     DEF Next, Sends, Keeps, Handles, Observes, Relays, Fails

\* The task that moves goes on, or awaits what has just been asked for.
Goes(t) ==
  \/ pc'[t] \notin {"connect", "recover", "wire"} \/ t \in todo' \/ job'.owner = t
  \/ status'[sock'[t]] \in {"closing", "closed"}
  \/ pc'[t] = "connect" /\ status'[sock'[t]] = "connecting"

\* A task that does not move, and awaits, still does so for a reason.
Waits(u) ==
  /\ pc'[u] = pc[u] /\ sock'[u] = sock[u]
  /\ Awaiting(u) /\ sock[u] \in Client =>
       /\ Asked(u) => Asked(u)' \/ Replied(u)' \/ Cut(u)'
       /\ Replied(u) => Replied(u)' \/ Cut(u)'
       /\ job.owner = u => job'.owner = u
       /\ Cut(u) => Cut(u)'

\* A step that moves one task and lets the others wait forgets nobody.
LEMMA ComesKept ==
  ASSUME Linked, Comes, NEW t, t \in Task => Goes(t), \A u \in Task \ {t} : Waits(u)
  PROVE  Comes'
<1> SUFFICES ASSUME NEW u \in Task, Awaiting(u)'
             PROVE  Asked(u)' \/ Replied(u)' \/ job'.owner = u \/ Cut(u)'
  BY DEF Comes
<1>1. CASE u = t
  BY <1>1 DEF Goes, Awaiting, Asked, Cut
<1>2. CASE u # t
  <2>1. Waits(u) /\ Awaiting(u)
    BY <1>2 DEF Waits, Awaiting
  <2>2. sock[u] \in Client
    BY <2>1 DEF Linked, Awaiting
  <2>3. Asked(u) \/ Replied(u) \/ job.owner = u \/ Cut(u)
    BY <2>1 DEF Comes
  <2> QED
    BY <2>1, <2>2, <2>3 DEF Waits
<1> QED
  BY <1>1, <1>2

\* A task on whose socket nothing happens.
LEMMA WaitsStill ==
  ASSUME NEW u \in Task, pc'[u] = pc[u], sock'[u] = sock[u],
         u \in todo => u \in todo', job.owner = u => job'.owner = u,
         sock[u] \in Client => status'[sock[u]] = status[sock[u]] /\ down'[sock[u]] = down[sock[u]]
  PROVE  Waits(u)
BY DEF Waits, Asked, Replied, Cut

\* A task while the reply of another is handled.
LEMMA WaitsHandled ==
  ASSUME AwaitInv, NEW c \in Client, NEW kind, Arrives(c, kind), status' = status,
         NEW u \in Task, u # Head(down[c]).task, pc'[u] = pc[u], sock'[u] = sock[u],
         u \in todo => u \in todo'
  PROVE  Waits(u)
<1>1. /\ Len(down[c]) \in Nat \ {0} /\ Head(down[c]) = down[c][1]
      /\ Len(down'[c]) = Len(down[c]) - 1
      /\ \A i \in 1..Len(down'[c]) : down'[c][i] = down[c][i + 1]
      /\ \A d \in Client : d # c => down'[d] = down[d]
  BY Popped DEF AwaitInv, IInv
<1>2. job.owner # u
  BY ConstantAssumption DEF Arrives, JsIdle, AwaitInv, IInv, JobStage
<1>3. ASSUME sock[u] = c, Replied(u)
      PROVE  Replied(u)'
  <2>1. PICK i \in 1..Len(down[c]) : down[c][i].task = u
    BY <1>3 DEF Replied
  <2>2. i # 1
    BY <1>1, <2>1
  <2>3. i - 1 \in 1..Len(down'[c]) /\ (i - 1) + 1 = i
    BY <1>1, <2>1, <2>2
  <2>4. down'[c][i - 1] = down[c][i]
    BY <1>1, <2>3
  <2> QED
    BY <1>3, <2>1, <2>3, <2>4 DEF Replied
<1>4. ASSUME sock[u] # c, Replied(u), sock[u] \in Client
      PROVE  Replied(u)'
  BY <1>1, <1>4 DEF Replied
<1> QED
  BY <1>2, <1>3, <1>4 DEF Waits, Asked, Cut

\* Frames that are added leave the replies that are there.
LEMMA RepliedMore ==
  ASSUME NEW u \in Task, Replied(u), sock'[u] = sock[u],
         Len(down[sock[u]]) \in Nat, Len(down'[sock[u]]) = Len(down[sock[u]]) + 1,
         \A i \in 1..Len(down[sock[u]]) : down'[sock[u]][i] = down[sock[u]][i]
  PROVE  Replied(u)'
<1>1. PICK i \in 1..Len(down[sock[u]]) : down[sock[u]][i].task = u
  BY DEF Replied
<1>2. i \in 1..Len(down'[sock[u]])
  BY <1>1
<1> QED
  BY <1>1, <1>2 DEF Replied

\* The relay replies to task t, and takes its request.
LEMMA ComesReplied ==
  ASSUME AwaitInv, NEW t \in Task, sock[t] \in Client, NEW f \in Frame, Push(sock[t], f),
         f.task = t, \A u \in todo : u # t => u \in todo', UNCHANGED <<pc, sock, job>>,
         \A d \in Client : d # sock[t] => status'[d] = status[d],
         \A u \in Task \ {t} : Awaiting(u) /\ sock[u] = sock[t] =>
           status'[sock[t]] = status[sock[t]]
  PROVE  Comes'
<1> DEFINE s == sock[t]
<1>1. /\ Len(down[s]) \in Nat /\ Len(down'[s]) = Len(down[s]) + 1
      /\ down'[s][Len(down[s]) + 1] = f
      /\ \A i \in 1..Len(down[s]) : down'[s][i] = down[s][i]
      /\ \A d \in Client : d # s => down'[d] = down[d]
  BY Pushed DEF AwaitInv, IInv
<1>2. Len(down[s]) + 1 \in 1..Len(down'[s])
  BY <1>1
<1>3. Replied(t)'
  BY <1>1, <1>2 DEF Replied
<1>4. ASSUME NEW u \in Task \ {t}, Awaiting(u)
      PROVE  Asked(u)' \/ Replied(u)' \/ job'.owner = u \/ Cut(u)'
  <2>1. sock[u] \in Client /\ (Asked(u) \/ Replied(u) \/ job.owner = u \/ Cut(u))
    BY <1>4 DEF AwaitInv, Linked, Comes, Awaiting
  <2>2. status'[sock[u]] = status[sock[u]]
    BY <1>4, <2>1
  <2>3. Replied(u) => Replied(u)'
    <3>1. CASE sock[u] = s
      BY <1>1, <3>1, RepliedMore
    <3>2. CASE sock[u] # s
      BY <1>1, <2>1, <3>2 DEF Replied
    <3> QED
      BY <3>1, <3>2
  <2> QED
    BY <2>1, <2>2, <2>3 DEF Asked, Cut
<1> QED
  BY <1>3, <1>4 DEF Comes, Awaiting

\* connectClient up to its await.
LEMMA ComesOpened ==
  ASSUME AwaitInv, NEW t \in Task, OpenClient(t), job' = job
  PROVE  Comes'
<1>1. PICK c \in Client :
        /\ Free(c)
        /\ status' = [d \in Client |->
                    IF d = c THEN "connecting"
                    ELSE IF d = current /\ status[d] = "open" THEN "closing"
                    ELSE status[d]]
        /\ sock' = [sock EXCEPT ![t] = c]
        /\ pc' = [pc EXCEPT ![t] = "connect"]
        /\ UNCHANGED <<down, todo>>
  BY DEF OpenClient
<1>2. Goes(t)
  BY <1>1 DEF Goes, AwaitInv, IInv, TypeOK
<1>3. ASSUME NEW u \in Task \ {t}
      PROVE  Waits(u)
  <2>1. sock[u] # c /\ pc'[u] = pc[u] /\ sock'[u] = sock[u]
    BY <1>1 DEF Free, AwaitInv, IInv, TypeOK
  <2>2. sock[u] \in Client =>
          status'[sock[u]] = status[sock[u]] \/ status'[sock[u]] = "closing"
    BY <1>1, <2>1
  <2> QED
    BY <1>1, <2>1, <2>2 DEF Waits, Asked, Replied, Cut
<1> QED
  BY <1>2, <1>3, ComesKept DEF AwaitInv

\* Every step forgets no task that awaits.
LEMMA ComesStep == AwaitInv /\ [Next]_vars => Comes'
<1> SUFFICES ASSUME AwaitInv, [Next]_vars PROVE Comes'
  OBVIOUS
<1> USE ConstantAssumption DEF Task, db, relay, net, tasks, loop, hist, caps
<1>a. /\ IInv /\ TypeOK /\ Linked /\ Asks /\ Replies /\ Comes /\ JobStage
      /\ status \in [Client -> Sockets] /\ down \in [Client -> Seq(Frame)]
      /\ pc \in [Task -> Labels] /\ sock \in [Task -> Client \cup {None}]
      /\ current \in Client \cup {None} /\ job \in Job /\ todo \subseteq Task
  BY DEF AwaitInv, IInv, TypeOK
<1>1. ASSUME NEW s \in Sender, NEW e \in Envelope, SendFromOutbox(s, e)
      PROVE  Comes'
  <2>1. \A u \in Task : Waits(u)
    BY <1>1, <1>a, WaitsStill DEF SendFromOutbox
  <2> QED
    BY <1>a, <2>1, ComesKept
<1>2. ASSUME NEW s \in Sender, NEW e \in Envelope, SendConnected(s, e)
      PROVE  Comes'
  <2>1. Goes(s)
    BY <1>2, <1>a DEF SendConnected, Goes
  <2>2. \A u \in Task \ {s} : Waits(u)
    BY <1>2, <1>a, WaitsStill DEF SendConnected
  <2> QED
    BY <1>a, <2>1, <2>2, ComesKept
<1>3. ASSUME NEW s \in Sender, NEW e \in Envelope, SendReconnects(s, e)
      PROVE  Comes'
  <2>1. OpenClient(s) /\ job' = job
    BY <1>3 DEF SendReconnects
  <2> QED
    BY <2>1, ComesOpened
<1>4. ASSUME NEW s \in Sender, SendOnWire(s)
      PROVE  Comes'
  <2>1. Goes(s)
    <3>1. status[sock[s]] \in Up /\ sock' = sock /\ status' = status
      BY <1>4, <1>a DEF SendOnWire, Linked
    <3>2. CASE status[sock[s]] = "open"
      BY <1>4, <3>2 DEF SendOnWire, Ask, Goes
    <3>3. CASE status[sock[s]] # "open"
      BY <3>1, <3>3 DEF Goes, Up
    <3> QED
      BY <3>2, <3>3
  <2>2. \A u \in Task \ {s} : Waits(u)
    BY <1>4, <1>a, WaitsStill DEF SendOnWire, Ask
  <2> QED
    BY <1>a, <2>1, <2>2, ComesKept
<1>5. ASSUME NEW s \in Sender, ResolveFails(s)
      PROVE  Comes'
  <2>1. Goes(s)
    BY <1>5, <1>a DEF ResolveFails, Settle, Goes
  <2>2. \A u \in Task \ {s} : Waits(u)
    BY <1>5, <1>a, WaitsStill DEF ResolveFails, Settle
  <2> QED
    BY <1>a, <2>1, <2>2, ComesKept
<1>6. ASSUME EnsureReady
      PROVE  Comes'
  <2>1. OpenClient(Main) /\ job' = job
    BY <1>6 DEF EnsureReady
  <2> QED
    BY <2>1, ComesOpened
<1>7. ASSUME KeeperReconnects
      PROVE  Comes'
  <2>1. OpenClient(Main) /\ job' = job
    BY <1>7 DEF KeeperReconnects
  <2> QED
    BY <2>1, ComesOpened
<1>8. ASSUME KeeperWakes
      PROVE  Comes'
  <2>1. Goes(Main)
    BY <1>8, <1>a DEF KeeperWakes, Goes
  <2>2. \A u \in Task \ {Main} : Waits(u)
    BY <1>8, <1>a, WaitsStill DEF KeeperWakes
  <2> QED
    BY <1>a, <2>1, <2>2, ComesKept
<1>9. ASSUME NEW c \in Client, HandleJoin(c)
      PROVE  Comes'
  <2>1. Arrives(c, "join") /\ Awaited(c, Head(down[c]).task, "connect")
    BY <1>9 DEF HandleJoin
  <2> DEFINE t == Head(down[c]).task
  <2>2. t \in Task /\ sock[t] = c /\ status[c] = "open"
    BY <2>1, HeadAnswers
  <2>3. Goes(t)
    BY <1>9, <1>a, <2>2 DEF HandleJoin, Ask, Goes
  <2>4. /\ status' = status /\ todo \subseteq todo'
        /\ \A u \in Task \ {t} : pc'[u] = pc[u] /\ sock'[u] = sock[u]
    BY <1>9, <1>a, <2>2 DEF HandleJoin, Ask
  <2>5. \A u \in Task \ {t} : Waits(u)
    BY <2>1, <2>4, WaitsHandled
  <2> QED
    BY <1>a, <2>3, <2>5, ComesKept
<1>10. ASSUME NEW c \in Client, HandleJoinNack(c)
      PROVE  Comes'
  <2>1. Arrives(c, "nack") /\ Awaited(c, Head(down[c]).task, "connect")
    BY <1>10 DEF HandleJoinNack
  <2> DEFINE t == Head(down[c]).task
  <2>2. t \in Task /\ sock[t] = c
    BY <2>1, HeadAnswers
  <2>3. Goes(t)
    BY <1>10, <1>a, <2>2 DEF HandleJoinNack, ConnectThrows, Goes
  <2>4. /\ status' = status /\ todo \subseteq todo'
        /\ \A u \in Task \ {t} : pc'[u] = pc[u] /\ sock'[u] = sock[u]
    BY <1>10, <1>a, <2>2 DEF HandleJoinNack, ConnectThrows
  <2>5. \A u \in Task \ {t} : Waits(u)
    BY <2>1, <2>4, WaitsHandled
  <2> QED
    BY <1>a, <2>3, <2>5, ComesKept
<1>11. ASSUME NEW c \in Client, HandleAck(c)
      PROVE  Comes'
  <2>1. Arrives(c, "ack") /\ Awaited(c, Head(down[c]).task, "wire")
    BY <1>11 DEF HandleAck
  <2> DEFINE t == Head(down[c]).task
  <2>2. t \in Task /\ sock[t] = c
    BY <2>1, HeadAnswers
  <2>3. Goes(t)
    BY <1>11, <1>a, <2>2 DEF HandleAck, Settle, Goes
  <2>4. /\ status' = status /\ todo \subseteq todo'
        /\ \A u \in Task \ {t} : pc'[u] = pc[u] /\ sock'[u] = sock[u]
    BY <1>11, <1>a, <2>2 DEF HandleAck, Settle
  <2>5. \A u \in Task \ {t} : Waits(u)
    BY <2>1, <2>4, WaitsHandled
  <2> QED
    BY <1>a, <2>3, <2>5, ComesKept
<1>12. ASSUME NEW c \in Client, HandleSendNack(c)
      PROVE  Comes'
  <2>1. Arrives(c, "nack") /\ Awaited(c, Head(down[c]).task, "wire")
    BY <1>12 DEF HandleSendNack
  <2> DEFINE t == Head(down[c]).task
  <2>2. t \in Task /\ sock[t] = c
    BY <2>1, HeadAnswers
  <2>3. Goes(t)
    BY <1>12, <1>a, <2>2 DEF HandleSendNack, Settle, Goes
  <2>4. /\ status' = status /\ todo \subseteq todo'
        /\ \A u \in Task \ {t} : pc'[u] = pc[u] /\ sock'[u] = sock[u]
    BY <1>12, <1>a, <2>2 DEF HandleSendNack, Settle
  <2>5. \A u \in Task \ {t} : Waits(u)
    BY <2>1, <2>4, WaitsHandled
  <2> QED
    BY <1>a, <2>3, <2>5, ComesKept
<1>13. ASSUME NEW c \in Client, HandleListNack(c)
      PROVE  Comes'
  <2>1. Arrives(c, "nack") /\ Awaited(c, Head(down[c]).task, "recover")
    BY <1>13 DEF HandleListNack
  <2> DEFINE t == Head(down[c]).task
  <2>2. t \in Task /\ sock[t] = c
    BY <2>1, HeadAnswers
  <2>3. Goes(t)
    BY <1>13, <1>a, <2>2 DEF HandleListNack, ConnectThrows, Goes
  <2>4. /\ status' = status /\ todo \subseteq todo'
        /\ \A u \in Task \ {t} : pc'[u] = pc[u] /\ sock'[u] = sock[u]
    BY <1>13, <1>a, <2>2 DEF HandleListNack, ConnectThrows
  <2>5. \A u \in Task \ {t} : Waits(u)
    BY <2>1, <2>4, WaitsHandled
  <2> QED
    BY <1>a, <2>3, <2>5, ComesKept
<1>14. ASSUME NEW c \in Client, HandlePage(c)
      PROVE  Comes'
  <2>1. Arrives(c, "page") /\ Awaited(c, Head(down[c]).task, "recover")
    BY <1>14 DEF HandlePage
  <2> DEFINE t == Head(down[c]).task
  <2>2. t \in Task /\ sock[t] = c
    BY <2>1, HeadAnswers
  <2>3. Goes(t)
    BY <1>14, <1>a, <2>2 DEF HandlePage, Goes
  <2>4. /\ status' = status /\ todo \subseteq todo'
        /\ \A u \in Task \ {t} : pc'[u] = pc[u] /\ sock'[u] = sock[u]
    BY <1>14, <1>a, <2>2 DEF HandlePage
  <2>5. \A u \in Task \ {t} : Waits(u)
    BY <2>1, <2>4, WaitsHandled
  <2> QED
    BY <1>a, <2>3, <2>5, ComesKept
<1>15. ASSUME NEW c \in Client, HandleReceipt(c)
      PROVE  Comes'
  <2>1. Arrives(c, "receipt") /\ UNCHANGED <<status, todo, pc, sock>>
    BY <1>15 DEF HandleReceipt
  <2>2. Head(down[c]).task = None
    BY <1>a, <2>1, PoppedReply DEF Answers
  <2>3. \A u \in Task : Waits(u)
    BY <2>1, <2>2, WaitsHandled
  <2> QED
    BY <1>a, <2>3, ComesKept
<1>16. ASSUME SkipKnown
      PROVE  Comes'
  <2>1. \A u \in Task : Waits(u)
    BY <1>16, <1>a, WaitsStill DEF SkipKnown, NextReceipt, NoJob, Job
  <2> QED
    BY <1>a, <2>1, ComesKept
<1>17. ASSUME UpsertReceipt
      PROVE  Comes'
  <2>1. \A u \in Task : Waits(u)
    BY <1>17, <1>a, WaitsStill DEF UpsertReceipt, Job
  <2> QED
    BY <1>a, <2>1, ComesKept
<1>18. ASSUME MarkOutboxDelivered
      PROVE  Comes'
  <2>1. \A u \in Task : Waits(u)
    BY <1>18, <1>a, WaitsStill DEF MarkOutboxDelivered, Job
  <2> QED
    BY <1>a, <2>1, ComesKept
<1>19. ASSUME InsertSidecarEvent
      PROVE  Comes'
  <2>1. \A u \in Task : Waits(u)
    BY <1>19, <1>a, WaitsStill DEF InsertSidecarEvent, Job
  <2> QED
    BY <1>a, <2>1, ComesKept
<1>20. ASSUME UpdateReceiptCursor
      PROVE  Comes'
  <2>1. \A u \in Task : Waits(u)
    BY <1>20, <1>a, WaitsStill DEF UpdateReceiptCursor, NextReceipt, NoJob, Job
  <2> QED
    BY <1>a, <2>1, ComesKept
<1>21. ASSUME RecoveryEnds
      PROVE  Comes'
  <2>1. PICK t \in Task : t = job.owner /\ current \in Client /\ status[current] \in Up
    BY <1>21, PageOwner DEF RecoveryEnds
  <2>2. Goes(t)
    BY <1>21, <1>a, <2>1 DEF RecoveryEnds, ConnectReturns, Goes
  <2>3. \A u \in Task \ {t} : Waits(u)
    BY <1>21, <1>a, <2>1, WaitsStill DEF RecoveryEnds, ConnectReturns
  <2> QED
    BY <1>a, <2>2, <2>3, ComesKept
<1>22. ASSUME NextPage
      PROVE  Comes'
  <2>1. PICK t \in Task : t = job.owner /\ current \in Client /\ status[current] \in Up
    BY <1>22, PageOwner DEF NextPage
  <2>2. Goes(t)
    <3>1. sock'[t] = current /\ status' = status
      BY <1>22, <1>a, <2>1 DEF NextPage
    <3>2. CASE status[current] = "open"
      BY <1>22, <2>1, <3>2 DEF NextPage, Ask, Goes
    <3>3. CASE status[current] # "open"
      BY <2>1, <3>1, <3>3 DEF Goes, Up
    <3> QED
      BY <3>2, <3>3
  <2>3. \A u \in Task \ {t} : Waits(u)
    BY <1>22, <1>a, <2>1, WaitsStill DEF NextPage, Ask
  <2> QED
    BY <1>a, <2>2, <2>3, ComesKept
<1>23. ASSUME NEW t \in Task, RelayJoins(t)
      PROVE  Comes'
  <2>1. /\ pc[t] = "connect" /\ Push(sock[t], Reply("join", t))
        /\ status' = [status EXCEPT ![sock[t]] = "open"] /\ UNCHANGED <<todo, pc, sock, job>>
    BY <1>23 DEF RelayJoins
  <2>2. Reply("join", t) \in Frame /\ Reply("join", t).task = t
    BY <1>a, ReplyType DEF Reply, Msg
  <2>3. sock[t] \in Client /\ \A u \in Task \ {t} : sock[u] # sock[t]
    BY <1>a, <2>1 DEF Linked
  <2>4. \A d \in Client : d # sock[t] => status'[d] = status[d]
    BY <1>a, <2>1
  <2> QED
    BY <2>1, <2>2, <2>3, <2>4, ComesReplied
<1>24. ASSUME NEW t \in Task, RelayRefusesJoin(t)
      PROVE  Comes'
  <2>1. /\ pc[t] = "connect" /\ Push(sock[t], Reply("nack", t))
        /\ status' = [status EXCEPT ![sock[t]] = "refused"] /\ UNCHANGED <<todo, pc, sock, job>>
    BY <1>24 DEF RelayRefusesJoin
  <2>2. Reply("nack", t) \in Frame /\ Reply("nack", t).task = t
    BY <1>a, ReplyType DEF Reply, Msg
  <2>3. sock[t] \in Client /\ \A u \in Task \ {t} : sock[u] # sock[t]
    BY <1>a, <2>1 DEF Linked
  <2>4. \A d \in Client : d # sock[t] => status'[d] = status[d]
    BY <1>a, <2>1
  <2> QED
    BY <2>1, <2>2, <2>3, <2>4, ComesReplied
<1>25. ASSUME NEW t \in Task, RelayAccepts(t)
      PROVE  Comes'
  <2>1. /\ pc[t] \in {"wire"} /\ todo' = todo \ {t}
        /\ Push(sock[t], Reply("ack", t)) /\ UNCHANGED <<status, pc, sock, job>>
    BY <1>25 DEF RelayAccepts, Served
  <2>2. Reply("ack", t) \in Frame /\ Reply("ack", t).task = t
    BY <1>a, ReplyType DEF Reply, Msg
  <2>3. sock[t] \in Client /\ \A u \in todo : u # t => u \in todo'
    BY <1>a, <2>1 DEF Linked
  <2> QED
    BY <2>1, <2>2, <2>3, ComesReplied
<1>26. ASSUME NEW t \in Task, RelayRefuses(t)
      PROVE  Comes'
  <2>1. /\ pc[t] \in {"wire", "recover"} /\ todo' = todo \ {t}
        /\ Push(sock[t], Reply("nack", t)) /\ UNCHANGED <<status, pc, sock, job>>
    BY <1>26 DEF RelayRefuses, Served
  <2>2. Reply("nack", t) \in Frame /\ Reply("nack", t).task = t
    BY <1>a, ReplyType DEF Reply, Msg
  <2>3. sock[t] \in Client /\ \A u \in todo : u # t => u \in todo'
    BY <1>a, <2>1 DEF Linked
  <2> QED
    BY <2>1, <2>2, <2>3, ComesReplied
<1>27. ASSUME NEW t \in Task, RelayLists(t)
      PROVE  Comes'
  <2>1. pc[t] = "recover" /\ todo' = todo \ {t} /\ UNCHANGED <<status, pc, sock, job>>
    BY <1>27 DEF RelayLists, Served
  <2>2. PICK f \in Frame : f.task = t /\ Push(sock[t], f)
    BY <1>27, <1>a, ListType
  <2>3. sock[t] \in Client /\ \A u \in todo : u # t => u \in todo'
    BY <1>a, <2>1 DEF Linked
  <2> QED
    BY <2>1, <2>2, <2>3, ComesReplied
<1>28. ASSUME NEW e \in Envelope, RelayDelivers(e)
      PROVE  Comes'
  <2>1. UNCHANGED <<status, todo, pc, sock, job>>
    BY <1>28 DEF RelayDelivers
  <2>2. ASSUME NEW u \in Task, sock[u] \in Client, Replied(u)
        PROVE  Replied(u)'
    <3>1. CASE status[sock[u]] \in {"open", "closing"}
      <4>1. /\ Len(down[sock[u]]) \in Nat /\ Len(down'[sock[u]]) = Len(down[sock[u]]) + 1
            /\ \A i \in 1..Len(down[sock[u]]) : down'[sock[u]][i] = down[sock[u]][i]
        BY <1>28, <1>a, <2>2, <3>1, Delivered
      <4> QED
        BY <2>1, <2>2, <4>1, RepliedMore
    <3>2. CASE status[sock[u]] \notin {"open", "closing"}
      <4>1. down'[sock[u]] = down[sock[u]]
        BY <1>28, <1>a, <2>2, <3>2, Delivered
      <4> QED
        BY <2>1, <2>2, <4>1 DEF Replied
    <3> QED
      BY <3>1, <3>2
  <2>3. \A u \in Task : Waits(u)
    BY <2>1, <2>2 DEF Waits, Asked, Cut
  <2> QED
    BY <1>a, <2>3, ComesKept
<1>29. ASSUME NEW t \in Task, ConnectFails(t)
      PROVE  Comes'
  <2>1. /\ pc[t] = "connect" /\ status' = [status EXCEPT ![sock[t]] = "closed"]
        /\ UNCHANGED <<down, todo, job>>
    BY <1>29 DEF ConnectFails
  <2>2. \A u \in Task \ {t} : sock[u] # sock[t]
    BY <1>a, <2>1 DEF Linked
  <2>3. \A u \in Task \ {t} : pc'[u] = pc[u] /\ sock'[u] = sock[u]
    BY <1>29, <1>a DEF ConnectFails, ConnectThrows
  <2>4. Goes(t)
    BY <1>29, <1>a DEF ConnectFails, ConnectThrows, Goes
  <2>5. \A d \in Client : d # sock[t] => status'[d] = status[d]
    BY <1>a, <2>1
  <2>6. \A u \in Task \ {t} : Waits(u)
    BY <2>1, <2>2, <2>3, <2>5, WaitsStill
  <2> QED
    BY <1>a, <2>4, <2>6, ComesKept
<1>30. ASSUME NEW c \in Client, Drop(c)
      PROVE  Comes'
  <2>1. /\ status' = [status EXCEPT ![c] = "closed"] /\ down' = [down EXCEPT ![c] = <<>>]
        /\ todo' = {u \in todo : sock[u] # c} /\ UNCHANGED <<pc, sock, job>>
    BY <1>30 DEF Drop, Gone
  <2>2. /\ status'[c] = "closed"
        /\ \A d \in Client : d # c => down'[d] = down[d] /\ status'[d] = status[d]
    BY <1>a, <2>1
  <2>3. ASSUME NEW u \in Task
        PROVE  Waits(u)
    <3>1. CASE sock[u] = c
      BY <2>1, <2>2, <3>1 DEF Waits, Cut
    <3>2. CASE sock[u] # c
      BY <2>1, <2>2, <3>2, WaitsStill
    <3> QED
      BY <3>1, <3>2
  <2> QED
    BY <1>a, <2>3, ComesKept
<1>31. ASSUME NEW c \in Client, CloseCompletes(c)
      PROVE  Comes'
  <2>1. /\ status' = [status EXCEPT ![c] = "closed"] /\ down' = [down EXCEPT ![c] = <<>>]
        /\ todo' = {u \in todo : sock[u] # c} /\ UNCHANGED <<pc, sock, job>>
    BY <1>31 DEF CloseCompletes, Gone
  <2>2. /\ status'[c] = "closed"
        /\ \A d \in Client : d # c => down'[d] = down[d] /\ status'[d] = status[d]
    BY <1>a, <2>1
  <2>3. ASSUME NEW u \in Task
        PROVE  Waits(u)
    <3>1. CASE sock[u] = c
      BY <2>1, <2>2, <3>1 DEF Waits, Cut
    <3>2. CASE sock[u] # c
      BY <2>1, <2>2, <3>2, WaitsStill
    <3> QED
      BY <3>1, <3>2
  <2> QED
    BY <1>a, <2>3, ComesKept
<1>32. ASSUME Crash
      PROVE  Comes'
  BY <1>32 DEF Crash, Comes, Awaiting
<1>33. CASE UNCHANGED vars
  BY <1>33, <1>a DEF Comes, Awaiting, Asked, Replied, Cut, vars
<1> QED
  BY <1>1, <1>2, <1>3, <1>4, <1>5, <1>6, <1>7, <1>8, <1>9, <1>10, <1>11, <1>12,
     <1>13, <1>14, <1>15, <1>16, <1>17, <1>18, <1>19, <1>20, <1>21, <1>22, <1>23,
     <1>24, <1>25, <1>26, <1>27, <1>28, <1>29, <1>30, <1>31, <1>32, <1>33
     DEF Next, Sends, Keeps, Handles, Observes, Relays, Fails

-----------------------------------------------------------------------------
(* The result.                                                             *)

\* No request is outstanding when the agent is started for the first time.
LEMMA AwaitInit == Init => Linked /\ Asks /\ Replies /\ Comes
<1> SUFFICES ASSUME Init
             PROVE  Linked /\ Asks /\ Replies /\ Comes
  OBVIOUS
<1>1. /\ \A c \in Client : down[c] = <<>> /\ Len(down[c]) = 0
      /\ \A t \in Task : pc[t] \in {"off", "idle"}
      /\ current = None /\ todo = {}
  BY DEF Init
<1> QED
  BY <1>1 DEF Linked, Asks, Replies, Comes, Awaiting

\* Requests and replies, in every behaviour.
LEMMA AwaitAlways == Spec => []AwaitInv
<1>1. AwaitInv /\ [Next]_vars => (Linked /\ Asks /\ Replies /\ Comes)'
  BY LinkedStep, AsksStep, RepliesStep, ComesStep
<1>2. IInv /\ Linked /\ Asks /\ Replies /\ Comes => AwaitInv
  BY DEF AwaitInv
<1> QED
  BY AwaitInit, <1>1, <1>2, Inductive, PTL DEF Spec

\* Whatever reconnections replace each other's clients, whatever is refused, lost or
\* killed, no task of the agent awaits something that nobody owes it, unless its socket
\* is closing or gone; and every reply that is on its way finds its task awaiting just
\* that, on the client it arrives at (requestReply matches a reply by its ref).
THEOREM RequestsAndRepliesMatch == Spec => []AwaitsAndRepliesMatch
<1>1. Comes /\ Replies => AwaitsAndRepliesMatch
  BY DEF Comes, Replies, Answers, AwaitsAndRepliesMatch
<1>2. AwaitInv => AwaitsAndRepliesMatch
  BY <1>1 DEF AwaitInv
<1> QED
  BY <1>2, AwaitAlways, PTL
=============================================================================
