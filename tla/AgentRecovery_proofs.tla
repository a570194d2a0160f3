------------------------ MODULE AgentRecovery_proofs ------------------------
(***************************************************************************)
(* What AgentRuntime guarantees of its connections, of the recovery of     *)
(* missed receipts and of the events it publishes, for every number of     *)
(* envelopes, clients and lost connections.                                *)
(*                                                                         *)
(* NoOrphanSocket and NothingMissedUnbroken hold where only ensureReady    *)
(* and maintainConnection connect (Alone): with senders that reconnect by  *)
(* themselves the program breaks both.  One socket at a time (OneSocket)   *)
(* gives the first.  The second follows what is still to come at each      *)
(* point of a recovery: the page asked for or on its way (Asking), the     *)
(* page being observed (Reading), the receipts pushed live once nothing is *)
(* being recovered (Listening).                                            *)
(*                                                                         *)
(* The events that deaths cost are counted, whoever connects: of what is   *)
(* recorded and not published, all but the receipt in hand (Lost) is at    *)
(* most one for each death (Losses).                                       *)
(***************************************************************************)
EXTENDS AgentRuntime_proofs, FiniteSetTheorems

(* The sockets of one task.                                                *)

Alone == Sender = {}

\* One socket is on the channel: that of the client in use, or of the one to
\* replace it; a socket that is not on the channel yet has no frames, and one
\* that has joined was not refused.
OneSocket ==
  /\ \A c \in Client : status[c] = "open" =>
       IF pc[Main] = "connect" THEN c = sock[Main] ELSE c = current
  /\ \A c \in Client : status[c] \in {"closed", "connecting"} => down[c] = <<>>
  /\ pc[Main] = "connect" =>
       \A c \in Client : status[c] = "open" =>
         \A i \in 1..Len(down[c]) : down[c][i].kind # "nack"

SocketInv == IInv /\ OneSocket

-----------------------------------------------------------------------------
(* The queues of frames.                                                   *)

\* What taking the first frame of a queue leaves.
LEMMA Popped ==
  ASSUME TypeOK, NEW c \in Client, NEW kind, Arrives(c, kind)
  PROVE  /\ down[c] \in Seq(Frame) /\ Len(down[c]) \in Nat \ {0}
         /\ Head(down[c]) = down[c][1] /\ down[c][1] \in Frame /\ down[c][1].kind = kind
         /\ down'[c] \in Seq(Frame) /\ Len(down'[c]) = Len(down[c]) - 1
         /\ \A i \in 1..Len(down'[c]) : down'[c][i] = down[c][i + 1]
         /\ \A d \in Client : d # c => down'[d] = down[d]
         /\ status[c] \in {"open", "closing", "refused"}
<1>1. down[c] \in Seq(Frame) /\ down[c] # <<>>
  BY DEF TypeOK, Arrives
<1>2. down' = [down EXCEPT ![c] = Tail(down[c])] /\ down \in [Client -> Seq(Frame)]
  BY DEF TypeOK, Arrives
<1> DEFINE q == down[c]
<1>3. /\ Tail(q) \in Seq(Frame) /\ Head(q) \in Frame /\ Head(q) = q[1] /\ Len(q) >= 1
      /\ Len(q) \in Nat /\ Len(Tail(q)) = Len(q) - 1
      /\ \A i \in 1..Len(Tail(q)) : Tail(q)[i] = q[i + 1]
  BY <1>1, TailItems
<1>4. down'[c] = Tail(q) /\ \A d \in Client : d # c => down'[d] = down[d]
  BY <1>2
<1>5. Head(q).kind = kind /\ status[c] \in {"open", "closing", "refused"}
  BY DEF Arrives
<1>6. Len(q) \in Nat \ {0}
  BY <1>3
<1> HIDE DEF q
<1>7. q[1] \in Frame /\ q[1].kind = kind
  BY <1>3, <1>5
<1> QED
  BY <1>1, <1>3, <1>4, <1>5, <1>6, <1>7 DEF q

\* What one more frame adds to a queue.
LEMMA Pushed ==
  ASSUME TypeOK, NEW c \in Client, NEW f \in Frame, Push(c, f)
  PROVE  /\ down[c] \in Seq(Frame) /\ Len(down[c]) \in Nat
         /\ down'[c] \in Seq(Frame) /\ Len(down'[c]) = Len(down[c]) + 1
         /\ down'[c][Len(down[c]) + 1] = f
         /\ \A i \in 1..Len(down[c]) : down'[c][i] = down[c][i]
         /\ \A d \in Client : d # c => down'[d] = down[d]
<1> DEFINE q == down[c]
<1>1. q \in Seq(Frame) /\ Len(q) \in Nat
  BY DEF TypeOK
<1>2. down'[c] = Append(q, f) /\ \A d \in Client : d # c => down'[d] = down[d]
  BY DEF TypeOK, Push
<1> HIDE DEF q
<1>3. /\ Append(q, f) \in Seq(Frame) /\ Len(Append(q, f)) = Len(q) + 1
      /\ Append(q, f)[Len(q) + 1] = f /\ \A i \in 1..Len(q) : Append(q, f)[i] = q[i]
  BY <1>1, AppendType, AppendItems
<1> QED
  BY <1>1, <1>2, <1>3 DEF q

\* What a receipt adds to the log and to the queues.
LEMMA Delivered ==
  ASSUME TypeOK, NEW e \in Envelope, RelayDelivers(e)
  PROVE  /\ Len(log) \in Nat /\ Len(log') = Len(log) + 1 /\ log'[Len(log) + 1] = e
         /\ \A i \in 1..Len(log) : log'[i] = log[i]
         /\ \A c \in Client :
              /\ status[c] \in {"open", "closing"} =>
                   /\ Len(down[c]) \in Nat /\ Len(down'[c]) = Len(down[c]) + 1
                   /\ down'[c][Len(down[c]) + 1].kind = "receipt"
                   /\ down'[c][Len(down[c]) + 1].task = None
                   /\ down'[c][Len(down[c]) + 1].pos = Len(log) + 1
                   /\ \A i \in 1..Len(down[c]) : down'[c][i] = down[c][i]
              /\ status[c] \notin {"open", "closing"} => down'[c] = down[c]
<1>1. /\ log \in Seq(Envelope) /\ log' = Append(log, e)
      /\ UNCHANGED <<db, status, todo, current, loop, tasks, job, hist, caps>>
  BY DEF TypeOK, RelayDelivers
<1>2. PICK f \in Frame :
        /\ f.kind = "receipt" /\ f.pos = Len(log) + 1 /\ f.task = None
        /\ down' = [c \in Client |-> IF status[c] \in {"open", "closing"}
                                     THEN Append(down[c], f) ELSE down[c]]
  BY DeliverType
<1>3. Len(log) \in Nat /\ Len(log') = Len(log) + 1 /\ log'[Len(log) + 1] = e
      /\ \A i \in 1..Len(log) : log'[i] = log[i]
  BY <1>1, AppendItems
<1>4. ASSUME NEW c \in Client, status[c] \in {"open", "closing"}
      PROVE  /\ Len(down[c]) \in Nat /\ Len(down'[c]) = Len(down[c]) + 1
             /\ down'[c][Len(down[c]) + 1] = f
             /\ \A i \in 1..Len(down[c]) : down'[c][i] = down[c][i]
  <2> DEFINE q == down[c]
  <2>1. q \in Seq(Frame) /\ Len(q) \in Nat
    BY DEF TypeOK
  <2>2. down'[c] = Append(q, f)
    BY <1>2, <1>4
  <2> HIDE DEF q
  <2>3. /\ Len(Append(q, f)) = Len(q) + 1
        /\ Append(q, f)[Len(q) + 1] = f /\ \A i \in 1..Len(q) : Append(q, f)[i] = q[i]
    BY <2>1, AppendItems
  <2> QED
    BY <2>1, <2>2, <2>3 DEF q
<1>5. \A c \in Client : status[c] \notin {"open", "closing"} => down'[c] = down[c]
  BY <1>2
<1> QED
  BY <1>2, <1>3, <1>4, <1>5

-----------------------------------------------------------------------------
(* The steps, without senders.                                             *)

Observation ==
  SkipKnown \/ UpsertReceipt \/ MarkOutboxDelivered \/ InsertSidecarEvent \/ UpdateReceiptCursor

\* The steps there are where Main is the only task and sends nothing.
LEMMA AloneCases ==
  ASSUME Alone, IInv, Next
  PROVE  \/ EnsureReady \/ KeeperReconnects \/ KeeperWakes
         \/ \E c \in Client : HandleJoin(c) \/ HandleJoinNack(c) \/ HandleListNack(c)
                              \/ HandlePage(c) \/ HandleReceipt(c)
         \/ Observation \/ RecoveryEnds \/ NextPage
         \/ RelayJoins(Main) \/ RelayRefusesJoin(Main) \/ RelayRefuses(Main) \/ RelayLists(Main)
         \/ \E e \in Envelope : RelayDelivers(e)
         \/ ConnectFails(Main)
         \/ \E c \in Client : Drop(c) \/ CloseCompletes(c)
         \/ Crash
<1>1. Task = {Main}
  BY DEF Task, Alone
<1>2. \A t \in Task : pc[t] \notin {"resolve", "wire"}
  BY <1>1 DEF IInv, SendStage, Alone
<1>3. ASSUME NEW c \in Client
      PROVE  ~HandleAck(c) /\ ~HandleSendNack(c)
  <2>1. ASSUME HandleAck(c) \/ HandleSendNack(c)
        PROVE  Head(down[c]).task \in Task /\ pc[Head(down[c]).task] = "wire"
    <3>1. Head(down[c]) \in Frame
      BY <2>1, PopType DEF HandleAck, HandleSendNack, IInv
    <3> QED
      BY <2>1, <3>1 DEF HandleAck, HandleSendNack, Awaited, Frame
  <2> QED
    BY <1>2, <2>1
<1>4. \A t \in Task : ~RelayAccepts(t)
  BY <1>2 DEF RelayAccepts, Served
<1> QED
  BY <1>1, <1>3, <1>4 DEF Alone, Next, Sends, Keeps, Handles, Observes, Observation, Relays, Fails

\* The task of a frame that answers is Main.
LEMMA AwaitedIsMain ==
  ASSUME Alone, TypeOK, NEW c \in Client, NEW kind, Arrives(c, kind), NEW label,
         Awaited(c, Head(down[c]).task, label)
  PROVE  Head(down[c]).task = Main /\ pc[Main] = label /\ sock[Main] = c
<1>1. Head(down[c]).task \in Task
  BY PopType DEF Awaited, Frame
<1>2. Head(down[c]).task = Main
  BY <1>1 DEF Task, Alone
<1> QED
  BY <1>2 DEF Awaited

\* A new connection, from wherever it is opened.
LEMMA Opened ==
  ASSUME Alone, IInv, EnsureReady \/ KeeperReconnects
  PROVE  \E c \in Client :
           /\ Free(c) /\ status[c] = "closed" /\ c # current
           /\ \A d \in Client : status'[d] = IF d = c THEN "connecting"
                                         ELSE IF d = current /\ status[d] = "open"
                                         THEN "closing" ELSE status[d]
           /\ sock'[Main] = c /\ pc'[Main] = "connect" /\ pc[Main] \in {"off", "idle"}
           /\ JsIdle /\ (pc[Main] = "off" \/ ~Connected)
           /\ UNCHANGED <<db, relay, down, todo, current, after, job>>
<1>1. OpenClient(Main) /\ TypeOK /\ Main \in Task
  BY DEF EnsureReady, KeeperReconnects, IInv, Task
<1>2. PICK c \in Client :
        /\ Free(c)
        /\ status' = [d \in Client |->
                        IF d = c THEN "connecting"
                        ELSE IF d = current /\ status[d] = "open" THEN "closing"
                        ELSE status[d]]
        /\ sock' = [sock EXCEPT ![Main] = c]
        /\ pc' = [pc EXCEPT ![Main] = "connect"]
        /\ UNCHANGED <<down, todo, after>>
  BY <1>1 DEF OpenClient
<1>3. sock'[Main] = c /\ pc'[Main] = "connect"
  BY <1>1, <1>2 DEF TypeOK
<1>4. \A d \in Client : status'[d] = IF d = c THEN "connecting"
                                    ELSE IF d = current /\ status[d] = "open"
                                    THEN "closing" ELSE status[d]
  BY <1>2
<1>5. /\ pc[Main] \in {"off", "idle"} /\ JsIdle /\ (pc[Main] = "off" \/ ~Connected)
      /\ UNCHANGED <<db, relay, current, job>>
  BY DEF EnsureReady, KeeperReconnects
<1>6. status[c] = "closed" /\ c # current
  BY <1>2 DEF Free
<1> QED
  BY <1>2, <1>3, <1>4, <1>5, <1>6

-----------------------------------------------------------------------------
(* One socket.                                                             *)

\* A step that changes only queues, and adds no refusal of a join.
LEMMA QueuesOnly ==
  ASSUME OneSocket, UNCHANGED <<status, pc, sock, current>>,
         \A c \in Client : status[c] \in {"closed", "connecting"} => down'[c] = down[c],
         pc[Main] = "connect" =>
           \A c \in Client : status[c] = "open" =>
             \A i \in 1..Len(down'[c]) : down'[c][i].kind # "nack"
  PROVE  OneSocket'
BY DEF OneSocket

\* A step after which no socket is open.
LEMMA NoneOpen ==
  ASSUME OneSocket, \A c \in Client : status'[c] # "open",
         \A c \in Client : status'[c] \in {"closed", "connecting"} => down'[c] = <<>>
  PROVE  OneSocket'
BY DEF OneSocket

\* Every step leaves one socket at most on the channel.
LEMMA OneSocketKept == Alone /\ SocketInv /\ [Next]_vars => OneSocket'
<1> SUFFICES ASSUME Alone, SocketInv, [Next]_vars
             PROVE  OneSocket'
  OBVIOUS
<1> USE DEF db, relay, net, tasks, loop, hist, caps
<1>a. /\ IInv /\ OneSocket /\ TypeOK /\ JobStage
      /\ status \in [Client -> Sockets] /\ down \in [Client -> Seq(Frame)]
      /\ pc \in [Task -> Labels] /\ sock \in [Task -> Client \cup {None}]
      /\ Main \in Task /\ Main \notin Sender /\ None \notin Client \cup Task
  BY ConstantAssumption DEF SocketInv, IInv, TypeOK, Task
<1>1. CASE EnsureReady \/ KeeperReconnects
  <2>1. PICK c \in Client :
           /\ Free(c) /\ status[c] = "closed" /\ c # current
           /\ \A d \in Client : status'[d] = IF d = c THEN "connecting"
                                         ELSE IF d = current /\ status[d] = "open"
                                         THEN "closing" ELSE status[d]
           /\ sock'[Main] = c /\ pc'[Main] = "connect" /\ pc[Main] \in {"off", "idle"}
           /\ UNCHANGED <<down, current>>
    BY <1>a, <1>1, Opened
  <2>2. \A d \in Client : status[d] = "open" => d = current
    BY <1>a, <2>1 DEF OneSocket
  <2>3. \A d \in Client : status'[d] # "open"
    BY <2>1, <2>2
  <2>4. \A d \in Client : status'[d] \in {"closed", "connecting"} => down'[d] = <<>>
    BY <1>a, <2>1 DEF OneSocket
  <2> QED
    BY <1>a, <2>3, <2>4, NoneOpen
<1>2. CASE KeeperWakes
  <2>1. pc[Main] = "sleep" /\ pc'[Main] = "idle" /\ UNCHANGED <<status, down, sock, current>>
    BY <1>a, <1>2 DEF KeeperWakes
  <2> QED
    BY <1>a, <2>1 DEF OneSocket
<1>3. ASSUME NEW c \in Client, HandleJoin(c)
      PROVE  OneSocket'
  <2>1. Arrives(c, "join") /\ Awaited(c, Head(down[c]).task, "connect")
    BY <1>3 DEF HandleJoin
  <2>2. Head(down[c]).task = Main /\ pc[Main] = "connect" /\ sock[Main] = c
    BY <1>a, <2>1, AwaitedIsMain
  <2>3. pc'[Main] = "recover" /\ current' = c /\ UNCHANGED <<status, sock>>
    BY <1>a, <1>3, <2>2 DEF HandleJoin
  <2>4. /\ status[c] \in {"open", "closing", "refused"}
        /\ \A d \in Client : d # c => down'[d] = down[d]
    BY <1>a, <2>1, Popped
  <2> QED
    BY <1>a, <2>2, <2>3, <2>4 DEF OneSocket
<1>4. ASSUME NEW c \in Client, HandleJoinNack(c)
      PROVE  OneSocket'
  <2>1. Arrives(c, "nack") /\ Awaited(c, Head(down[c]).task, "connect")
    BY <1>4 DEF HandleJoinNack
  <2>2. Head(down[c]).task = Main /\ pc[Main] = "connect" /\ sock[Main] = c
    BY <1>a, <2>1, AwaitedIsMain
  <2>3. /\ status[c] \in {"open", "closing", "refused"} /\ Len(down[c]) \in Nat \ {0}
        /\ down[c][1].kind = "nack" /\ \A d \in Client : d # c => down'[d] = down[d]
    BY <1>a, <2>1, Popped
  <2>4. 1 \in 1..Len(down[c])
    BY <2>3
  <2>5. \A d \in Client : status[d] # "open"
    BY <1>a, <2>2, <2>3, <2>4 DEF OneSocket
  <2>6. status' = status
    BY <1>4 DEF HandleJoinNack
  <2> QED
    BY <1>a, <2>3, <2>5, <2>6, NoneOpen DEF OneSocket
<1>5. ASSUME NEW c \in Client, HandleListNack(c)
      PROVE  OneSocket'
  <2>1. Arrives(c, "nack") /\ Awaited(c, Head(down[c]).task, "recover")
    BY <1>5 DEF HandleListNack
  <2>2. Head(down[c]).task = Main /\ pc[Main] = "recover"
    BY <1>a, <2>1, AwaitedIsMain
  <2>3. /\ status[c] \in {"open", "closing", "refused"}
        /\ \A d \in Client : d # c => down'[d] = down[d]
    BY <1>a, <2>1, Popped
  <2>4. pc'[Main] \in {"sleep", "off"} /\ UNCHANGED <<status, current>>
    BY <1>a, <1>5, <2>2 DEF HandleListNack, ConnectThrows
  <2> QED
    BY <1>a, <2>2, <2>3, <2>4 DEF OneSocket
<1>6. ASSUME NEW c \in Client, HandlePage(c) \/ HandleReceipt(c)
      PROVE  OneSocket'
  <2>1. PICK kind \in {"page", "receipt"} : Arrives(c, kind)
    BY <1>6 DEF HandlePage, HandleReceipt
  <2>2. UNCHANGED <<status, pc, sock, current>>
    BY <1>6 DEF HandlePage, HandleReceipt
  <2>3. /\ status[c] \in {"open", "closing", "refused"} /\ Len(down[c]) \in Nat \ {0}
        /\ Len(down'[c]) = Len(down[c]) - 1
        /\ \A i \in 1..Len(down'[c]) : down'[c][i] = down[c][i + 1]
        /\ \A d \in Client : d # c => down'[d] = down[d]
    BY <1>a, <2>1, Popped
  <2>4. \A i \in 1..Len(down'[c]) : i + 1 \in 1..Len(down[c])
    BY <2>3
  <2>5. ASSUME pc[Main] = "connect", NEW d \in Client, status[d] = "open",
               NEW i \in 1..Len(down'[d])
        PROVE  down'[d][i].kind # "nack"
    <3>1. CASE d = c
      <4>1. i \in 1..Len(down'[c]) /\ status[c] = "open" /\ down'[d][i] = down'[c][i]
        BY <2>5, <3>1
      <4>2. down'[c][i] = down[c][i + 1] /\ i + 1 \in 1..Len(down[c])
        BY <2>3, <2>4, <4>1
      <4>3. down[c][i + 1].kind # "nack"
        BY <1>a, <2>5, <4>1, <4>2 DEF OneSocket
      <4> QED
        BY <4>1, <4>2, <4>3
    <3>2. CASE d # c
      BY <1>a, <2>3, <2>5, <3>2 DEF OneSocket
    <3> QED
      BY <3>1, <3>2
  <2>6. \A d \in Client : status[d] \in {"closed", "connecting"} => down'[d] = down[d]
    BY <2>3
  <2> QED
    BY <1>a, <2>2, <2>5, <2>6, QueuesOnly
<1>7. CASE Observation
  <2>1. UNCHANGED <<status, down, pc, sock, current>>
    BY <1>7 DEF Observation, SkipKnown, UpsertReceipt, MarkOutboxDelivered, InsertSidecarEvent,
                UpdateReceiptCursor
  <2> QED
    BY <1>a, <2>1 DEF OneSocket
<1>8. CASE RecoveryEnds
  <2>1. job.owner \in Task /\ job.owner = Main /\ pc[Main] = "recover"
    BY <1>a, <1>8 DEF RecoveryEnds, PageObserved, JobStage, TypeOK, Job, Task, Alone
  <2>2. pc'[Main] = "idle" /\ UNCHANGED <<status, down, current>>
    BY <1>a, <1>8, <2>1 DEF RecoveryEnds, ConnectReturns
  <2> QED
    BY <1>a, <2>1, <2>2 DEF OneSocket
<1>9. CASE NextPage
  <2>1. job.owner = Main /\ pc[Main] = "recover"
    BY <1>a, <1>9 DEF NextPage, PageObserved, JobStage, TypeOK, Job, Task, Alone
  <2>2. UNCHANGED <<status, down, current, pc>>
    BY <1>9 DEF NextPage
  <2> QED
    BY <1>a, <2>1, <2>2 DEF OneSocket
<1>10. CASE RelayJoins(Main) \/ RelayRefusesJoin(Main)
  <2> DEFINE c == sock[Main]
  <2>1. PICK f \in Frame : Push(c, f) /\ (RelayJoins(Main) => f.kind = "join")
    <3>1. Reply("join", Main) \in Frame /\ Reply("nack", Main) \in Frame
          /\ Reply("join", Main).kind = "join"
      BY <1>a, ReplyType DEF Reply, Msg
    <3> QED
      BY <1>10, <3>1 DEF RelayJoins, RelayRefusesJoin
  <2>2. /\ pc[Main] = "connect" /\ status[c] = "connecting" /\ UNCHANGED <<pc, sock, current>>
        /\ \/ RelayJoins(Main) /\ status' = [status EXCEPT ![c] = "open"]
           \/ status' = [status EXCEPT ![c] = "refused"]
    BY <1>10 DEF RelayJoins, RelayRefusesJoin
  <2>3. CASE c \in Client
    <3>1. /\ down[c] = <<>> /\ Len(down[c]) = 0
          /\ \A d \in Client : status[d] # "open"
      BY <1>a, <2>2, <2>3 DEF OneSocket
    <3>2. /\ Len(down'[c]) = 1 /\ down'[c][1] = f
          /\ \A d \in Client : d # c => down'[d] = down[d]
      <4>1. Push(c, f) /\ c \in Client /\ f \in Frame
        BY <2>1, <2>3
      <4>2. /\ Len(down'[c]) = Len(down[c]) + 1 /\ down'[c][Len(down[c]) + 1] = f
            /\ \A d \in Client : d # c => down'[d] = down[d]
        BY <1>a, <4>1, Pushed
      <4>3. Len(down[c]) + 1 = 1
        BY <3>1
      <4> QED
        BY <4>2, <4>3
    <3> QED
      BY <1>a, <2>1, <2>2, <2>3, <3>1, <3>2 DEF OneSocket
  <2>4. CASE c \notin Client
    <3>1. status' = status /\ down' = down
      BY <1>a, <2>1, <2>2, <2>4 DEF Push
    <3> QED
      BY <1>a, <2>2, <3>1 DEF OneSocket
  <2> QED
    BY <2>3, <2>4
<1>11. CASE RelayRefuses(Main) \/ RelayLists(Main)
  <2> DEFINE c == sock[Main]
  <2>1. /\ pc[Main] = "recover" /\ status[c] \in {"open", "closing"}
        /\ UNCHANGED <<status, pc, sock, current>>
    <3>1. pc[Main] # "wire"
      BY <1>a DEF IInv, SendStage
    <3> QED
      BY <1>11, <3>1 DEF RelayRefuses, RelayLists, Served
  <2>2. \E f : Push(c, f)
    BY <1>11 DEF RelayRefuses, RelayLists
  <2>3. \A d \in Client : d # c => down'[d] = down[d]
    BY <1>a, <2>2 DEF Push
  <2> QED
    BY <1>a, <2>1, <2>3, QueuesOnly
<1>12. ASSUME NEW e \in Envelope, RelayDelivers(e)
       PROVE  OneSocket'
  <2>1. UNCHANGED <<status, pc, sock, current>>
    BY <1>12 DEF RelayDelivers
  <2>2. \A c \in Client :
              /\ status[c] = "open" =>
                   /\ Len(down[c]) \in Nat /\ Len(down'[c]) = Len(down[c]) + 1
                   /\ down'[c][Len(down[c]) + 1].kind = "receipt"
                   /\ \A i \in 1..Len(down[c]) : down'[c][i] = down[c][i]
              /\ status[c] \notin {"open", "closing"} => down'[c] = down[c]
    BY <1>a, <1>12, Delivered
  <2>3. ASSUME pc[Main] = "connect", NEW c \in Client, status[c] = "open",
               NEW i \in 1..Len(down'[c])
        PROVE  down'[c][i].kind # "nack"
    <3>0. /\ Len(down[c]) \in Nat /\ Len(down'[c]) = Len(down[c]) + 1
          /\ down'[c][Len(down[c]) + 1].kind = "receipt"
          /\ \A j \in 1..Len(down[c]) : down'[c][j] = down[c][j]
      BY <2>2, <2>3
    <3>1. i \in 1..Len(down[c]) \/ i = Len(down[c]) + 1
      BY <2>3, <3>0
    <3>2. CASE i \in 1..Len(down[c])
      BY <1>a, <2>3, <3>0, <3>2 DEF OneSocket
    <3>3. CASE i = Len(down[c]) + 1
      BY <3>0, <3>3
    <3> QED
      BY <3>1, <3>2, <3>3
  <2> QED
    BY <1>a, <2>1, <2>2, <2>3, QueuesOnly
<1>13. CASE ConnectFails(Main)
  <2>1. /\ pc[Main] = "connect" /\ status[sock[Main]] = "connecting"
        /\ status' = [status EXCEPT ![sock[Main]] = "closed"] /\ down' = down
    BY <1>13 DEF ConnectFails
  <2>2. \A d \in Client : status[d] # "open"
    BY <1>a, <2>1 DEF OneSocket
  <2> QED
    BY <1>a, <2>1, <2>2, NoneOpen DEF OneSocket
<1>14. ASSUME NEW c \in Client, Drop(c) \/ CloseCompletes(c)
       PROVE  OneSocket'
  <2>1. /\ status' = [status EXCEPT ![c] = "closed"] /\ down' = [down EXCEPT ![c] = <<>>]
        /\ UNCHANGED <<pc, sock, current>>
    BY <1>14 DEF Drop, CloseCompletes, Gone
  <2> QED
    BY <1>a, <2>1 DEF OneSocket
<1>15. CASE Crash
  <2>1. \A c \in Client : status'[c] = "closed" /\ down'[c] = <<>>
    BY <1>15 DEF Crash
  <2> QED
    BY <1>a, <2>1, NoneOpen
<1>16. CASE UNCHANGED vars
  BY <1>a, <1>16 DEF vars, OneSocket
<1> QED
  BY <1>a, <1>1, <1>2, <1>3, <1>4, <1>5, <1>6, <1>7, <1>8, <1>9, <1>10, <1>11, <1>12, <1>13,
     <1>14, <1>15, <1>16, AloneCases

\* One socket, in every behaviour.
LEMMA OneSocketAlways == Alone => (Spec => [](IInv /\ OneSocket))
<1> SUFFICES ASSUME Alone
             PROVE  Spec => [](IInv /\ OneSocket)
  OBVIOUS
<1>1. Init => OneSocket
  BY ConstantAssumption DEF Init, OneSocket, Task
<1>2. IInv /\ OneSocket /\ [Next]_vars => OneSocket'
  BY OneSocketKept DEF SocketInv
<1> QED
  BY <1>1, <1>2, Inductive, PTL DEF Spec

\* Where only ensureReady and maintainConnection connect, no reconnection leaves
\* a socket on the channel behind, through refusals, lost connections and crashes
\* (connectClient closes the client it replaces).
THEOREM NoSocketLeftBehind == Alone => (Spec => []NoOrphanSocket)
<1>1. ASSUME IInv, OneSocket
      PROVE  NoOrphanSocket
  BY <1>1, ConstantAssumption DEF OneSocket, NoOrphanSocket, Task
<1>2. IInv /\ OneSocket => NoOrphanSocket
  BY <1>1
<1> QED
  BY OneSocketAlways, <1>2, PTL

-----------------------------------------------------------------------------
(* The events.                                                             *)

\* A recorded receipt is published, is the one the callback holds between its
\* upsert and its event, or was the one some death of the process interrupted.
InHand == IF job.step \in {"mark", "event"} THEN {log[job.pos]} ELSE {}

Lost == (receipts \ Range(events)) \ InHand

Losses == IsFiniteSet(receipts) /\ Cardinality(Lost) <= crashes

\* The steps that touch neither the receipts nor the callback that observes them.
LEMMA OtherSteps ==
  ASSUME Next
  PROVE  \/ \E c \in Client : HandlePage(c) \/ HandleReceipt(c)
         \/ Observes
         \/ \E e \in Envelope : RelayDelivers(e)
         \/ Crash
         \/ UNCHANGED <<receipts, events, job, log, crashes>>
<1> USE DEF db, relay, net, tasks, loop, hist, caps
<1>1. ASSUME NEW s \in Sender, Sends(s)
      PROVE  UNCHANGED <<receipts, events, job, log, crashes>>
  BY <1>1 DEF Sends, SendFromOutbox, SendConnected, SendReconnects, SendOnWire, ResolveFails,
              Settle
<1>2. ASSUME Keeps
      PROVE  UNCHANGED <<receipts, events, job, log, crashes>>
  BY <1>2 DEF Keeps, EnsureReady, KeeperReconnects, KeeperWakes
<1>3. ASSUME NEW c \in Client, Handles(c)
      PROVE  HandlePage(c) \/ HandleReceipt(c)
             \/ UNCHANGED <<receipts, events, job, log, crashes>>
  BY <1>3 DEF Handles, HandleJoin, HandleJoinNack, HandleAck, HandleSendNack, HandleListNack,
              Settle
<1>4. ASSUME Relays
      PROVE  \/ \E e \in Envelope : RelayDelivers(e)
             \/ UNCHANGED <<receipts, events, job, log, crashes>>
  BY <1>4 DEF Relays, RelayJoins, RelayRefusesJoin, RelayAccepts, RelayRefuses, RelayLists
<1>5. ASSUME Fails
      PROVE  Crash \/ UNCHANGED <<receipts, events, job, log, crashes>>
  BY <1>5 DEF Fails, ConnectFails, Drop, CloseCompletes, Gone
<1> QED
  BY <1>1, <1>2, <1>3, <1>4, <1>5 DEF Next

\* A step that loses no event keeps the count.
LEMMA NoLoss ==
  ASSUME IInv, Losses, Lost' \subseteq Lost, crashes' = crashes,
         receipts' = receipts \/ \E e : receipts' = receipts \cup {e}
  PROVE  Losses'
<1>1. IsFiniteSet(receipts')
  BY FS_AddElement DEF Losses
<1>2. IsFiniteSet(Lost)
  BY FS_Subset DEF Losses, Lost
<1>3. IsFiniteSet(Lost') /\ Cardinality(Lost') <= Cardinality(Lost)
  BY <1>2, FS_Subset
<1>4. Cardinality(Lost) \in Nat /\ Cardinality(Lost') \in Nat
  BY <1>2, <1>3, FS_CardinalityType
<1> QED
  BY <1>1, <1>3, <1>4 DEF Losses, IInv, TypeOK

\* Every step but the death of the process keeps recorded receipts published, and
\* that one loses the event of the receipt in hand.
LEMMA LossKept == IInv /\ Losses /\ [Next]_vars => Losses'
<1> SUFFICES ASSUME IInv, Losses, [Next]_vars
             PROVE  Losses'
  OBVIOUS
<1> USE DEF db, relay, net, tasks, loop, hist, caps
<1>a. /\ log \in Seq(Envelope) /\ events \in Seq(Envelope) /\ job \in Job
      /\ job.step \in {"mark", "event", "cursor"} => log[job.pos] \in Envelope
  BY JobItem DEF IInv, TypeOK, JobStage, Observing
<1>1. ASSUME UNCHANGED <<receipts, events, job, log, crashes>>
      PROVE  Losses'
  BY <1>1, NoLoss DEF Lost, InHand
<1>2. ASSUME job.step \in {"idle", "check", "cursor"},
             UNCHANGED <<receipts, events, log, crashes>>
      PROVE  Losses'
  BY <1>2, NoLoss DEF Lost, InHand
<1>3. ASSUME NEW c \in Client, HandlePage(c) \/ HandleReceipt(c)
      PROVE  Losses'
  BY <1>2, <1>3 DEF HandlePage, HandleReceipt, Arrives, JsIdle
<1>4. ASSUME SkipKnown \/ UpdateReceiptCursor \/ RecoveryEnds \/ NextPage
      PROVE  Losses'
  BY <1>2, <1>4 DEF SkipKnown, UpdateReceiptCursor, RecoveryEnds, NextPage, Observing,
                    PageObserved, ConnectReturns
<1>5. ASSUME UpsertReceipt
      PROVE  Losses'
  <2>1. /\ job.step = "check" /\ job'.step = "mark" /\ job'.pos = job.pos
        /\ receipts' = receipts \cup {log[job.pos]} /\ UNCHANGED <<events, log, crashes>>
    BY <1>a, <1>5 DEF UpsertReceipt, Observing, Job
  <2>2. Lost' \subseteq Lost
    BY <2>1 DEF Lost, InHand
  <2> QED
    BY <2>1, <2>2, NoLoss
<1>6. ASSUME MarkOutboxDelivered
      PROVE  Losses'
  <2>1. /\ job.step = "mark" /\ job'.step = "event" /\ job'.pos = job.pos
        /\ UNCHANGED <<receipts, events, log, crashes>>
    BY <1>a, <1>6 DEF MarkOutboxDelivered, Observing, Job
  <2>2. Lost' \subseteq Lost
    BY <2>1 DEF Lost, InHand
  <2> QED
    BY <2>1, <2>2, NoLoss
<1>7. ASSUME InsertSidecarEvent
      PROVE  Losses'
  <2>1. /\ job.step = "event" /\ UNCHANGED <<receipts, log, crashes>>
        /\ events' = IF log[job.pos] \in Range(events) THEN events
                     ELSE Append(events, log[job.pos])
    BY <1>7 DEF InsertSidecarEvent, Observing
  <2>2. Range(events') = Range(events) \cup {log[job.pos]}
    BY <1>a, <2>1, AppendRange
  <2>3. Lost' \subseteq Lost
    BY <2>1, <2>2 DEF Lost, InHand
  <2> QED
    BY <2>1, <2>3, NoLoss
<1>8. ASSUME NEW e \in Envelope, RelayDelivers(e)
      PROVE  Losses'
  <2>1. log' = Append(log, e) /\ UNCHANGED <<receipts, events, job, crashes>>
    BY <1>8 DEF RelayDelivers
  <2>2. job.step \in {"mark", "event"} => job.pos \in 1..Len(log)
    BY <1>a, JobItem DEF IInv, JobStage, Observing
  <2>3. job.step \in {"mark", "event"} => log'[job.pos] = log[job.pos]
    BY <1>a, <2>1, <2>2, AppendItems
  <2>4. Lost' \subseteq Lost
    BY <2>1, <2>3 DEF Lost, InHand
  <2> QED
    BY <2>1, <2>4, NoLoss
<1>9. ASSUME Crash
      PROVE  Losses'
  <2> DEFINE x == log[job.pos]
  <2>1. /\ crashes' = crashes + 1 /\ UNCHANGED <<receipts, events>> /\ crashes \in Nat
    BY <1>9 DEF Crash, IInv, TypeOK
  <2>2. Lost' \subseteq Lost \cup {x}
    BY <2>1 DEF Lost, InHand
  <2> HIDE DEF x
  <2>3. IsFiniteSet(Lost) /\ Cardinality(Lost) \in Nat /\ Cardinality(Lost) <= crashes
    BY FS_Subset, FS_CardinalityType DEF Losses, Lost
  <2>4. /\ IsFiniteSet(Lost \cup {x})
        /\ Cardinality(Lost \cup {x}) <= Cardinality(Lost) + 1
        /\ Cardinality(Lost \cup {x}) \in Nat
    <3>1. /\ IsFiniteSet(Lost \cup {x})
          /\ Cardinality(Lost \cup {x}) = IF x \in Lost THEN Cardinality(Lost)
                                          ELSE Cardinality(Lost) + 1
      BY <2>3, FS_AddElement
    <3> QED
      BY <2>3, <3>1
  <2>5. Cardinality(Lost') <= Cardinality(Lost \cup {x}) /\ Cardinality(Lost') \in Nat
    BY <2>2, <2>4, FS_Subset, FS_CardinalityType
  <2>6. Cardinality(Lost') <= crashes'
    BY <2>1, <2>3, <2>4, <2>5
  <2> QED
    BY <2>1, <2>6 DEF Losses
<1>10. CASE UNCHANGED vars
  BY <1>1, <1>10 DEF vars
<1> QED
  BY <1>1, <1>3, <1>4, <1>5, <1>6, <1>7, <1>8, <1>9, <1>10, OtherSteps DEF Observes

\* The count, in every behaviour.
LEMMA LossesAlways == Spec => [](IInv /\ Losses)
<1>1. Init => Losses
  <2> SUFFICES ASSUME Init
               PROVE  Losses
    OBVIOUS
  <2>1. receipts = {} /\ Lost = {} /\ crashes = 0
    BY DEF Init, Lost
  <2> QED
    BY <2>1, FS_EmptySet DEF Losses
<1>2. IInv /\ Losses /\ [Next]_vars => Losses'
  BY LossKept
<1> QED
  BY <1>1, <1>2, Inductive, PTL DEF Spec

\* However often the process dies between two statements of observeReceipt, each
\* death costs at most one event: between callbacks no more recorded receipts are
\* missing from the durable event stream than there were deaths, over refused
\* requests, lost connections and overlapping recoveries.
THEOREM OneEventPerCrash == Spec => []EachCrashLosesOneEvent
<1>1. Losses => EachCrashLosesOneEvent
  <2> SUFFICES ASSUME Losses, JsIdle
               PROVE  Cardinality(receipts \ Range(events)) <= crashes
    BY DEF EachCrashLosesOneEvent
  <2>1. Lost = receipts \ Range(events)
    BY DEF JsIdle, Lost, InHand
  <2> QED
    BY <2>1 DEF Losses
<1> QED
  BY <1>1, LossesAlways, PTL

\* In a run in which the process never died, whatever observeReceipt has recorded is
\* in the durable event stream when nothing is in progress: it runs to its end before
\* any other JavaScript.
THEOREM RecordedReceiptsArePublished == Spec => [](crashes = 0 => RecordedIsPublished)
<1>1. Losses /\ crashes = 0 => RecordedIsPublished
  <2> SUFFICES ASSUME Losses, crashes = 0, JsIdle
               PROVE  receipts \subseteq Range(events)
    BY DEF RecordedIsPublished, Quiet
  <2>1. Lost = receipts \ Range(events)
    BY DEF JsIdle, Lost, InHand
  <2>2. IsFiniteSet(Lost) /\ Cardinality(Lost) \in Nat /\ Cardinality(Lost) <= 0
    BY FS_Subset, FS_CardinalityType DEF Losses, Lost
  <2>3. Lost = {}
    BY <2>2, FS_EmptySet
  <2> QED
    BY <2>1, <2>3
<1> QED
  BY <1>1, LossesAlways, PTL

-----------------------------------------------------------------------------
(* The receipts.                                                           *)

\* The relay has refused nothing and the process has not died, so far.
Calm == refusals = 0 /\ crashes = 0

\* The first n receipts of a log are among those that are recorded.
Have(n, l, got) == \A p \in 1..n : l[p] \in got

\* From its i-th frame on, a queue holds, in order, what follows the n-th receipt of
\* a log of m, and nothing else.
Rest(q, i, n, m) ==
  /\ \A j \in i..Len(q) : q[j].kind = "receipt" /\ q[j].pos = n + (j - i) + 1
  /\ n + (Len(q) - i) + 1 = m

\* The i-th frame of a queue is the page asked for after position from.  If it is the
\* last page, all it lacks comes live after it, and neither what came live before it
\* nor the stored cursor nor the callback that runs is later than the page.
Answer(q, i, from, stored, at, m) ==
  /\ q[i].pos >= from
  /\ q[i].more => q[i].pos > from
  /\ ~q[i].more => /\ Rest(q, i + 1, q[i].pos, m)
                   /\ stored <= q[i].pos /\ at <= q[i].pos
                   /\ \A j \in 1..i - 1 : q[j].kind = "receipt" => q[j].pos <= q[i].pos
  /\ \A j \in 1..Len(q) : q[j].kind = "page" => j = i

\* A connection is open, or gone; the frames of one that has just joined begin with
\* the reply to the join; only a recovery awaits a reply of the relay.
Links ==
  /\ \A c \in Client : status[c] \in {"closed", "connecting", "open"}
  /\ \A c \in Client : \A i \in 1..Len(down[c]) : down[c][i].kind # "nack"
  /\ pc[Main] \in {"off", "sleep"} => \A c \in Client : status[c] # "open"
  /\ pc[Main] = "connect" =>
       /\ JsIdle
       /\ \A c \in Client : status[c] = "open" =>
            /\ Len(down[c]) >= 1 /\ down[c][1].kind = "join"
            /\ \A i \in 2..Len(down[c]) : down[c][i].kind = "receipt"
  /\ pc[Main] = "recover" => current # None /\ sock[Main] = current
  /\ pc[Main] # "recover" => todo = {}
  /\ job.owner = None => job.pos = job.last

\* A page is asked for, or on its way.
Asking ==
  pc[Main] = "recover" /\ job.owner = None =>
    /\ Have(after[Main], log, receipts)
    /\ \A i \in 1..Len(down[current]) : down[current][i].kind = "page" =>
         Main \notin todo /\ Answer(down[current], i, after[Main], cursor, job.pos, Len(log))

\* A page is being observed.
Reading ==
  pc[Main] = "recover" /\ job.owner = Main =>
    /\ todo = {} /\ \A i \in 1..Len(down[current]) : down[current][i].kind # "page"
    /\ job.last >= after[Main] /\ job.pos <= job.last + 1
    /\ Have(job.pos - 1, log, receipts)
    /\ job.more => job.last > after[Main]
    /\ ~job.more => /\ cursor <= job.last
                    /\ status[current] = "open" => Rest(down[current], 1, job.last, Len(log))

\* Nothing is being recovered: what is not recorded is on its way, in order.
Listening ==
  pc[Main] # "recover" =>
    /\ Have(cursor, log, receipts)
    /\ ~JsIdle => Have(job.pos - 1, log, receipts)
    /\ \A c \in Client : status[c] = "open" /\ pc[Main] # "connect" =>
         \E n \in 0..Len(log) :
            /\ Rest(down[c], 1, n, Len(log))
            /\ IF JsIdle THEN Have(n, log, receipts) ELSE job.pos = n

RecoveryInv == Links /\ Asking /\ Reading /\ Listening

Calmly == Alone /\ Calm /\ IInv /\ OneSocket /\ RecoveryInv

\* What the invariants of AgentRuntime give where Main is the only task.
LEMMA Facts ==
  ASSUME Calmly
  PROVE  /\ Task = {Main} /\ Main # None /\ None \notin Client
         /\ log \in Seq(Envelope) /\ Len(log) \in Nat
         /\ cursor \in Nat /\ cursor <= Len(log)
         /\ after[Main] \in Nat /\ after[Main] <= Len(log)
         /\ job \in Job /\ job.pos \in Nat /\ job.last \in Nat /\ job.last <= Len(log)
         /\ job.owner \in {None, Main} /\ (JsIdle => job.owner = None)
         /\ (~JsIdle => job.pos >= 1) /\ (job.owner = Main => pc[Main] = "recover")
         /\ todo \subseteq {Main} /\ current \in Client \cup {None}
         /\ \A c \in Client :
              /\ down[c] \in Seq(Frame) /\ Len(down[c]) \in Nat
              /\ \A i \in 1..Len(down[c]) :
                   /\ down[c][i] \in Frame /\ down[c][i].pos \in Nat
                   /\ down[c][i].more \in BOOLEAN /\ down[c][i].pos <= Len(log)
<1>1. Alone /\ TypeOK /\ Positions /\ Frames /\ JobStage
  BY DEF Calmly, Calm, IInv
<1>2. Task = {Main} /\ Main # None /\ None \notin Client
  BY <1>1, ConstantAssumption DEF Alone, Task
<1>3. /\ log \in Seq(Envelope) /\ Len(log) \in Nat
      /\ cursor \in Nat /\ cursor <= Len(log)
      /\ after[Main] \in Nat /\ after[Main] <= Len(log)
      /\ todo \subseteq {Main} /\ current \in Client \cup {None}
  BY <1>1, <1>2 DEF TypeOK, Positions
<1>4. /\ job \in Job /\ job.pos \in Nat /\ job.last \in Nat /\ job.last <= Len(log)
      /\ job.owner \in {None, Main} /\ (JsIdle => job.owner = None)
      /\ (~JsIdle => job.pos >= 1) /\ (job.owner = Main => pc[Main] = "recover")
  BY <1>1, <1>2 DEF TypeOK, Job, JobStage, JsIdle
<1>5. ASSUME NEW c \in Client
      PROVE  down[c] \in Seq(Frame) /\ Len(down[c]) \in Nat
  BY <1>1 DEF TypeOK
<1>6. ASSUME NEW c \in Client, NEW i \in 1..Len(down[c])
      PROVE  /\ down[c][i] \in Frame /\ down[c][i].pos \in Nat
             /\ down[c][i].more \in BOOLEAN /\ down[c][i].pos <= Len(log)
  BY <1>1, <1>6 DEF Frames, FrameTrue, Frame
<1> QED
  BY <1>2, <1>3, <1>4, <1>5, <1>6

(* A queue r that is q without its first frame, or with a receipt pushed    *)
(* live at its end.                                                        *)

LessFirst(q, r) ==
  /\ Len(q) \in Nat \ {0} /\ Len(r) = Len(q) - 1
  /\ \A i \in 1..Len(r) : r[i] = q[i + 1]

OneMore(q, r, m) ==
  /\ Len(q) \in Nat /\ Len(r) = Len(q) + 1
  /\ \A i \in 1..Len(q) : r[i] = q[i]
  /\ r[Len(q) + 1].kind = "receipt" /\ r[Len(q) + 1].pos = m + 1

\* What follows, follows once the frame before it is taken.
LEMMA RestTail ==
  ASSUME NEW q, NEW r, LessFirst(q, r), NEW i \in Nat \ {0}, NEW n \in Nat, NEW m \in Nat,
         Rest(q, i + 1, n, m)
  PROVE  Rest(r, i, n, m)
<1>1. ASSUME NEW j \in i..Len(r)
      PROVE  r[j].kind = "receipt" /\ r[j].pos = n + (j - i) + 1
  <2>1. j \in 1..Len(r) /\ j + 1 \in (i + 1)..Len(q) /\ (j + 1) - (i + 1) = j - i
    BY DEF LessFirst
  <2> QED
    BY <2>1 DEF LessFirst, Rest
<1>2. n + (Len(r) - i) + 1 = m
  BY DEF LessFirst, Rest
<1> QED
  BY <1>1, <1>2 DEF Rest

\* The next receipt is the one after the n-th.
LEMMA RestNext ==
  ASSUME NEW q, NEW r, LessFirst(q, r), NEW n \in Nat, NEW m \in Nat, Rest(q, 1, n, m)
  PROVE  /\ q[1].kind = "receipt" /\ q[1].pos = n + 1 /\ n + 1 <= m
         /\ Rest(r, 1, n + 1, m)
<1>1. 1 \in 1..Len(q) /\ Len(q) \in Nat \ {0}
  BY DEF LessFirst
<1>2. q[1].kind = "receipt" /\ q[1].pos = n + (1 - 1) + 1
  BY <1>1 DEF Rest
<1>3. n + (Len(q) - 1) + 1 = m
  BY DEF Rest
<1>4. Rest(q, 1 + 1, n + 1, m)
  <2>1. ASSUME NEW j \in (1 + 1)..Len(q)
        PROVE  q[j].kind = "receipt" /\ q[j].pos = (n + 1) + (j - (1 + 1)) + 1
    <3>1. j \in 1..Len(q) /\ n + (j - 1) + 1 = (n + 1) + (j - (1 + 1)) + 1
      BY <1>1
    <3> QED
      BY <3>1 DEF Rest
  <2>2. (n + 1) + (Len(q) - (1 + 1)) + 1 = m
    BY <1>1, <1>3
  <2> QED
    BY <2>1, <2>2 DEF Rest
<1>5. Rest(r, 1, n + 1, m)
  BY <1>4, RestTail
<1> QED
  BY <1>1, <1>2, <1>3, <1>5

\* A receipt pushed live extends what follows.
LEMMA RestMore ==
  ASSUME NEW q, NEW r, NEW m \in Nat, OneMore(q, r, m), NEW i \in 1..Len(q) + 1,
         NEW n \in Nat, Rest(q, i, n, m)
  PROVE  Rest(r, i, n, m + 1)
<1>1. ASSUME NEW j \in i..Len(r)
      PROVE  r[j].kind = "receipt" /\ r[j].pos = n + (j - i) + 1
  <2>1. CASE j \in 1..Len(q)
    <3>1. j \in i..Len(q) /\ r[j] = q[j]
      BY <2>1 DEF OneMore
    <3> QED
      BY <3>1 DEF Rest
  <2>2. CASE j = Len(q) + 1
    <3>1. n + (Len(q) - i) + 1 = m
      BY DEF Rest
    <3>2. Len(q) \in Nat /\ i \in Nat
      BY DEF OneMore
    <3>3. n + (j - i) + 1 = m + 1
      BY <2>2, <3>1, <3>2
    <3> QED
      BY <2>2, <3>3 DEF OneMore
  <2>3. j \in 1..Len(q) \/ j = Len(q) + 1
    BY DEF OneMore
  <2> QED
    BY <2>1, <2>2, <2>3
<1>2. n + (Len(r) - i) + 1 = m + 1
  BY DEF OneMore, Rest
<1> QED
  BY <1>1, <1>2 DEF Rest

\* A page stays the answer as the frame before it is taken; the callback may be the
\* one of that frame.
LEMMA AnswerTail ==
  ASSUME NEW q, NEW r, LessFirst(q, r), NEW m \in Nat, NEW from, NEW stored, NEW at, NEW now,
         NEW i \in 1..Len(r), q[i + 1].pos \in Nat,
         Answer(q, i + 1, from, stored, at, m),
         now = at \/ (q[1].kind = "receipt" /\ now = q[1].pos)
  PROVE  Answer(r, i, from, stored, now, m)
<1>1. /\ i \in Nat \ {0} /\ r[i] = q[i + 1] /\ 1 \in 1..(i + 1) - 1
      /\ Len(r) \in Nat /\ Len(q) = Len(r) + 1
  BY DEF LessFirst
<1>2. r[i].pos >= from /\ (r[i].more => r[i].pos > from)
  BY <1>1 DEF Answer
<1>3. ASSUME ~r[i].more
      PROVE  /\ Rest(r, i + 1, r[i].pos, m) /\ stored <= r[i].pos /\ now <= r[i].pos
             /\ \A j \in 1..i - 1 : r[j].kind = "receipt" => r[j].pos <= r[i].pos
  <2>1. /\ Rest(q, (i + 1) + 1, q[i + 1].pos, m) /\ stored <= q[i + 1].pos
        /\ at <= q[i + 1].pos
        /\ \A j \in 1..(i + 1) - 1 : q[j].kind = "receipt" => q[j].pos <= q[i + 1].pos
    BY <1>1, <1>3 DEF Answer
  <2>2. Rest(r, i + 1, r[i].pos, m)
    BY <1>1, <2>1, RestTail
  <2>3. now <= r[i].pos
    BY <1>1, <2>1
  <2>4. ASSUME NEW j \in 1..i - 1
        PROVE  r[j].kind = "receipt" => r[j].pos <= r[i].pos
    <3>1. j + 1 \in 1..(i + 1) - 1 /\ j \in 1..Len(r)
      BY <1>1
    <3>2. r[j] = q[j + 1]
      BY <3>1 DEF LessFirst
    <3> QED
      BY <1>1, <2>1, <3>1, <3>2
  <2> QED
    BY <1>1, <2>1, <2>2, <2>3, <2>4
<1>4. ASSUME NEW j \in 1..Len(r), r[j].kind = "page"
      PROVE  j = i
  <2>1. j + 1 \in 1..Len(q) /\ q[j + 1] = r[j]
    BY <1>1 DEF LessFirst
  <2>2. j + 1 = i + 1
    BY <1>4, <2>1 DEF Answer
  <2> QED
    BY <1>1, <2>2
<1> QED
  BY <1>2, <1>3, <1>4 DEF Answer

\* A receipt pushed live after a page adds to what the page lacks.
LEMMA AnswerMore ==
  ASSUME NEW q, NEW r, NEW m \in Nat, OneMore(q, r, m), NEW from, NEW stored, NEW at,
         NEW i \in 1..Len(q), q[i].pos \in Nat, Answer(q, i, from, stored, at, m)
  PROVE  Answer(r, i, from, stored, at, m + 1)
<1>1. r[i] = q[i] /\ Len(q) \in Nat /\ Len(r) = Len(q) + 1 /\ i + 1 \in 1..Len(q) + 1
  BY DEF OneMore
<1>2. ASSUME ~r[i].more
      PROVE  /\ Rest(r, i + 1, r[i].pos, m + 1) /\ stored <= r[i].pos /\ at <= r[i].pos
             /\ \A j \in 1..i - 1 : r[j].kind = "receipt" => r[j].pos <= r[i].pos
  <2>1. /\ Rest(q, i + 1, q[i].pos, m) /\ stored <= q[i].pos /\ at <= q[i].pos
        /\ \A j \in 1..i - 1 : q[j].kind = "receipt" => q[j].pos <= q[i].pos
    BY <1>1, <1>2 DEF Answer
  <2>2. Rest(r, i + 1, r[i].pos, m + 1)
    BY <1>1, <2>1, RestMore
  <2>3. \A j \in 1..i - 1 : j \in 1..Len(q) /\ r[j] = q[j]
    BY <1>1 DEF OneMore
  <2> QED
    BY <1>1, <2>1, <2>2, <2>3
<1>3. ASSUME NEW j \in 1..Len(r), r[j].kind = "page"
      PROVE  j = i
  <2>1. j \in 1..Len(q) \/ j = Len(q) + 1
    BY <1>1
  <2>2. j \in 1..Len(q) /\ r[j] = q[j]
    BY <1>3, <2>1 DEF OneMore
  <2> QED
    BY <1>3, <2>2 DEF Answer
<1> QED
  BY <1>1, <1>2, <1>3 DEF Answer

\* A step after which no socket is open and nothing is recovered or asked for.
LEMMA Unplugged ==
  ASSUME Calmly, pc'[Main] # "recover", todo = {}, todo' = {}, JsIdle,
         UNCHANGED <<job, cursor, log, receipts>>, Have(cursor, log, receipts),
         \A c \in Client : status'[c] \in {"closed", "connecting"},
         \A c \in Client : down'[c] = down[c]
  PROVE  RecoveryInv'
<1>1. Links'
  BY DEF Links, JsIdle, Calmly, RecoveryInv
<1>2. Asking' /\ Reading'
  BY DEF Asking, Reading
<1>3. Listening'
  BY DEF Listening, JsIdle
<1> QED
  BY <1>1, <1>2, <1>3 DEF RecoveryInv

\* ensureReady and maintainConnection begin to connect with no socket open.
LEMMA ConnectStep ==
  ASSUME Calmly, EnsureReady \/ KeeperReconnects
  PROVE  RecoveryInv'
<1> USE DEF Calmly, Calm
<1>1. PICK c \in Client :
        /\ Free(c) /\ status[c] = "closed" /\ c # current
        /\ \A d \in Client : status'[d] = IF d = c THEN "connecting"
                                      ELSE IF d = current /\ status[d] = "open"
                                      THEN "closing" ELSE status[d]
        /\ sock'[Main] = c /\ pc'[Main] = "connect" /\ pc[Main] \in {"off", "idle"}
        /\ JsIdle /\ (pc[Main] = "off" \/ ~Connected)
        /\ UNCHANGED <<db, relay, down, todo, current, after, job>>
  BY Opened
<1>2. \A d \in Client : status[d] # "open"
  <2>1. CASE pc[Main] = "off"
    BY <2>1 DEF RecoveryInv, Links
  <2>2. CASE ~Connected /\ pc[Main] = "idle"
    BY <2>2, Facts DEF OneSocket, Connected
  <2> QED
    BY <1>1, <2>1, <2>2
<1>3. \A d \in Client : status'[d] \in {"closed", "connecting"}
  BY <1>1, <1>2 DEF RecoveryInv, Links
<1>4. todo = {} /\ Have(cursor, log, receipts)
  BY <1>1 DEF RecoveryInv, Links, Listening
<1>5. UNCHANGED <<job, cursor, log, receipts, todo, down>>
  BY <1>1 DEF db, relay
<1> QED
  BY <1>1, <1>3, <1>4, <1>5, Unplugged

\* No socket is open when maintainConnection wakes.
LEMMA WakeStep ==
  ASSUME Calmly, KeeperWakes
  PROVE  RecoveryInv'
<1>1. /\ pc[Main] = "sleep" /\ pc'[Main] = "idle" /\ JsIdle
      /\ UNCHANGED <<job, cursor, log, receipts, todo, down, status>>
  BY DEF KeeperWakes, Calmly, IInv, TypeOK, Task, db, relay, net
<1>2. \A d \in Client : status[d] \in {"closed", "connecting"}
  BY <1>1 DEF Calmly, RecoveryInv, Links
<1>3. todo = {} /\ Have(cursor, log, receipts)
  BY <1>1 DEF Calmly, RecoveryInv, Links, Listening
<1> QED
  BY <1>1, <1>2, <1>3, Unplugged

\* A connection that fails leaves none open.
LEMMA FailStep ==
  ASSUME Calmly, ConnectFails(Main)
  PROVE  RecoveryInv'
<1>1. /\ pc[Main] = "connect" /\ pc'[Main] \in {"sleep", "off"} /\ JsIdle
      /\ status[sock[Main]] = "connecting"
      /\ status' = [status EXCEPT ![sock[Main]] = "closed"]
      /\ UNCHANGED <<job, cursor, log, receipts, todo, down>>
  BY DEF ConnectFails, ConnectThrows, Calmly, IInv, TypeOK, Task, db, relay
<1>2. \A d \in Client : status[d] \in {"closed", "connecting"}
  BY <1>1 DEF Calmly, RecoveryInv, Links, OneSocket
<1>3. \A d \in Client : status'[d] \in {"closed", "connecting"}
  BY <1>1, <1>2 DEF Calmly, IInv, TypeOK
<1>4. todo = {} /\ Have(cursor, log, receipts)
  BY <1>1 DEF Calmly, RecoveryInv, Links, Listening
<1> QED
  BY <1>1, <1>3, <1>4, Unplugged

\* Joined: the first page is asked for from the stored cursor.
LEMMA JoinStep ==
  ASSUME Calmly, NEW c \in Client, HandleJoin(c)
  PROVE  RecoveryInv'
<1> DEFINE q == down[c]
           r == down'[c]
<1>1. Arrives(c, "join") /\ Awaited(c, Head(down[c]).task, "connect") /\ TypeOK /\ Alone
  BY DEF HandleJoin, Calmly, Calm, IInv
<1>2. Head(down[c]).task = Main /\ pc[Main] = "connect" /\ sock[Main] = c /\ JsIdle
  BY <1>1, AwaitedIsMain DEF Arrives
<1>3. /\ LessFirst(q, r) /\ \A d \in Client : d # c => down'[d] = down[d]
      /\ status[c] \in {"open", "closing", "refused"}
  BY <1>1, Popped DEF LessFirst
<1>4. /\ current' = c /\ after'[Main] = cursor /\ pc'[Main] = "recover"
      /\ UNCHANGED <<status, sock, job, cursor, log, receipts>>
  BY <1>1, <1>2, Facts DEF HandleJoin, TypeOK, db, relay
<1>5. \A i \in 1..Len(r) : i + 1 \in 2..Len(q) /\ r[i] = q[i + 1] /\ i + 1 \in 1..Len(q)
  BY <1>3 DEF LessFirst
<1>6. status[c] = "open" /\ \A i \in 2..Len(q) : q[i].kind = "receipt"
  BY <1>2, <1>3 DEF Calmly, RecoveryInv, Links
<1>7. \A i \in 1..Len(r) : r[i].kind = "receipt"
  BY <1>5, <1>6
<1> HIDE DEF q, r
<1>8. ASSUME NEW d \in Client, NEW i \in 1..Len(down'[d])
      PROVE  down'[d][i].kind # "nack"
  <2>1. CASE d = c
    BY <1>7, <1>8, <2>1 DEF r
  <2>2. CASE d # c
    BY <1>3, <1>8, <2>2 DEF Calmly, RecoveryInv, Links
  <2> QED
    BY <2>1, <2>2
<1>9. job.owner = None /\ job.owner # Main /\ job.pos = job.last /\ None # c
  BY <1>2, Facts DEF Calmly, RecoveryInv, Links
<1>10. Links'
  BY <1>2, <1>4, <1>8, <1>9 DEF Links, Calmly, RecoveryInv
<1>11. Have(cursor, log, receipts)
  BY <1>2 DEF Calmly, RecoveryInv, Listening
<1>12. Asking'
  BY <1>4, <1>7, <1>11 DEF Asking, r
<1>13. Reading' /\ Listening'
  BY <1>4, <1>9, Facts DEF Reading, Listening
<1> QED
  BY <1>10, <1>12, <1>13 DEF RecoveryInv

\* Nothing was refused.
LEMMA NoNack ==
  ASSUME Calmly, NEW c \in Client
  PROVE  ~HandleJoinNack(c) /\ ~HandleListNack(c)
<1>1. ASSUME Arrives(c, "nack")
      PROVE  FALSE
  <2>1. Len(down[c]) \in Nat \ {0} /\ down[c][1].kind = "nack"
    BY <1>1, Popped DEF Calmly, IInv
  <2>2. 1 \in 1..Len(down[c])
    BY <2>1
  <2> QED
    BY <2>1, <2>2 DEF Calmly, RecoveryInv, Links
<1> QED
  BY <1>1 DEF HandleJoinNack, HandleListNack

\* The links after the first frame of an open connection is taken: its other frames,
\* and those of the other clients, are what they were.
LEMMA LinksTail ==
  ASSUME Calmly, NEW c \in Client, pc[Main] # "connect", LessFirst(down[c], down'[c]),
         \A d \in Client : d # c => down'[d] = down[d],
         UNCHANGED <<status, sock, pc, current, todo>>,
         job'.owner = None => job'.pos = job'.last
  PROVE  Links'
<1> DEFINE q == down[c]
           r == down'[c]
<1>1. \A i \in 1..Len(r) : r[i] = q[i + 1] /\ i + 1 \in 1..Len(q)
  BY DEF LessFirst
<1>2. \A i \in 1..Len(q) : q[i].kind # "nack"
  BY DEF Calmly, RecoveryInv, Links
<1>3. \A i \in 1..Len(r) : r[i].kind # "nack"
  BY <1>1, <1>2
<1> HIDE DEF q, r
<1>4. \A d \in Client : \A i \in 1..Len(down'[d]) : down'[d][i].kind # "nack"
  BY <1>3 DEF Calmly, RecoveryInv, Links, r
<1> QED
  BY <1>4 DEF Links, Calmly, RecoveryInv

\* The callback begins with a page.
LEMMA PageStep ==
  ASSUME Calmly, NEW c \in Client, HandlePage(c)
  PROVE  RecoveryInv'
<1> DEFINE q == down[c]
           r == down'[c]
           f == q[1]
<1>1. Arrives(c, "page") /\ Awaited(c, Head(down[c]).task, "recover") /\ TypeOK /\ Alone
  BY DEF HandlePage, Calmly, Calm, IInv
<1>2. /\ Head(down[c]).task = Main /\ pc[Main] = "recover" /\ sock[Main] = c /\ JsIdle
      /\ job.owner = None
  BY <1>1, AwaitedIsMain, Facts DEF Arrives
<1>3. /\ LessFirst(q, r) /\ \A d \in Client : d # c => down'[d] = down[d]
      /\ Head(q) = f /\ f.kind = "page" /\ f \in Frame
  BY <1>1, Popped DEF LessFirst
<1>4. c = current
  BY <1>2 DEF Calmly, RecoveryInv, Links
<1>5. /\ UNCHANGED <<status, sock, pc, current, todo, after, log, receipts, cursor>>
      /\ job'.pos = after[Main] + 1 /\ job'.last = f.pos /\ job'.owner = Main
      /\ job'.more = f.more
  BY <1>2, <1>3 DEF HandlePage, db, relay, tasks
<1>6. 1 \in 1..Len(q) /\ f.pos \in Nat /\ after[Main] \in Nat
  BY <1>3, Facts DEF LessFirst
<1>7. /\ Main \notin todo /\ Answer(q, 1, after[Main], cursor, job.pos, Len(log))
      /\ Have(after[Main], log, receipts)
  BY <1>2, <1>3, <1>4, <1>6 DEF Calmly, RecoveryInv, Asking
<1>8. \A i \in 1..Len(r) : r[i].kind # "page"
  <2>1. \A i \in 1..Len(r) : r[i] = q[i + 1] /\ i + 1 \in 1..Len(q) /\ i + 1 # 1
    BY <1>3 DEF LessFirst
  <2> QED
    BY <1>7, <2>1 DEF Answer
<1>9. ASSUME ~f.more
      PROVE  cursor <= f.pos /\ Rest(r, 1, f.pos, Len(log))
  <2>1. Rest(q, 1 + 1, f.pos, Len(log)) /\ cursor <= f.pos
    BY <1>7, <1>9 DEF Answer
  <2>2. 1 \in Nat \ {0} /\ Len(log) \in Nat
    BY Facts
  <2> HIDE DEF q, r, f
  <2>3. Rest(r, 1, f.pos, Len(log))
    BY <1>3, <1>6, <2>1, <2>2, RestTail
  <2> QED
    BY <2>1, <2>3
<1>10. f.pos >= after[Main] /\ (f.more => f.pos > after[Main])
  BY <1>7 DEF Answer
<1>11. Links'
  BY <1>2, <1>3, <1>5, LinksTail, Facts
<1>12. todo = {}
  BY <1>7, Facts
<1> HIDE DEF q, f
<1>13. after[Main] + 1 <= f.pos + 1 /\ (after[Main] + 1) - 1 = after[Main]
  BY <1>6, <1>10
<1>14. Reading'
  BY <1>4, <1>5, <1>7, <1>8, <1>9, <1>10, <1>12, <1>13 DEF Reading
<1>15. Asking' /\ Listening'
  BY <1>2, <1>5, Facts DEF Asking, Listening
<1> QED
  BY <1>11, <1>14, <1>15 DEF RecoveryInv

\* The callback begins with a live receipt.
LEMMA ReceiptStep ==
  ASSUME Calmly, NEW c \in Client, HandleReceipt(c)
  PROVE  RecoveryInv'
<1> DEFINE q == down[c]
           r == down'[c]
<1>1. Arrives(c, "receipt") /\ TypeOK /\ JsIdle /\ job.owner = None
  BY Facts DEF HandleReceipt, Calmly, IInv, Arrives
<1>2. /\ LessFirst(q, r) /\ \A d \in Client : d # c => down'[d] = down[d]
      /\ Head(q) = q[1] /\ q[1].kind = "receipt" /\ q[1] \in Frame /\ 1 \in 1..Len(q)
      /\ status[c] \in {"open", "closing", "refused"}
  BY <1>1, Popped DEF LessFirst
<1>3. /\ UNCHANGED <<status, sock, pc, current, todo, after, log, receipts, cursor>>
      /\ job'.pos = q[1].pos /\ job'.last = q[1].pos /\ job'.owner = None
      /\ job'.step = "check"
  BY <1>2 DEF HandleReceipt, db, relay, tasks
<1>4. status[c] = "open" /\ pc[Main] # "connect"
  BY <1>2 DEF Calmly, RecoveryInv, Links
<1>5. c = current
  BY <1>4 DEF Calmly, OneSocket
<1>6. Links'
  BY <1>2, <1>3, <1>4, LinksTail
<1>7. Reading'
  BY <1>3, Facts DEF Reading
<1>8. ASSUME pc[Main] = "recover"
      PROVE  Asking'
  <2>1. Have(after[Main], log, receipts)
    BY <1>1, <1>8 DEF Calmly, RecoveryInv, Asking
  <2>2. ASSUME NEW i \in 1..Len(r), r[i].kind = "page"
        PROVE  Main \notin todo /\ Answer(r, i, after[Main], cursor, q[1].pos, Len(log))
    <3>1. i + 1 \in 1..Len(q) /\ r[i] = q[i + 1]
      BY <1>2 DEF LessFirst
    <3>2. /\ Main \notin todo /\ Answer(q, i + 1, after[Main], cursor, job.pos, Len(log))
          /\ q[i + 1].pos \in Nat /\ Len(log) \in Nat
      BY <1>1, <1>5, <1>8, <2>2, <3>1, Facts DEF Calmly, RecoveryInv, Asking
    <3> HIDE DEF q, r
    <3> QED
      BY <1>2, <3>2, AnswerTail
  <2> QED
    BY <1>3, <1>5, <2>1, <2>2 DEF Asking
<1>9. ASSUME pc[Main] # "recover"
      PROVE  Listening'
  <2>1. PICK n \in 0..Len(log) : Rest(q, 1, n, Len(log)) /\ Have(n, log, receipts)
    BY <1>1, <1>4, <1>9 DEF Calmly, RecoveryInv, Listening
  <2>2. n \in Nat /\ Len(log) \in Nat
    BY Facts
  <2> HIDE DEF q, r
  <2>3. q[1].pos = n + 1 /\ n + 1 <= Len(log) /\ Rest(r, 1, n + 1, Len(log))
    BY <1>2, <2>1, <2>2, RestNext
  <2>4. n + 1 \in 0..Len(log) /\ (n + 1) - 1 = n
    BY <2>2, <2>3
  <2>5. \A d \in Client : status[d] = "open" => d = c
    BY <1>4, <1>5 DEF Calmly, OneSocket
  <2>6. Have(cursor, log, receipts)
    BY <1>9 DEF Calmly, RecoveryInv, Listening
  <2>7. ~JsIdle' /\ Have(job'.pos - 1, log, receipts) /\ job'.pos = n + 1
    BY <1>3, <2>1, <2>3, <2>4 DEF JsIdle
  <2> QED
    BY <1>3, <1>4, <2>3, <2>4, <2>5, <2>6, <2>7 DEF Listening, r
<1> QED
  BY <1>3, <1>6, <1>7, <1>8, <1>9 DEF RecoveryInv, Asking, Listening

\* What one statement of observeReceipt does to the callback: it stays at its receipt,
\* or has it recorded and goes on.
LEMMA ObservationMoves ==
  ASSUME Calmly, Observation
  PROVE  /\ UNCHANGED <<status, down, todo, current, pc, sock, after, log>>
         /\ receipts \subseteq receipts' /\ ~JsIdle /\ job.pos <= job.last
         /\ \/ cursor' = cursor
            \/ cursor' = job.pos /\ log[job.pos] \in receipts
         /\ \/ /\ ~JsIdle' /\ cursor' = cursor /\ job'.pos = job.pos /\ job'.last = job.last
               /\ job'.owner = job.owner /\ job'.more = job.more
            \/ /\ job.owner = None /\ job' = NoJob /\ log[job.pos] \in receipts
            \/ /\ job.owner = Main /\ ~JsIdle' /\ job'.pos = job.pos + 1
               /\ job'.last = job.last /\ job'.owner = Main /\ job'.more = job.more
               /\ log[job.pos] \in receipts
<1> USE DEF relay, net, tasks, db
<1>1. /\ job \in Job /\ job.owner \in {None, Main} /\ Main # None
      /\ JobStage
  BY Facts DEF Calmly, IInv
<1>2. CASE UpsertReceipt
  BY <1>1, <1>2 DEF UpsertReceipt, Observing, JsIdle, Job
<1>3. CASE MarkOutboxDelivered
  BY <1>1, <1>3 DEF MarkOutboxDelivered, Observing, JsIdle, Job
<1>4. CASE InsertSidecarEvent
  BY <1>1, <1>4 DEF InsertSidecarEvent, Observing, JsIdle, Job
<1>5. CASE SkipKnown
  <2>1. NextReceipt /\ job.step = "check" /\ log[job.pos] \in receipts /\ job.pos <= job.last
    BY <1>5 DEF SkipKnown, Observing
  <2>2. \/ job.owner = None /\ job' = NoJob
        \/ /\ job.owner = Main /\ job'.step = "check" /\ job'.pos = job.pos + 1
           /\ job'.last = job.last /\ job'.owner = Main /\ job'.more = job.more
    BY <1>1, <2>1 DEF NextReceipt, Job
  <2> QED
    BY <1>5, <2>1, <2>2 DEF SkipKnown, JsIdle
<1>6. CASE UpdateReceiptCursor
  <2>1. NextReceipt /\ job.step = "cursor" /\ log[job.pos] \in receipts /\ job.pos <= job.last
    BY <1>1, <1>6 DEF UpdateReceiptCursor, Observing, JobStage
  <2>2. \/ job.owner = None /\ job' = NoJob
        \/ /\ job.owner = Main /\ job'.step = "check" /\ job'.pos = job.pos + 1
           /\ job'.last = job.last /\ job'.owner = Main /\ job'.more = job.more
    BY <1>1, <2>1 DEF NextReceipt, Job
  <2> QED
    BY <1>6, <2>1, <2>2 DEF UpdateReceiptCursor, JsIdle
<1> QED
  BY <1>2, <1>3, <1>4, <1>5, <1>6 DEF Observation

\* Recorded receipts stay recorded, and one more reaches further.
LEMMA HaveMore ==
  ASSUME NEW n \in Nat, NEW l, NEW got, NEW more, got \subseteq more, Have(n, l, got)
  PROVE  Have(n, l, more)
BY DEF Have

\* One more recorded receipt.
LEMMA HaveNext ==
  ASSUME NEW n \in Nat \ {0}, NEW l, NEW got, Have(n - 1, l, got), l[n] \in got
  PROVE  Have(n, l, got)
<1>1. \A p \in 1..n : p = n \/ p \in 1..n - 1
  OBVIOUS
<1> QED
  BY <1>1 DEF Have

\* The statements of observeReceipt.
LEMMA ObservationStep ==
  ASSUME Calmly, Observation
  PROVE  RecoveryInv'
<1>1. /\ UNCHANGED <<status, down, todo, current, pc, sock, after, log>>
      /\ receipts \subseteq receipts' /\ ~JsIdle /\ job.pos <= job.last
      /\ \/ cursor' = cursor
         \/ cursor' = job.pos /\ log[job.pos] \in receipts
      /\ \/ /\ ~JsIdle' /\ cursor' = cursor /\ job'.pos = job.pos /\ job'.last = job.last
            /\ job'.owner = job.owner /\ job'.more = job.more
         \/ /\ job.owner = None /\ job' = NoJob /\ log[job.pos] \in receipts
         \/ /\ job.owner = Main /\ ~JsIdle' /\ job'.pos = job.pos + 1
            /\ job'.last = job.last /\ job'.owner = Main /\ job'.more = job.more
            /\ log[job.pos] \in receipts
  BY ObservationMoves
<1>2. /\ job.pos \in Nat \ {0} /\ job.last \in Nat /\ job.owner \in {None, Main}
      /\ Main # None /\ cursor \in Nat /\ after[Main] \in Nat
      /\ NoJob.pos = 0 /\ NoJob.last = 0 /\ NoJob.owner = None /\ NoJob.step = "idle"
  BY <1>1, Facts DEF NoJob
<1>3. Links'
  <2>1. job'.owner = None => job'.pos = job'.last
    BY <1>1, <1>2 DEF Calmly, RecoveryInv, Links
  <2>2. pc[Main] # "connect"
    BY <1>1 DEF Calmly, RecoveryInv, Links
  <2> QED
    BY <1>1, <2>1, <2>2 DEF Calmly, RecoveryInv, Links
<1>4. log[job.pos] \in receipts /\ Have(job.pos - 1, log, receipts) => Have(job.pos, log, receipts')
  BY <1>1, <1>2, HaveNext, HaveMore
<1>5. ASSUME NEW n \in Nat, Have(n, log, receipts)
      PROVE  Have(n, log, receipts')
  BY <1>1, <1>5, HaveMore
<1>6. ASSUME pc[Main] = "recover", job.owner = None
      PROVE  Asking'
  <2>1. job.pos = job.last
    BY <1>6 DEF Calmly, RecoveryInv, Links
  <2>2. Have(after[Main], log, receipts')
    BY <1>2, <1>5, <1>6 DEF Calmly, RecoveryInv, Asking
  <2>3. ASSUME NEW i \in 1..Len(down[current]), down[current][i].kind = "page"
        PROVE  /\ Main \notin todo
               /\ Answer(down[current], i, after[Main], cursor', job'.pos, Len(log))
    <3>1. /\ Main \notin todo
          /\ Answer(down[current], i, after[Main], cursor, job.pos, Len(log))
      BY <1>6, <2>3 DEF Calmly, RecoveryInv, Asking
    <3>2. /\ job'.pos = job.pos \/ job'.pos = 0
          /\ cursor' = cursor \/ cursor' = job.pos
      BY <1>1, <1>2, <1>6
    <3>3. down[current][i].pos \in Nat
      <4>1. current \in Client
        BY <1>6, Facts DEF Calmly, RecoveryInv, Links
      <4> QED
        BY <2>3, <4>1, Facts
    <3> HIDE DEF Calmly
    <3> QED
      BY <1>2, <3>1, <3>2, <3>3 DEF Answer
  <2> QED
    BY <1>1, <2>2, <2>3 DEF Asking
<1>7. ASSUME pc[Main] = "recover", job.owner = Main
      PROVE  Reading'
  <2>1. /\ todo = {} /\ \A i \in 1..Len(down[current]) : down[current][i].kind # "page"
        /\ job.last >= after[Main] /\ Have(job.pos - 1, log, receipts)
        /\ job.more => job.last > after[Main]
        /\ ~job.more => /\ cursor <= job.last
                        /\ status[current] = "open" =>
                             Rest(down[current], 1, job.last, Len(log))
    BY <1>7 DEF Calmly, RecoveryInv, Reading
  <2>2. /\ job'.last = job.last /\ job'.more = job.more
        /\ \/ job'.pos = job.pos /\ job'.pos - 1 = job.pos - 1
           \/ job'.pos = job.pos + 1 /\ job'.pos - 1 = job.pos /\ log[job.pos] \in receipts
        /\ cursor' = cursor \/ cursor' = job.pos
    BY <1>1, <1>2, <1>7
  <2>3. job'.pos <= job'.last + 1
    BY <1>1, <1>2, <2>2
  <2>4. Have(job'.pos - 1, log, receipts')
    <3>1. job.pos - 1 \in Nat
      BY <1>2
    <3> QED
      BY <1>4, <1>5, <2>1, <2>2, <3>1
  <2>5. ~job.more => cursor' <= job.last
    BY <1>1, <2>1, <2>2
  <2> QED
    BY <1>1, <2>1, <2>2, <2>3, <2>4, <2>5 DEF Reading
<1>8. ASSUME pc[Main] # "recover"
      PROVE  Listening'
  <2>1. /\ Have(cursor, log, receipts) /\ Have(job.pos - 1, log, receipts)
        /\ \A c \in Client : status[c] = "open" /\ pc[Main] # "connect" =>
             \E n \in 0..Len(log) : Rest(down[c], 1, n, Len(log)) /\ job.pos = n
    BY <1>1, <1>8 DEF Calmly, RecoveryInv, Listening
  <2>2. job.owner = None
    BY <1>2, <1>8, Facts
  <2>3. \/ ~JsIdle' /\ job'.pos = job.pos
        \/ JsIdle' /\ log[job.pos] \in receipts
    BY <1>1, <1>2, <2>2 DEF JsIdle
  <2>4. Have(cursor', log, receipts')
    BY <1>1, <1>2, <1>4, <1>5, <2>1
  <2>5. ~JsIdle' => Have(job'.pos - 1, log, receipts')
    <3>1. job.pos - 1 \in Nat
      BY <1>2
    <3>2. Have(job.pos - 1, log, receipts')
      BY <1>5, <2>1, <3>1
    <3>3. ~JsIdle' => job'.pos = job.pos
      BY <2>3
    <3> QED
      BY <3>2, <3>3
  <2>6. JsIdle' => Have(job.pos, log, receipts')
    BY <1>4, <2>1, <2>3
  <2>7. ~JsIdle' => job'.pos = job.pos
    BY <2>3
  <2> QED
    BY <1>1, <2>1, <2>4, <2>5, <2>6, <2>7 DEF Listening
<1>9. job'.owner \in {None, job.owner}
  BY <1>1, <1>2
<1>10. Asking' /\ Reading' /\ Listening'
  <2>1. CASE pc[Main] # "recover"
    BY <1>1, <1>8, <2>1 DEF Asking, Reading
  <2>2. CASE pc[Main] = "recover" /\ job.owner = None
    BY <1>1, <1>2, <1>6, <1>9, <2>2 DEF Reading, Listening
  <2>3. CASE pc[Main] = "recover" /\ job.owner = Main
    <3>1. job'.owner = Main
      BY <1>1, <1>2, <2>3
    <3> QED
      BY <1>1, <1>2, <1>7, <2>3, <3>1 DEF Asking, Listening
  <2> QED
    BY <1>2, <2>1, <2>2, <2>3
<1> QED
  BY <1>3, <1>10 DEF RecoveryInv

\* The last page is observed: what comes next comes live.
LEMMA EndStep ==
  ASSUME Calmly, RecoveryEnds
  PROVE  RecoveryInv'
<1>1. PageObserved /\ LastPage /\ job.owner = Main /\ pc[Main] = "recover"
  BY Facts DEF RecoveryEnds, PageObserved
<1>2. /\ job.step = "check" /\ job.pos > job.last /\ Main \in Task /\ Main \notin Sender
      /\ job.pos \in Nat /\ job.last \in Nat /\ after[Main] \in Nat /\ cursor \in Nat
      /\ Main # None /\ job.more \in BOOLEAN /\ job.last <= Len(log) /\ Len(log) \in Nat
  BY <1>1, Facts, ConstantAssumption DEF PageObserved, Task, Job
<1>3. /\ cursor' = IF job.last > after[Main] THEN job.last ELSE cursor
      /\ pc'[Main] = "idle" /\ job' = NoJob
      /\ UNCHANGED <<status, down, todo, current, log, receipts>>
  BY <1>1, <1>2 DEF RecoveryEnds, ConnectReturns, Calmly, IInv, TypeOK, relay, net
<1>4. /\ todo = {} /\ job.last >= after[Main] /\ job.pos <= job.last + 1
      /\ Have(job.pos - 1, log, receipts)
      /\ job.more => job.last > after[Main]
      /\ ~job.more => /\ cursor <= job.last
                      /\ status[current] = "open" => Rest(down[current], 1, job.last, Len(log))
  BY <1>1 DEF Calmly, RecoveryInv, Reading
<1>5. ~job.more /\ job.pos - 1 = job.last
  BY <1>1, <1>2, <1>4 DEF LastPage
<1>6. Have(job.last, log, receipts)
  BY <1>4, <1>5
<1>7. Have(cursor', log, receipts)
  <2>1. cursor' \in Nat /\ cursor' <= job.last
    BY <1>2, <1>3, <1>4, <1>5
  <2>2. \A p \in 1..cursor' : p \in 1..job.last
    BY <1>2, <2>1
  <2> QED
    BY <1>6, <2>2 DEF Have
<1>8. JsIdle' /\ job'.owner = None /\ job'.pos = job'.last
  BY <1>3 DEF JsIdle, NoJob
<1>9. Links'
  BY <1>3, <1>4, <1>8 DEF Links, Calmly, RecoveryInv
<1>10. Asking' /\ Reading'
  BY <1>3 DEF Asking, Reading
<1>11. Listening'
  <2>1. job.last \in 0..Len(log)
    BY <1>2
  <2>2. ASSUME NEW c \in Client, status[c] = "open"
        PROVE  Rest(down[c], 1, job.last, Len(log))
    <3>1. c = current
      BY <1>1, <2>2 DEF Calmly, OneSocket
    <3> QED
      BY <1>4, <1>5, <2>2, <3>1
  <2> QED
    BY <1>3, <1>6, <1>7, <1>8, <2>1, <2>2 DEF Listening
<1> QED
  BY <1>9, <1>10, <1>11 DEF RecoveryInv

\* The next page is asked for from the last position of this one.
LEMMA NextPageStep ==
  ASSUME Calmly, NextPage
  PROVE  RecoveryInv'
<1>1. PageObserved /\ ~LastPage /\ job.owner = Main /\ pc[Main] = "recover"
  BY Facts DEF NextPage, PageObserved
<1>2. /\ job.step = "check" /\ job.pos > job.last /\ Main \in Task
      /\ job.pos \in Nat /\ job.last \in Nat /\ Main # None
  BY <1>1, Facts DEF PageObserved
<1>3. /\ after'[Main] = job.last /\ sock'[Main] = current /\ job' = NoJob
      /\ UNCHANGED <<status, down, current, pc, log, receipts, cursor>>
  BY <1>1, <1>2, Facts DEF NextPage, Calmly, IInv, TypeOK, relay, db
<1>4. /\ todo = {} /\ job.pos <= job.last + 1 /\ Have(job.pos - 1, log, receipts)
      /\ \A i \in 1..Len(down[current]) : down[current][i].kind # "page"
  BY <1>1 DEF Calmly, RecoveryInv, Reading
<1>5. job.pos - 1 = job.last
  BY <1>2, <1>4
<1>6. JsIdle' /\ job'.owner = None /\ job'.pos = job'.last
  BY <1>3 DEF JsIdle, NoJob
<1>7. Links'
  BY <1>1, <1>3, <1>6 DEF Links, Calmly, RecoveryInv
<1>8. Asking' /\ Reading' /\ Listening'
  BY <1>1, <1>2, <1>3, <1>4, <1>5, <1>6 DEF Asking, Reading, Listening
<1> QED
  BY <1>7, <1>8 DEF RecoveryInv

\* The relay lets the connection join.
LEMMA RelayJoinStep ==
  ASSUME Calmly, RelayJoins(Main)
  PROVE  RecoveryInv'
<1> DEFINE c == sock[Main]
           f == Reply("join", Main)
<1>1. /\ pc[Main] = "connect" /\ status[c] = "connecting" /\ Push(c, f)
      /\ status' = [status EXCEPT ![c] = "open"]
      /\ UNCHANGED <<pc, sock, current, todo, job, log, receipts, cursor>>
  BY DEF RelayJoins, relay, tasks, db
<1>2. f \in Frame /\ f.kind = "join" /\ TypeOK
  BY Facts, ReplyType DEF Reply, Msg, Calmly, IInv
<1>3. /\ \A d \in Client : status[d] # "open"
      /\ \A d \in Client : status[d] = "connecting" => down[d] = <<>>
  BY <1>1 DEF Calmly, OneSocket
<1>4. CASE c \in Client
  <2>1. Len(down[c]) = 0
    BY <1>1, <1>3, <1>4
  <2>2. /\ Len(down'[c]) = Len(down[c]) + 1 /\ down'[c][Len(down[c]) + 1] = f
        /\ \A d \in Client : d # c => down'[d] = down[d]
    BY <1>1, <1>2, <1>4, Pushed
  <2>3. Len(down'[c]) = 1 /\ down'[c][1] = f
    BY <2>1, <2>2
  <2>4. \A d \in Client : status'[d] = IF d = c THEN "open" ELSE status[d]
    BY <1>1, <1>2, <1>4 DEF TypeOK
  <2> HIDE DEF c, f
  <2>5. \A d \in Client : \A i \in 1..Len(down'[d]) : down'[d][i].kind # "nack"
    <3>1. \A i \in 1..Len(down'[c]) : down'[c][i].kind # "nack"
      BY <1>2, <2>3
    <3> QED
      BY <2>2, <3>1 DEF Calmly, RecoveryInv, Links
  <2>6. \A d \in Client : status'[d] = "open" =>
          /\ Len(down'[d]) >= 1 /\ down'[d][1].kind = "join"
          /\ \A i \in 2..Len(down'[d]) : down'[d][i].kind = "receipt"
    BY <1>2, <1>3, <2>3, <2>4
  <2>7. Links'
    BY <1>1, <2>4, <2>5, <2>6 DEF Calmly, RecoveryInv, Links, JsIdle
  <2>8. Asking' /\ Reading' /\ Listening'
    BY <1>1 DEF Calmly, RecoveryInv, Asking, Reading, Listening, JsIdle
  <2> QED
    BY <2>7, <2>8 DEF RecoveryInv
<1>5. CASE c \notin Client
  <2>1. down' = down /\ status' = status
    BY <1>1, <1>2, <1>5 DEF TypeOK, Push
  <2> QED
    BY <1>1, <2>1 DEF Calmly, RecoveryInv, Links, Asking, Reading, Listening, JsIdle
<1> QED
  BY <1>4, <1>5

\* The page that receipt.list returns.
LEMMA Listed ==
  ASSUME Calmly, RelayLists(Main)
  PROVE  \E f \in Frame :
           /\ Push(sock[Main], f) /\ f.kind = "page"
           /\ f.pos >= after[Main] /\ (f.more => f.pos > after[Main])
           /\ (~f.more => f.pos = Len(log))
<1> DEFINE end  == after[Main] + PageLimit
           last == IF end < Len(log) THEN end
                   ELSE IF after[Main] < Len(log) THEN Len(log) ELSE after[Main]
           more == last < Len(log)
           f    == Msg("page", Main, env[Main], last, more)
<1>1. /\ after[Main] \in Nat /\ after[Main] <= Len(log) /\ Len(log) \in Nat
      /\ PageLimit \in Nat \ {0} /\ Main \in Task
      /\ env[Main] \in Envelope \cup {None}
  BY Facts, ConstantAssumption DEF Calmly, IInv, TypeOK
<1>2. /\ last \in Nat /\ more \in BOOLEAN /\ last >= after[Main]
      /\ (more => last > after[Main]) /\ (~more => last = Len(log))
  BY <1>1
<1>3. Push(sock[Main], f)
  BY DEF RelayLists
<1> HIDE DEF last, more
<1>4. f \in Frame /\ f.kind = "page" /\ f.pos = last /\ f.more = more
  BY <1>1, <1>2 DEF Msg, Frame
<1> QED
  BY <1>2, <1>3, <1>4

\* A page leaves the relay.
LEMMA ListStep ==
  ASSUME Calmly, RelayLists(Main)
  PROVE  RecoveryInv'
<1> DEFINE c == sock[Main]
           q == down[c]
           r == down'[c]
<1>1. PICK f \in Frame :
        /\ Push(c, f) /\ f.kind = "page"
        /\ f.pos >= after[Main] /\ (f.more => f.pos > after[Main])
        /\ (~f.more => f.pos = Len(log))
  BY Listed
<1>2. /\ Main \in todo /\ pc[Main] = "recover" /\ todo' = todo \ {Main}
      /\ UNCHANGED <<status, pc, sock, current, after, job, log, receipts, cursor>>
  BY DEF RelayLists, Served, relay, tasks, db
<1>3. c = current /\ c \in Client
  BY <1>2, Facts DEF Calmly, RecoveryInv, Links
<1>4. job.owner = None
  BY <1>2, Facts DEF Calmly, RecoveryInv, Reading
<1>5. /\ Len(q) \in Nat /\ Len(r) = Len(q) + 1 /\ r[Len(q) + 1] = f
      /\ \A i \in 1..Len(q) : r[i] = q[i]
      /\ \A d \in Client : d # c => down'[d] = down[d]
  BY <1>1, <1>3, Pushed DEF Calmly, IInv
<1>6. todo' = {} /\ Main \notin todo'
  BY <1>2, Facts
<1>7. \A i \in 1..Len(q) : q[i].kind # "page" /\ q[i].kind # "nack"
  BY <1>2, <1>3, <1>4 DEF Calmly, RecoveryInv, Asking, Links
<1>8. \A i \in 1..Len(q) : q[i].pos <= Len(log)
  BY <1>3, Facts
<1>9. /\ Len(log) \in Nat /\ cursor <= Len(log) /\ job.pos <= Len(log)
      /\ Have(after[Main], log, receipts) /\ f.pos \in Nat
  BY <1>2, <1>4, Facts DEF Calmly, RecoveryInv, Asking, Links, Frame
<1> HIDE DEF q, r, c
<1>10. \A i \in 1..Len(r) : i \in 1..Len(q) \/ i = Len(q) + 1
  BY <1>5
<1>11. Answer(r, Len(q) + 1, after[Main], cursor, job.pos, Len(log))
  <2> DEFINE k == Len(q) + 1
  <2>1. k \in Nat /\ Len(r) = k /\ r[k] = f /\ k - 1 = Len(q)
    BY <1>5
  <2>2. \A j \in 1..Len(r) : r[j].kind = "page" => j = k
    BY <1>5, <1>7, <1>10
  <2>3. ASSUME ~f.more
        PROVE  /\ Rest(r, k + 1, f.pos, Len(log)) /\ cursor <= f.pos /\ job.pos <= f.pos
               /\ \A j \in 1..k - 1 : r[j].kind = "receipt" => r[j].pos <= f.pos
    <3>1. f.pos = Len(log)
      BY <1>1, <2>3
    <3>2. Rest(r, k + 1, f.pos, Len(log))
      BY <1>9, <2>1, <3>1 DEF Rest
    <3>3. \A j \in 1..k - 1 : j \in 1..Len(q) /\ r[j] = q[j]
      BY <1>5, <2>1
    <3> QED
      BY <1>8, <1>9, <3>1, <3>2, <3>3
  <2> HIDE DEF k
  <2>4. Answer(r, k, after[Main], cursor, job.pos, Len(log))
    BY <1>1, <2>1, <2>2, <2>3 DEF Answer
  <2> QED
    BY <2>4 DEF k
<1>12. Asking'
  <2>1. \A i \in 1..Len(r) : r[i].kind = "page" =>
          Main \notin todo' /\ Answer(r, i, after[Main], cursor, job.pos, Len(log))
    BY <1>5, <1>6, <1>7, <1>10, <1>11
  <2> QED
    BY <1>2, <1>3, <1>9, <2>1 DEF Asking, r
<1>13. Links'
  <2>1. \A i \in 1..Len(r) : r[i].kind # "nack"
    BY <1>1, <1>5, <1>7, <1>10
  <2>2. \A d \in Client : \A i \in 1..Len(down'[d]) : down'[d][i].kind # "nack"
    BY <1>5, <2>1 DEF Calmly, RecoveryInv, Links, r
  <2> QED
    BY <1>2, <2>2 DEF Calmly, RecoveryInv, Links
<1>14. Reading' /\ Listening'
  BY <1>2, <1>4, Facts DEF Reading, Listening
<1> QED
  BY <1>12, <1>13, <1>14 DEF RecoveryInv

\* A receipt reaches the relay, and the connection if it is open.
LEMMA DeliverStep ==
  ASSUME Calmly, NEW e \in Envelope, RelayDelivers(e)
  PROVE  RecoveryInv'
<1> DEFINE m == Len(log)
<1>1. /\ UNCHANGED <<status, todo, current, pc, sock, after, job, receipts, cursor>>
      /\ m \in Nat /\ Len(log') = m + 1 /\ \A i \in 1..m : log'[i] = log[i]
  BY Delivered DEF RelayDelivers, tasks, db, Calmly, IInv
<1>2. ASSUME NEW c \in Client, status[c] = "open"
      PROVE  OneMore(down[c], down'[c], m)
  BY <1>2, Delivered DEF OneMore, Calmly, IInv
<1>3. ASSUME NEW c \in Client, status[c] # "open"
      PROVE  down'[c] = down[c]
  <2>1. status[c] \notin {"open", "closing"}
    BY <1>3 DEF Calmly, RecoveryInv, Links
  <2> QED
    BY <2>1, Delivered DEF Calmly, IInv
<1>4. \A c \in Client : status[c] # "open" => Len(down[c]) = 0
  <2>1. ASSUME NEW c \in Client, status[c] # "open"
        PROVE  down[c] = <<>>
    BY <2>1 DEF Calmly, RecoveryInv, Links, OneSocket
  <2> QED
    BY <2>1
<1>5. ASSUME NEW n \in Int, n <= m, Have(n, log, receipts)
      PROVE  Have(n, log', receipts)
  BY <1>1, <1>5 DEF Have
<1>6. /\ cursor \in Nat /\ cursor <= m /\ after[Main] \in Nat /\ after[Main] <= m
      /\ job.pos \in Nat /\ job.last \in Nat /\ job.last <= m
  BY Facts
<1> HIDE DEF m
<1>7. Links'
  <2>1. ASSUME NEW c \in Client, status[c] = "open", NEW i \in 1..Len(down'[c])
        PROVE  /\ down'[c][i].kind # "nack"
               /\ i \in 1..Len(down[c]) => down'[c][i] = down[c][i]
               /\ i \notin 1..Len(down[c]) => down'[c][i].kind = "receipt"
    <3>1. OneMore(down[c], down'[c], m)
      BY <1>2, <2>1
    <3>2. i \in 1..Len(down[c]) \/ i = Len(down[c]) + 1
      BY <3>1 DEF OneMore
    <3>3. CASE i \in 1..Len(down[c])
      BY <3>1, <3>3 DEF OneMore, Calmly, RecoveryInv, Links
    <3>4. CASE i = Len(down[c]) + 1
      BY <3>1, <3>4 DEF OneMore
    <3> QED
      BY <3>2, <3>3, <3>4
  <2>2. \A c \in Client : \A i \in 1..Len(down'[c]) : down'[c][i].kind # "nack"
    BY <1>3, <2>1 DEF Calmly, RecoveryInv, Links
  <2>3. ASSUME pc[Main] = "connect", NEW c \in Client, status[c] = "open"
        PROVE  /\ Len(down'[c]) >= 1 /\ down'[c][1].kind = "join"
               /\ \A i \in 2..Len(down'[c]) : down'[c][i].kind = "receipt"
    <3>1. /\ Len(down[c]) >= 1 /\ down[c][1].kind = "join"
          /\ \A i \in 2..Len(down[c]) : down[c][i].kind = "receipt"
      BY <2>3 DEF Calmly, RecoveryInv, Links
    <3>2. OneMore(down[c], down'[c], m)
      BY <1>2, <2>3
    <3>3. Len(down'[c]) >= 1 /\ 1 \in 1..Len(down[c])
      BY <3>1, <3>2 DEF OneMore
    <3>4. down'[c][1].kind = "join"
      BY <3>1, <3>2, <3>3 DEF OneMore
    <3>5. ASSUME NEW i \in 2..Len(down'[c])
          PROVE  down'[c][i].kind = "receipt"
      <4>1. i \in 1..Len(down'[c]) /\ (i \in 1..Len(down[c]) => i \in 2..Len(down[c]))
        BY <3>2 DEF OneMore
      <4> QED
        BY <2>1, <2>3, <3>1, <4>1
    <3> QED
      BY <3>3, <3>4, <3>5
  <2> QED
    BY <1>1, <2>2, <2>3 DEF Calmly, RecoveryInv, Links, JsIdle
<1>8. ASSUME pc[Main] = "recover", job.owner = None
      PROVE  Asking'
  <2>1. current \in Client
    BY <1>8, Facts DEF Calmly, RecoveryInv, Links
  <2>2. Have(after[Main], log', receipts)
    BY <1>5, <1>6, <1>8 DEF Calmly, RecoveryInv, Asking
  <2> DEFINE q == down[current]
             r == down'[current]
  <2>3. ASSUME NEW i \in 1..Len(r), r[i].kind = "page"
        PROVE  Main \notin todo /\ Answer(r, i, after[Main], cursor, job.pos, m + 1)
    <3>1. CASE status[current] = "open"
      <4>1. OneMore(q, r, m)
        BY <1>2, <2>1, <3>1
      <4>2. i \in 1..Len(q) \/ i = Len(q) + 1
        BY <4>1 DEF OneMore
      <4>3. i \in 1..Len(q) /\ r[i] = q[i]
        BY <2>3, <4>1, <4>2 DEF OneMore
      <4>4. Main \notin todo /\ Answer(q, i, after[Main], cursor, job.pos, m)
        BY <1>8, <2>3, <4>3 DEF Calmly, RecoveryInv, Asking, m
      <4>5. q[i].pos \in Nat
        BY <2>1, <4>3, Facts
      <4> HIDE DEF q, r
      <4> QED
        BY <1>1, <4>1, <4>3, <4>4, <4>5, AnswerMore DEF m
    <3>2. CASE status[current] # "open"
      BY <1>3, <1>4, <2>1, <2>3, <3>2
    <3> QED
      BY <3>1, <3>2
  <2> QED
    BY <1>1, <2>2, <2>3 DEF Asking
<1>9. ASSUME pc[Main] = "recover", job.owner = Main
      PROVE  Reading'
  <2>1. /\ todo = {} /\ \A i \in 1..Len(down[current]) : down[current][i].kind # "page"
        /\ job.last >= after[Main] /\ job.pos <= job.last + 1
        /\ Have(job.pos - 1, log, receipts)
        /\ job.more => job.last > after[Main]
        /\ ~job.more => /\ cursor <= job.last
                        /\ status[current] = "open" => Rest(down[current], 1, job.last, m)
    BY <1>9 DEF Calmly, RecoveryInv, Reading, m
  <2>2. current \in Client
    BY <1>9, Facts DEF Calmly, RecoveryInv, Links
  <2>3. Have(job.pos - 1, log', receipts)
    <3>1. job.pos - 1 \in Int /\ job.pos - 1 <= m
      BY <1>1, <1>6, <2>1 DEF m
    <3> QED
      BY <1>5, <2>1, <3>1
  <2>4. \A i \in 1..Len(down'[current]) : down'[current][i].kind # "page"
    <3>1. CASE status[current] = "open"
      <4>1. OneMore(down[current], down'[current], m)
        BY <1>2, <2>2, <3>1
      <4>2. \A i \in 1..Len(down'[current]) : i \in 1..Len(down[current]) \/ i = Len(down[current]) + 1
        BY <4>1 DEF OneMore
      <4> QED
        BY <2>1, <4>1, <4>2 DEF OneMore
    <3>2. CASE status[current] # "open"
      BY <1>3, <2>1, <2>2, <3>2
    <3> QED
      BY <3>1, <3>2
  <2>5. ASSUME ~job.more, status[current] = "open"
        PROVE  Rest(down'[current], 1, job.last, m + 1)
    <3>1. OneMore(down[current], down'[current], m) /\ Rest(down[current], 1, job.last, m)
      BY <1>2, <2>1, <2>2, <2>5
    <3>2. 1 \in 1..Len(down[current]) + 1 /\ m \in Nat
      BY <1>1, <3>1 DEF OneMore, m
    <3> QED
      BY <1>6, <3>1, <3>2, RestMore
  <2> QED
    BY <1>1, <2>1, <2>3, <2>4, <2>5 DEF Reading
<1>10. ASSUME pc[Main] # "recover"
       PROVE  Listening'
  <2>1. /\ Have(cursor, log, receipts)
        /\ ~JsIdle => Have(job.pos - 1, log, receipts)
    BY <1>10 DEF Calmly, RecoveryInv, Listening
  <2>2. job.owner = None /\ job.pos = job.last
    BY <1>10, Facts DEF Calmly, RecoveryInv, Links
  <2>3. /\ Have(cursor, log', receipts)
        /\ ~JsIdle => Have(job.pos - 1, log', receipts)
    <3>1. job.pos - 1 \in Int /\ job.pos - 1 <= m /\ cursor \in Int
      BY <1>1, <1>6, <2>2 DEF m
    <3> QED
      BY <1>5, <1>6, <2>1, <3>1
  <2>4. ASSUME NEW c \in Client, status[c] = "open", pc[Main] # "connect"
        PROVE  \E n \in 0..m + 1 :
                  /\ Rest(down'[c], 1, n, m + 1)
                  /\ IF JsIdle THEN Have(n, log', receipts) ELSE job.pos = n
    <3>1. PICK n \in 0..m : /\ Rest(down[c], 1, n, m)
                            /\ IF JsIdle THEN Have(n, log, receipts) ELSE job.pos = n
      BY <1>10, <2>4 DEF Calmly, RecoveryInv, Listening, m
    <3>2. OneMore(down[c], down'[c], m)
      BY <1>2, <2>4
    <3>3. 1 \in 1..Len(down[c]) + 1 /\ m \in Nat /\ n \in Nat /\ n <= m /\ n \in 0..m + 1
      BY <1>1, <3>2 DEF OneMore, m
    <3>4. Rest(down'[c], 1, n, m + 1)
      BY <3>1, <3>2, <3>3, RestMore
    <3>5. IF JsIdle THEN Have(n, log', receipts) ELSE job.pos = n
      BY <1>5, <3>1, <3>3
    <3> QED
      BY <3>3, <3>4, <3>5
  <2> QED
    BY <1>1, <2>3, <2>4 DEF Listening, JsIdle
<1>11. Asking' /\ Reading' /\ Listening'
  <2>1. CASE pc[Main] # "recover"
    BY <1>1, <1>10, <2>1 DEF Asking, Reading
  <2>2. CASE pc[Main] = "recover" /\ job.owner = None
    BY <1>1, <1>8, <2>2, Facts DEF Reading, Listening
  <2>3. CASE pc[Main] = "recover" /\ job.owner = Main
    BY <1>1, <1>9, <2>3, Facts DEF Asking, Listening
  <2> QED
    BY <2>1, <2>2, <2>3, Facts
<1> QED
  BY <1>7, <1>11 DEF RecoveryInv

\* A connection is lost, with all that was on its way.
LEMMA DropStep ==
  ASSUME Calmly, NEW c \in Client, Drop(c)
  PROVE  RecoveryInv'
<1>1. /\ status' = [status EXCEPT ![c] = "closed"] /\ down' = [down EXCEPT ![c] = <<>>]
      /\ todo' = {t \in todo : sock[t] # c}
      /\ UNCHANGED <<pc, sock, current, after, job, log, receipts, cursor>>
  BY DEF Drop, Gone, tasks, db, relay
<1>2. /\ \A d \in Client : status'[d] = IF d = c THEN "closed" ELSE status[d]
      /\ \A d \in Client : down'[d] = IF d = c THEN <<>> ELSE down[d]
  BY <1>1 DEF Calmly, IInv, TypeOK
<1>3. Links'
  BY <1>1, <1>2 DEF Calmly, RecoveryInv, Links, JsIdle
<1>4. pc[Main] = "recover" => current \in Client
  BY Facts DEF Calmly, RecoveryInv, Links
<1>5. pc[Main] = "recover" =>
        \/ down'[current] = <<>> /\ status'[current] = "closed"
        \/ down'[current] = down[current] /\ status'[current] = status[current]
  BY <1>2, <1>4
<1>6. todo' \subseteq todo
  BY <1>1
<1>7. Asking'
  BY <1>1, <1>5, <1>6 DEF Calmly, RecoveryInv, Asking
<1>8. Reading'
  BY <1>1, <1>5, <1>6 DEF Calmly, RecoveryInv, Reading
<1>9. Listening'
  BY <1>1, <1>2 DEF Calmly, RecoveryInv, Listening, JsIdle
<1> QED
  BY <1>3, <1>7, <1>8, <1>9 DEF RecoveryInv

\* Every step keeps what is still to come in order.
LEMMA RecoveryKept == Calmly /\ [Next]_vars /\ Calm' => RecoveryInv'
<1> SUFFICES ASSUME Calmly, [Next]_vars, Calm'
             PROVE  RecoveryInv'
  OBVIOUS
<1>a. Alone /\ IInv /\ refusals = 0 /\ crashes = 0 /\ refusals' = 0 /\ crashes' = 0
  BY DEF Calmly, Calm
<1>1. ~RelayRefusesJoin(Main) /\ ~RelayRefuses(Main) /\ ~Crash
  BY <1>a DEF RelayRefusesJoin, RelayRefuses, Crash
<1>2. \A c \in Client : ~CloseCompletes(c)
  BY DEF CloseCompletes, Calmly, RecoveryInv, Links
<1>3. CASE UNCHANGED vars
  BY <1>3 DEF Calmly, RecoveryInv, Links, Asking, Reading, Listening, JsIdle,
              vars, db, relay, net, tasks
<1>4. CASE Next
  BY <1>a, <1>1, <1>2, <1>4, AloneCases, ConnectStep, WakeStep, FailStep, JoinStep, NoNack,
     PageStep, ReceiptStep, ObservationStep, EndStep, NextPageStep, RelayJoinStep, ListStep,
     DeliverStep, DropStep
<1> QED
  BY <1>3, <1>4

\* A refusal and a death of the process are not forgotten.
LEMMA CalmBefore == Alone /\ IInv /\ [Next]_vars /\ Calm' => Calm
<1> SUFFICES ASSUME Alone, IInv, [Next]_vars, Calm'
             PROVE  Calm
  OBVIOUS
<1> USE DEF vars, caps
<1>a. refusals \in Nat /\ crashes \in Nat /\ refusals' = 0 /\ crashes' = 0
  BY DEF Calm, IInv, TypeOK
<1>1. CASE RelayRefusesJoin(Main) \/ RelayRefuses(Main) \/ Crash
  BY <1>a, <1>1 DEF RelayRefusesJoin, RelayRefuses, Crash
<1>2. ASSUME NEW c \in Client,
             HandleJoin(c) \/ HandleJoinNack(c) \/ HandleListNack(c) \/ HandlePage(c)
             \/ HandleReceipt(c) \/ Drop(c) \/ CloseCompletes(c)
      PROVE  UNCHANGED <<refusals, crashes>>
  BY <1>2 DEF HandleJoin, HandleJoinNack, HandleListNack, HandlePage, HandleReceipt, Drop,
              CloseCompletes, Gone
<1>3. CASE Observation \/ RecoveryEnds \/ NextPage
  BY <1>a, <1>3 DEF Calm, Observation, SkipKnown, UpsertReceipt, MarkOutboxDelivered,
                    InsertSidecarEvent, UpdateReceiptCursor, RecoveryEnds, NextPage
<1>4. CASE EnsureReady \/ KeeperReconnects \/ KeeperWakes
  BY <1>a, <1>4 DEF Calm, EnsureReady, KeeperReconnects, KeeperWakes
<1>5. CASE RelayJoins(Main) \/ RelayLists(Main) \/ ConnectFails(Main)
           \/ \E e \in Envelope : RelayDelivers(e)
  BY <1>a, <1>5 DEF Calm, RelayJoins, RelayLists, ConnectFails, RelayDelivers
<1>6. CASE UNCHANGED vars
  BY <1>a, <1>6 DEF Calm
<1> QED
  BY <1>a, <1>1, <1>2, <1>3, <1>4, <1>5, <1>6, AloneCases DEF Calm

\* Over any number of lost connections, and for as long as the relay has refused
\* nothing and the process has not died, whatever the relay keeps is recorded when the
\* agent is connected, has recovered and has handled every frame: the pages that
\* recoverMissedReceipts lists from the stored cursor and the receipts pushed live
\* leave no gap, although a live receipt moves the cursor past the pages that are
\* still to be listed (agent.ts, observeReceipt and recoverMissedReceipts).
THEOREM NoReceiptMissed ==
  Alone => (Spec => []NothingMissedUnbroken)
<1> SUFFICES ASSUME Alone
             PROVE  Spec => []NothingMissedUnbroken
  OBVIOUS
<1>1. Init => RecoveryInv
  <2> SUFFICES ASSUME Init
               PROVE  RecoveryInv
    OBVIOUS
  <2>1. /\ \A c \in Client : status[c] = "closed" /\ Len(down[c]) = 0
        /\ pc[Main] = "off" /\ todo = {} /\ job = NoJob /\ cursor = 0
    BY DEF Init, Task
  <2> QED
    BY <2>1 DEF RecoveryInv, Links, Asking, Reading, Listening, Have, JsIdle, NoJob
<1> DEFINE WhileCalm == Calm => RecoveryInv
<1>2. IInv /\ OneSocket /\ WhileCalm /\ [Next]_vars => WhileCalm'
  BY RecoveryKept, CalmBefore DEF Calmly
<1>3. IInv /\ OneSocket /\ RecoveryInv => NothingMissed
  <2> SUFFICES ASSUME IInv, OneSocket, RecoveryInv, Quiet
               PROVE  Range(log) \subseteq receipts
    BY DEF NothingMissed
  <2>1. /\ current \in Client /\ status[current] = "open" /\ pc[Main] = "idle" /\ JsIdle
        /\ Len(down[current]) = 0 /\ log \in Seq(Envelope) /\ Len(log) \in Nat
    BY DEF Quiet, Connected, IInv, TypeOK
  <2>2. PICK n \in 0..Len(log) : Rest(down[current], 1, n, Len(log)) /\ Have(n, log, receipts)
    BY <2>1 DEF RecoveryInv, Listening
  <2>3. n = Len(log)
    BY <2>1, <2>2 DEF Rest
  <2> QED
    BY <2>1, <2>2, <2>3 DEF Have, Range
<1>4. Init => WhileCalm
  BY <1>1
<1>5. IInv /\ OneSocket /\ WhileCalm => NothingMissedUnbroken
  BY <1>3 DEF Calm, NothingMissedUnbroken
<1> QED
  BY <1>2, <1>4, <1>5, OneSocketAlways, PTL DEF Spec
=============================================================================
