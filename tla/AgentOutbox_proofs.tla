------------------------- MODULE AgentOutbox_proofs -------------------------
(***************************************************************************)
(* The rows of the outbox that say pending, for any callers that send the  *)
(* same envelopes over each other, any refusals, lost connections and      *)
(* deaths of the process.                                                  *)
(*                                                                         *)
(* No step but the death of the process strands a row: a row becomes       *)
(* pending in the step that takes a send() past the insertion, and that    *)
(* send() leaves only by Settle, which writes another status (SendStage    *)
(* says that the row is there to be written).  A death strands at most the *)
(* rows its callers had in hand.                                           *)
(***************************************************************************)
EXTENDS AgentRuntime_proofs, FiniteSetTheorems

\* A send() past the insertion of its row.
UnderWay(s) == pc[s] \in {"resolve", "wire"}

Strands == IsFiniteSet(Stranded) /\ PendingIsUnderWay

-----------------------------------------------------------------------------
(* Steps that strand nothing.                                              *)

\* No row becomes pending and no send() with a row is over.
RowsHeld ==
  /\ \A e \in Envelope : outbox'[e] = "pending" => outbox[e] = "pending"
  /\ \A s \in Sender : UnderWay(s) => UnderWay(s)' /\ env'[s] = env[s]

LEMMA HeldStrandsNone == RowsHeld => Stranded' \subseteq Stranded
<1> SUFFICES ASSUME RowsHeld, NEW e \in Envelope, outbox'[e] = "pending",
                    NEW s \in Sender, env[s] = e, UnderWay(s)
             PROVE  env'[s] = e /\ UnderWay(s)'
  BY DEF RowsHeld, Stranded, UnderWay
<1> QED
  BY DEF RowsHeld

\* A send() that settles takes its row along.
LEMMA SettleStrandsNone ==
  ASSUME IInv, NEW s \in Sender, UnderWay(s), NEW st \in {"accepted", "failed"}, Settle(s, st)
  PROVE  Stranded' \subseteq Stranded
<1>1. /\ outbox \in [Envelope -> Status] /\ pc \in [Task -> Labels]
      /\ env \in [Task -> Envelope \cup {None}] /\ s \in Task
      /\ env[s] \in Envelope /\ outbox[env[s]] # "none"
  BY DEF IInv, TypeOK, SendStage, UnderWay, Task
<1>2. /\ outbox'[env[s]] = st
      /\ \A e \in Envelope : e # env[s] => outbox'[e] = outbox[e]
  BY <1>1 DEF Settle
<1>3. \A u \in Sender : u # s => pc'[u] = pc[u] /\ env'[u] = env[u]
  BY <1>1 DEF Settle, Task
<1>4. SUFFICES ASSUME NEW e \in Envelope, outbox'[e] = "pending",
                      NEW u \in Sender, env[u] = e, UnderWay(u)
               PROVE  outbox[e] = "pending" /\ env'[u] = e /\ UnderWay(u)'
  <2>1. ASSUME NEW e \in Envelope, outbox'[e] = "pending"
        PROVE  outbox[e] = "pending"
    BY <1>2, <2>1
  <2> QED
    BY <1>4, <2>1 DEF Stranded, UnderWay
<1>5. e # env[s] /\ u # s
  BY <1>2, <1>4
<1> QED
  BY <1>2, <1>3, <1>4, <1>5 DEF UnderWay

\* A send() that inserts a row goes on with it.
LEMMA InsertStrandsNone ==
  ASSUME TypeOK, NEW s \in Sender, ~UnderWay(s), NEW e0 \in Envelope, InsertPending(e0),
         UnderWay(s)', env'[s] = e0,
         \A u \in Sender : u # s => pc'[u] = pc[u] /\ env'[u] = env[u]
  PROVE  Stranded' \subseteq Stranded
<1>1. \A e \in Envelope : e # e0 => outbox'[e] = outbox[e]
  BY DEF TypeOK, InsertPending
<1>2. ASSUME NEW e \in Stranded'
      PROVE  e \in Envelope /\ e # e0 /\ outbox[e] = "pending"
  BY <1>1, <1>2 DEF Stranded, UnderWay
<1>3. ASSUME NEW e \in Stranded', NEW u \in Sender, env[u] = e, UnderWay(u)
      PROVE  FALSE
  <2>1. u # s /\ env'[u] = e /\ UnderWay(u)'
    BY <1>3 DEF UnderWay
  <2> QED
    BY <1>3, <2>1 DEF Stranded, UnderWay
<1> QED
  BY <1>2, <1>3 DEF Stranded, UnderWay

-----------------------------------------------------------------------------
(* The actions.                                                            *)

\* A connectClient that rejects was in front of the insertion.
LEMMA ThrowsHolds ==
  ASSUME TypeOK, NEW t \in Task, pc[t] \in {"connect", "recover"}, ConnectThrows(t),
         outbox' = outbox
  PROVE  RowsHeld
<1>1. \A u \in Task : u # t => pc'[u] = pc[u] /\ env'[u] = env[u]
  BY DEF TypeOK, ConnectThrows
<1> QED
  BY <1>1 DEF RowsHeld, UnderWay, Task

\* So was one that begins.
LEMMA OpenHolds ==
  ASSUME TypeOK, NEW t \in Task, ~UnderWay(t), OpenClient(t), outbox' = outbox,
         \A u \in Task : u # t => env'[u] = env[u]
  PROVE  RowsHeld
<1>1. \A u \in Task : u # t => pc'[u] = pc[u]
  BY DEF TypeOK, OpenClient
<1> QED
  BY <1>1 DEF RowsHeld, UnderWay, Task

LEMMA SendsStrandNone ==
  ASSUME IInv, NEW s \in Sender, Sends(s)
  PROVE  Stranded' \subseteq Stranded
<1>1. /\ TypeOK /\ s \in Task /\ pc \in [Task -> Labels]
      /\ env \in [Task -> Envelope \cup {None}]
  BY DEF IInv, TypeOK, Task
<1>2. ASSUME NEW e \in Envelope, SendFromOutbox(s, e)
      PROVE  Stranded' \subseteq Stranded
  <2>1. UNCHANGED <<outbox, pc, env>>
    BY <1>2 DEF SendFromOutbox, db, tasks
  <2> QED
    BY <2>1 DEF Stranded
<1>3. ASSUME NEW e \in Envelope, SendConnected(s, e)
      PROVE  Stranded' \subseteq Stranded
  <2>1. ~UnderWay(s) /\ InsertPending(e)
    BY <1>3 DEF SendConnected, Call, UnderWay
  <2>2. UnderWay(s)' /\ env'[s] = e
    BY <1>1, <1>3 DEF SendConnected, UnderWay
  <2>3. \A u \in Sender : u # s => pc'[u] = pc[u] /\ env'[u] = env[u]
    BY <1>1, <1>3 DEF SendConnected, Task
  <2> QED
    BY <1>1, <2>1, <2>2, <2>3, InsertStrandsNone
<1>4. ASSUME NEW e \in Envelope, SendReconnects(s, e)
      PROVE  Stranded' \subseteq Stranded
  <2>1. /\ ~UnderWay(s) /\ OpenClient(s) /\ outbox' = outbox
        /\ env' = [env EXCEPT ![s] = e]
    BY <1>4 DEF SendReconnects, Call, UnderWay, db
  <2>2. \A u \in Task : u # s => env'[u] = env[u]
    BY <1>1, <2>1
  <2> QED
    BY <1>1, <2>1, <2>2, OpenHolds, HeldStrandsNone
<1>5. ASSUME SendOnWire(s)
      PROVE  Stranded' \subseteq Stranded
  <2>1. /\ outbox' = outbox /\ env' = env /\ pc' = [pc EXCEPT ![s] = "wire"]
    BY <1>5 DEF SendOnWire, db
  <2>2. RowsHeld
    BY <1>1, <2>1 DEF RowsHeld, UnderWay, Task
  <2> QED
    BY <2>2, HeldStrandsNone
<1>6. ASSUME ResolveFails(s)
      PROVE  Stranded' \subseteq Stranded
  BY <1>6, SettleStrandsNone DEF ResolveFails, UnderWay
<1> QED
  BY <1>2, <1>3, <1>4, <1>5, <1>6 DEF Sends

LEMMA KeepsStrandNone ==
  ASSUME IInv, Keeps
  PROVE  Stranded' \subseteq Stranded
<1>1. TypeOK /\ Main \in Task /\ pc \in [Task -> Labels]
  BY DEF IInv, TypeOK, Task
<1>2. ASSUME EnsureReady \/ KeeperReconnects
      PROVE  Stranded' \subseteq Stranded
  <2>1. ~UnderWay(Main) /\ OpenClient(Main) /\ outbox' = outbox /\ env' = env
    BY <1>2 DEF EnsureReady, KeeperReconnects, UnderWay, db
  <2> QED
    BY <1>1, <2>1, OpenHolds, HeldStrandsNone
<1>3. ASSUME KeeperWakes
      PROVE  Stranded' \subseteq Stranded
  <2>1. /\ outbox' = outbox /\ env' = env /\ pc' = [pc EXCEPT ![Main] = "idle"]
        /\ pc[Main] = "sleep"
    BY <1>3 DEF KeeperWakes, db
  <2>2. RowsHeld
    BY <1>1, <2>1 DEF RowsHeld, UnderWay, Task
  <2> QED
    BY <2>2, HeldStrandsNone
<1> QED
  BY <1>2, <1>3 DEF Keeps

LEMMA HandlesStrandNone ==
  ASSUME IInv, NEW c \in Client, Handles(c)
  PROVE  Stranded' \subseteq Stranded
<1> DEFINE t == Head(down[c]).task
<1>1. /\ TypeOK /\ pc \in [Task -> Labels] /\ down \in [Client -> Seq(Frame)]
      /\ \A u \in Task : UnderWay(u) => u \in Sender
  BY DEF IInv, TypeOK, SendStage, UnderWay
<1>2. ASSUME NEW kind, NEW label, Arrives(c, kind), Awaited(c, t, label)
      PROVE  t \in Task /\ pc[t] = label
  <2>1. down[c] \in Seq(Frame) /\ down[c] # <<>>
    BY <1>1, <1>2 DEF Arrives
  <2>2. Head(down[c]) \in Frame
    BY <2>1
  <2> QED
    BY <1>2, <2>2 DEF Frame, Awaited
<1>3. ASSUME HandleJoin(c)
      PROVE  Stranded' \subseteq Stranded
  <2>1. /\ t \in Task /\ pc[t] = "connect" /\ outbox' = outbox /\ env' = env
        /\ pc' = [pc EXCEPT ![t] = "recover"]
    BY <1>2, <1>3 DEF HandleJoin, db
  <2>2. RowsHeld
    BY <1>1, <2>1 DEF RowsHeld, UnderWay, Task
  <2> QED
    BY <2>2, HeldStrandsNone
<1>4. ASSUME HandleJoinNack(c) \/ HandleListNack(c)
      PROVE  Stranded' \subseteq Stranded
  <2>1. /\ t \in Task /\ pc[t] \in {"connect", "recover"} /\ outbox' = outbox
        /\ ConnectThrows(t)
    BY <1>2, <1>4 DEF HandleJoinNack, HandleListNack, db
  <2> QED
    BY <1>1, <2>1, ThrowsHolds, HeldStrandsNone
<1>5. ASSUME HandleAck(c) \/ HandleSendNack(c)
      PROVE  Stranded' \subseteq Stranded
  <2>1. t \in Task /\ pc[t] = "wire" /\ (Settle(t, "accepted") \/ Settle(t, "failed"))
    BY <1>2, <1>5 DEF HandleAck, HandleSendNack
  <2>2. UnderWay(t) /\ t \in Sender
    BY <1>1, <2>1 DEF UnderWay
  <2> QED
    BY <2>1, <2>2, SettleStrandsNone
<1>6. ASSUME HandlePage(c) \/ HandleReceipt(c)
      PROVE  Stranded' \subseteq Stranded
  <2>1. UNCHANGED <<outbox, pc, env>>
    BY <1>6 DEF HandlePage, HandleReceipt, db, tasks
  <2> QED
    BY <2>1 DEF Stranded
<1> QED
  BY <1>3, <1>4, <1>5, <1>6 DEF Handles

LEMMA ObservesStrandNone ==
  ASSUME IInv, Observes
  PROVE  Stranded' \subseteq Stranded
<1>1. /\ TypeOK /\ pc \in [Task -> Labels] /\ outbox \in [Envelope -> Status]
  BY DEF IInv, TypeOK
<1>2. ASSUME SkipKnown \/ UpsertReceipt \/ InsertSidecarEvent \/ UpdateReceiptCursor
             \/ NextPage
      PROVE  Stranded' \subseteq Stranded
  <2>1. UNCHANGED <<outbox, pc, env>>
    BY <1>2 DEF SkipKnown, UpsertReceipt, InsertSidecarEvent, UpdateReceiptCursor, NextPage,
                db, tasks
  <2> QED
    BY <2>1 DEF Stranded
<1>3. ASSUME MarkOutboxDelivered
      PROVE  Stranded' \subseteq Stranded
  <2>1. /\ UNCHANGED <<pc, env>>
        /\ outbox' = [outbox EXCEPT ![log[job.pos]] = IF @ = "none" THEN @ ELSE "delivered"]
    BY <1>3 DEF MarkOutboxDelivered, tasks
  <2>2. RowsHeld
    BY <1>1, <2>1 DEF RowsHeld, UnderWay
  <2> QED
    BY <2>2, HeldStrandsNone
<1>4. ASSUME RecoveryEnds
      PROVE  Stranded' \subseteq Stranded
  <2>1. PICK t \in Task : pc[t] = "recover" /\ env' = env /\ ConnectReturns(t)
    BY <1>4 DEF RecoveryEnds, PageObserved, IInv, JobStage, TypeOK, Job
  <2>2. CASE /\ t \in Sender /\ InsertPending(env[t])
             /\ pc' = [pc EXCEPT ![t] = "resolve"]
    <3>1. env[t] \in Envelope
      BY <2>1, <2>2 DEF IInv, SendStage
    <3>2. ~UnderWay(t) /\ UnderWay(t)'
      BY <1>1, <2>1, <2>2 DEF UnderWay
    <3>3. \A u \in Sender : u # t => pc'[u] = pc[u] /\ env'[u] = env[u]
      BY <1>1, <2>1, <2>2 DEF Task
    <3> QED
      BY <1>1, <2>1, <2>2, <3>1, <3>2, <3>3, InsertStrandsNone
  <2>3. CASE outbox' = outbox /\ pc' = [pc EXCEPT ![t] = "idle"]
    <3>1. RowsHeld
      BY <1>1, <2>1, <2>3 DEF RowsHeld, UnderWay, Task
    <3> QED
      BY <3>1, HeldStrandsNone
  <2> QED
    BY <2>1, <2>2, <2>3 DEF ConnectReturns
<1> QED
  BY <1>2, <1>3, <1>4 DEF Observes

\* The relay and the sockets leave rows and callers alone, but for a connection
\* that fails.
LEMMA OutsideStrandsNone ==
  ASSUME IInv, Relays \/ (Fails /\ ~Crash) \/ UNCHANGED vars
  PROVE  Stranded' \subseteq Stranded
<1>1. UNCHANGED <<outbox, pc, env>> => Stranded' \subseteq Stranded
  BY DEF Stranded
<1>2. Relays => UNCHANGED <<outbox, pc, env>>
  BY DEF Relays, RelayJoins, RelayRefusesJoin, RelayAccepts, RelayRefuses, RelayLists,
         RelayDelivers, db, tasks
<1>3. ASSUME NEW c \in Client, Drop(c) \/ CloseCompletes(c)
      PROVE  UNCHANGED <<outbox, pc, env>>
  BY <1>3 DEF Drop, CloseCompletes, Gone, db, tasks
<1>4. ASSUME NEW t \in Task, ConnectFails(t)
      PROVE  Stranded' \subseteq Stranded
  <2>1. TypeOK /\ pc[t] \in {"connect", "recover"} /\ ConnectThrows(t) /\ outbox' = outbox
    BY <1>4 DEF ConnectFails, db, IInv
  <2> QED
    BY <2>1, ThrowsHolds, HeldStrandsNone
<1>5. UNCHANGED vars => UNCHANGED <<outbox, pc, env>>
  BY DEF vars, db, tasks
<1> QED
  BY <1>1, <1>2, <1>3, <1>4, <1>5 DEF Fails

-----------------------------------------------------------------------------
(* The count.                                                              *)

\* The death of the process strands what its callers had in hand.
LEMMA CrashStrands ==
  ASSUME ConstantAssumption, IInv, Strands, Crash
  PROVE  Strands'
<1> DEFINE InHand == {env[s] : s \in Sender}
           n == Cardinality(Sender)
<1>1. crashes \in Nat /\ crashes' = crashes + 1 /\ outbox' = outbox
  BY DEF IInv, TypeOK, Crash, db
<1>2. n \in Nat /\ IsFiniteSet(Sender)
  BY FS_CardinalityType DEF ConstantAssumption
<1>3. IsFiniteSet(InHand) /\ Cardinality(InHand) <= n
  <2> DEFINE f == [s \in Sender |-> env[s]]
  <2>1. f \in Surjection(Sender, InHand)
    BY DEF Surjection
  <2> HIDE DEF f, InHand
  <2> QED
    BY <1>2, <2>1, FS_Surjection
<1>4. Stranded' \subseteq Stranded \cup InHand
  BY <1>1 DEF Stranded
<1>5. /\ IsFiniteSet(Stranded) /\ Cardinality(Stranded) \in Nat
      /\ Cardinality(Stranded) <= crashes * n
  BY FS_CardinalityType DEF Strands, PendingIsUnderWay
<1> HIDE DEF InHand, n
<1>6. Cardinality(InHand) \in Nat
  BY <1>3, FS_CardinalityType
<1>7. /\ IsFiniteSet(Stranded \cup InHand)
      /\ Cardinality(Stranded \cup InHand) \in Nat
      /\ Cardinality(Stranded \cup InHand) <= Cardinality(Stranded) + Cardinality(InHand)
  <2>1. /\ IsFiniteSet(Stranded \cup InHand)
        /\ Cardinality(Stranded \cup InHand) =
             Cardinality(Stranded) + Cardinality(InHand) - Cardinality(Stranded \cap InHand)
    BY <1>3, <1>5, FS_Union
  <2>2. Cardinality(Stranded \cap InHand) \in Nat
    BY <1>3, <1>5, FS_Intersection, FS_CardinalityType
  <2>3. Cardinality(Stranded \cup InHand) \in Nat
    BY <2>1, FS_CardinalityType
  <2> QED
    BY <1>5, <1>6, <2>1, <2>2, <2>3
<1>8. /\ IsFiniteSet(Stranded') /\ Cardinality(Stranded') \in Nat
      /\ Cardinality(Stranded') <= Cardinality(Stranded \cup InHand)
  BY <1>4, <1>7, FS_Subset, FS_CardinalityType
<1>9. (crashes + 1) * n = crashes * n + n /\ crashes * n \in Nat
  BY <1>1, <1>2
<1>10. Cardinality(Stranded') <= crashes' * n
  BY <1>1, <1>2, <1>3, <1>5, <1>6, <1>7, <1>8, <1>9
<1> QED
  BY <1>8, <1>10 DEF Strands, PendingIsUnderWay, n

LEMMA StrandsStep == IInv /\ Strands /\ [Next]_vars => Strands'
<1> SUFFICES ASSUME IInv, Strands, [Next]_vars
             PROVE  Strands'
  OBVIOUS
<1>1. CASE Crash
  BY <1>1, CrashStrands, ConstantAssumption
<1>2. CASE ~Crash
  <2>1. Stranded' \subseteq Stranded
    BY <1>2, SendsStrandNone, KeepsStrandNone, HandlesStrandNone, ObservesStrandNone,
       OutsideStrandsNone DEF Next
  <2>2. IsFiniteSet(Stranded') /\ Cardinality(Stranded') <= Cardinality(Stranded)
    BY <2>1, FS_Subset DEF Strands
  <2>3. crashes' = crashes
    BY <1>2
       DEF Next, Sends, SendFromOutbox, SendConnected, SendReconnects, SendOnWire,
           ResolveFails, Keeps, EnsureReady, KeeperReconnects, KeeperWakes, Handles,
           HandleJoin, HandleJoinNack, HandleAck, HandleSendNack, HandleListNack, HandlePage,
           HandleReceipt, Observes, SkipKnown, UpsertReceipt, MarkOutboxDelivered,
           InsertSidecarEvent, UpdateReceiptCursor, RecoveryEnds, NextPage, Relays,
           RelayJoins, RelayRefusesJoin, RelayAccepts, RelayRefuses, RelayLists,
           RelayDelivers, Fails, ConnectFails, Drop, CloseCompletes, Gone, caps, vars
  <2>4. /\ Cardinality(Stranded) \in Nat /\ Cardinality(Stranded') \in Nat
        /\ crashes * Cardinality(Sender) \in Nat
    <3>1. IsFiniteSet(Stranded) /\ IsFiniteSet(Sender) /\ crashes \in Nat
      BY ConstantAssumption DEF ConstantAssumption, Strands, IInv, TypeOK
    <3>2. Cardinality(Sender) \in Nat
      BY <3>1, FS_CardinalityType
    <3> QED
      BY <2>2, <3>1, <3>2, FS_CardinalityType
  <2>5. Cardinality(Stranded') <= crashes' * Cardinality(Sender)
    BY <2>2, <2>3, <2>4 DEF Strands, PendingIsUnderWay
  <2> QED
    BY <2>2, <2>5 DEF Strands, PendingIsUnderWay
<1> QED
  BY <1>1, <1>2

\* A row of the outbox says pending only while a send() has it in hand, over any
\* callers, reconnections and refusals, and each death of the process leaves at
\* most one such row behind for each caller: what settles a send(), a failure of
\* the key or of the relay included, settles its row (send()).
THEOREM PendingRowsUnderWay == Spec => []PendingIsUnderWay
<1>1. Init => Strands
  <2> SUFFICES ASSUME Init
               PROVE  Strands
    OBVIOUS
  <2>1. Stranded = {} /\ crashes = 0
    BY DEF Init, Stranded
  <2>2. Cardinality(Sender) \in Nat
    BY ConstantAssumption, FS_CardinalityType DEF ConstantAssumption
  <2>3. IsFiniteSet(Stranded) /\ Cardinality(Stranded) = 0
    BY <2>1, FS_EmptySet
  <2> QED
    BY <2>1, <2>2, <2>3 DEF Strands, PendingIsUnderWay
<1>2. IInv /\ Strands /\ [Next]_vars => Strands'
  BY StrandsStep
<1>3. Strands => PendingIsUnderWay
  BY DEF Strands
<1> QED
  BY <1>1, <1>2, <1>3, Inductive, PTL DEF Spec
=============================================================================
