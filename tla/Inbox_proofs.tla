---------------------------- MODULE Inbox_proofs ----------------------------
(***************************************************************************)
(* What Inbox guarantees for every number of processes and messages and    *)
(* whatever the bounds.                                                    *)
(***************************************************************************)
EXTENDS Inbox, FiniteSetTheorems, TLAPS

LEMMA PublishedAfterAppend ==
  ASSUME NEW s \in Seq(Message), NEW m \in Message
  PROVE  Range(Append(s, m)) = Range(s) \cup {m}
<1> DEFINE t == Append(s, m)
<1>1. /\ Len(t) = Len(s) + 1 /\ DOMAIN t = 1..Len(t) /\ DOMAIN s = 1..Len(s)
      /\ t[Len(s) + 1] = m /\ \A i \in 1..Len(s) : t[i] = s[i]
      /\ Len(s) \in Nat
  OBVIOUS
<1> HIDE DEF t
<1>2. Range(t) = Range(s) \cup {m}
  BY <1>1 DEF Range
<1> QED
  BY <1>2 DEF t

-----------------------------------------------------------------------------
(* What a step does to the jobs: that of the process that takes it changes *)
(* as the action says, all others stay.                                    *)

OthersStay(p) == \A q \in Process \ {p} : job'[q] = job[q]

LEMMA NoJobFields ==
  /\ NoJob \in Job /\ NoJob.step = "idle" /\ NoJob.msg = 0 /\ NoJob.key = 0
  /\ NoJob.state = Blank /\ Blank \in [Field -> Nat]
<1>1. Blank \in [Field -> Nat]
  BY DEF Blank
<1> QED
  BY <1>1 DEF NoJob, Job, Steps

LEMMA JobSet ==
  ASSUME job \in [Process -> Job], NEW p \in Process, NEW c \in Job, job' = [job EXCEPT ![p] = c]
  PROVE  job' \in [Process -> Job] /\ job'[p] = c /\ OthersStay(p)
BY DEF OthersStay

LEMMA GotoFields ==
  ASSUME job \in [Process -> Job], NEW p \in Process, NEW s \in Steps, Goto(p, s)
  PROVE  /\ job' \in [Process -> Job] /\ OthersStay(p)
         /\ job'[p].step = s /\ job'[p].msg = job[p].msg
         /\ job'[p].key = job[p].key /\ job'[p].state = job[p].state
         /\ job'[p].live = job[p].live
<1> DEFINE c == [job[p] EXCEPT !.step = s]
<1>1. job[p] \in Job
  OBVIOUS
<1>2. c \in Job /\ c.step = s /\ c.msg = job[p].msg /\ c.key = job[p].key /\ c.state = job[p].state
      /\ c.live = job[p].live
  BY <1>1 DEF Job
<1>3. job' = [job EXCEPT ![p] = c]
  BY DEF Goto
<1> HIDE DEF c
<1> QED
  BY <1>2, <1>3, JobSet

LEMMA KeyFields ==
  ASSUME job \in [Process -> Job], NEW p \in Process, NEW s \in Steps, NEW k \in Nat,
         job' = [job EXCEPT ![p].step = s, ![p].key = k]
  PROVE  /\ job' \in [Process -> Job] /\ OthersStay(p)
         /\ job'[p].step = s /\ job'[p].msg = job[p].msg /\ job'[p].key = k
         /\ job'[p].live = job[p].live
<1> DEFINE c == [job[p] EXCEPT !.step = s, !.key = k]
<1>1. job[p] \in Job
  OBVIOUS
<1>2. c \in Job /\ c.step = s /\ c.msg = job[p].msg /\ c.key = k /\ c.live = job[p].live
  BY <1>1 DEF Job
<1>3. job' = [job EXCEPT ![p] = c]
  OBVIOUS
<1> HIDE DEF c
<1> QED
  BY <1>2, <1>3, JobSet

LEMMA StateFields ==
  ASSUME job \in [Process -> Job], NEW p \in Process, NEW s \in [Field -> Nat],
         job' = [job EXCEPT ![p].step = "save", ![p].state = s]
  PROVE  /\ job' \in [Process -> Job] /\ OthersStay(p)
         /\ job'[p].step = "save" /\ job'[p].msg = job[p].msg /\ job'[p].state = s
         /\ job'[p].live = job[p].live
<1> DEFINE c == [job[p] EXCEPT !.step = "save", !.state = s]
<1>1. job[p] \in Job
  OBVIOUS
<1>2. c \in Job /\ c.step = "save" /\ c.msg = job[p].msg /\ c.state = s
      /\ c.live = job[p].live
  BY <1>1 DEF Job, Steps
<1>3. job' = [job EXCEPT ![p] = c]
  OBVIOUS
<1> HIDE DEF c
<1> QED
  BY <1>2, <1>3, JobSet

\* A new job: a delivery, or the receipt's, which has no message.
LEMMA BeginFields ==
  ASSUME job \in [Process -> Job], NEW p \in Process, NEW m \in Message,
         NEW live \in BOOLEAN, Begin(p, m, live)
  PROVE  /\ job' \in [Process -> Job] /\ OthersStay(p)
         /\ job'[p].step = FirstStep(m) /\ job'[p].msg = m /\ job'[p].live = live
<1> DEFINE c == [NoJob EXCEPT !.step = FirstStep(m), !.msg = m, !.live = live]
<1>1. FirstStep(m) \in Steps
  BY DEF FirstStep, Steps
<1>2. c \in Job /\ c.step = FirstStep(m) /\ c.msg = m /\ c.live = live
  BY <1>1, NoJobFields DEF Job
<1>3. job' = [job EXCEPT ![p] = c]
  BY DEF Begin
<1> HIDE DEF c
<1> QED
  BY <1>2, <1>3, JobSet

LEMMA ReceiptFields ==
  ASSUME job \in [Process -> Job], NEW p \in Process, BeginReceipt(p)
  PROVE  /\ job' \in [Process -> Job] /\ OthersStay(p)
         /\ job'[p].step = "load" /\ job'[p].msg = 0
<1> DEFINE c == [NoJob EXCEPT !.step = "load"]
<1>1. c \in Job /\ c.step = "load" /\ c.msg = 0
  BY NoJobFields DEF Job, Steps
<1>2. job' = [job EXCEPT ![p] = c]
  BY DEF BeginReceipt
<1> HIDE DEF c
<1> QED
  BY <1>1, <1>2, JobSet

LEMMA EndFields ==
  ASSUME job \in [Process -> Job], NEW p \in Process, job' = [job EXCEPT ![p] = NoJob]
  PROVE  /\ job' \in [Process -> Job] /\ OthersStay(p) /\ job'[p] = NoJob
BY NoJobFields, JobSet

-----------------------------------------------------------------------------
(* Type correctness.  That a receipt names a message rests on the job's:   *)
(* only the job of a delivery receipt has none, and it never sends.        *)

Naming == {"check", "key", "create", "fill", "row", "event", "ack"}

JobNamesMessage == \A p \in Process : job[p].step \in Naming => job[p].msg \in Message

Typed == TypeOK /\ JobNamesMessage

LEMMA MigratedType ==
  ASSUME kv \in [Field -> Nat], scene \in Scenario
  PROVE  Migrated \in [Field -> Nat]
<1>1. legacy \in Nat
  BY DEF legacy, Scenario
<1> QED
  BY <1>1 DEF Migrated

LEMMA SavedType ==
  ASSUME kv \in [Field -> Nat], NEW s \in [Field -> Nat]
  PROVE  Saved(s) \in [Field -> Nat]
BY DEF Saved

LEMMA MovedType ==
  ASSUME job \in [Process -> Job], receipts \in Nat, Message \subseteq Nat \ {0},
         NEW p \in Process
  PROVE  Moved(p) \in [Field -> Nat]
<1>1. job[p].state \in [Field -> Nat] /\ job[p].msg \in Nat
  <2>1. job[p] \in Job
    OBVIOUS
  <2>2. job[p].state \in [Field -> Nat] /\ job[p].msg \in Message \cup {0}
    BY <2>1 DEF Job
  <2>3. \A m \in Message \cup {0} : m \in Nat
    OBVIOUS
  <2> QED
    BY <2>2, <2>3
<1> QED
  BY <1>1 DEF Moved, Field

LEMMA TypedInit == Init => Typed
<1> SUFFICES ASSUME Init PROVE Typed
  OBVIOUS
<1>1. job \in [Process -> Job] /\ JobNamesMessage
  BY NoJobFields DEF Init, JobNamesMessage, Naming
<1>2. scene \in Scenario /\ kv \in [Field -> Nat]
  BY InboxAssumption, NoJobFields DEF Init
<1>3. events \in Seq(Message) /\ rows \in [Message -> Nat]
  BY DEF Init
<1>4. up \in [Process -> BOOLEAN] /\ down \in Frames /\ late \in Frames
  BY DEF Init, Frames
<1> QED
  BY <1>1, <1>2, <1>3, <1>4 DEF Init, Typed, TypeOK, Missing, Torn

\* A job that ends, or that goes on with its message, keeps its name.
LEMMA NamesKept ==
  ASSUME JobNamesMessage, NEW p \in Process, OthersStay(p),
         job'[p].step \in Naming => job'[p].msg \in Message
  PROVE  JobNamesMessage'
BY DEF JobNamesMessage, OthersStay

\* What any step of a process does to its job.
JobMoves(p) ==
  \/ Deliver(p) \/ DeliverLate(p) \/ CheckEvent(p) \/ ReadKey(p) \/ MakeKey(p)
  \/ CreateKeyFile(p) \/ FillKeyFile(p) \/ InsertRow(p) \/ InsertEvent(p)
  \/ LoadState(p) \/ SaveState(p) \/ SendReceipt(p) \/ BeginReceipt(p)

LEMMA JobsTyped ==
  ASSUME Typed, NEW p \in Process, JobMoves(p)
  PROVE  job' \in [Process -> Job] /\ OthersStay(p) /\ JobNamesMessage'
<1>1. /\ job \in [Process -> Job] /\ JobNamesMessage /\ scene \in Scenario
      /\ kv \in [Field -> Nat] /\ keyfile \in Nat /\ issued \in Nat
      /\ down \in Frames /\ late \in Frames
  BY DEF Typed, TypeOK
<1>2. ASSUME NEW s \in Steps, Goto(p, s), s \in Naming => job[p].msg \in Message
      PROVE  job' \in [Process -> Job] /\ OthersStay(p) /\ JobNamesMessage'
  BY <1>1, <1>2, GotoFields, NamesKept
<1>3. ASSUME NEW m \in Message, NEW live \in BOOLEAN, Begin(p, m, live)
      PROVE  job' \in [Process -> Job] /\ OthersStay(p) /\ JobNamesMessage'
  BY <1>1, <1>3, BeginFields, NamesKept
<1>4. ASSUME NEW s \in Steps, NEW k \in Nat, job' = [job EXCEPT ![p].step = s, ![p].key = k],
             job[p].msg \in Message
      PROVE  job' \in [Process -> Job] /\ OthersStay(p) /\ JobNamesMessage'
  BY <1>1, <1>4, KeyFields, NamesKept
<1>5. ASSUME job' = [job EXCEPT ![p] = NoJob]
      PROVE  job' \in [Process -> Job] /\ OthersStay(p) /\ JobNamesMessage'
  BY <1>1, <1>5, EndFields, NoJobFields, NamesKept DEF Naming
<1>6. job[p].step \in Naming => job[p].msg \in Message
  BY <1>1 DEF JobNamesMessage
<1>7. CASE Deliver(p) \/ DeliverLate(p)
  <2>1. PICK m \in down[p] \cup late[p] : Begin(p, m, TRUE) \/ Begin(p, m, FALSE)
    BY <1>7 DEF Deliver, DeliverLate
  <2>2. m \in Message
    BY <1>1 DEF Frames
  <2> QED
    BY <2>1, <2>2, <1>3
<1>8. CASE CheckEvent(p)
  <2>1. job[p].msg \in Message
    BY <1>6, <1>8 DEF CheckEvent, At, Naming
  <2>2. Goto(p, "ack") \/ Goto(p, "key")
    BY <1>8 DEF CheckEvent
  <2> QED
    BY <2>1, <2>2, <1>2 DEF Steps
<1>9. CASE ReadKey(p) \/ MakeKey(p)
  <2>1. job[p].msg \in Message
    BY <1>6, <1>9 DEF ReadKey, MakeKey, At, Naming
  <2>2. issued + 1 \in Nat
    BY <1>1
  <2> QED
    BY <1>1, <1>4, <1>9, <2>1, <2>2 DEF ReadKey, MakeKey, Steps
<1>10. CASE CreateKeyFile(p) \/ FillKeyFile(p) \/ InsertRow(p) \/ InsertEvent(p)
  <2>1. job[p].msg \in Message
    BY <1>6, <1>10 DEF CreateKeyFile, FillKeyFile, InsertRow, InsertEvent, At, Naming
  <2> QED
    BY <2>1, <1>2, <1>10 DEF CreateKeyFile, FillKeyFile, InsertRow, InsertEvent, Steps
<1>11. CASE LoadState(p)
  <2>1. Migrated \in [Field -> Nat]
    BY <1>1, MigratedType
  <2>2. /\ job' \in [Process -> Job] /\ OthersStay(p)
        /\ job'[p].step = "save"
    BY <1>1, <1>11, <2>1, StateFields DEF LoadState
  <2> QED
    BY <1>1, <2>2, NamesKept DEF Naming
<1>12. CASE SaveState(p)
  <2>1. job[p].msg \in Message \cup {0}
    <3>1. job[p] \in Job
      BY <1>1
    <3> QED
      BY <3>1 DEF Job
  <2>2. CASE job[p].msg # 0
    BY <1>2, <1>12, <2>1, <2>2 DEF SaveState, Steps
  <2>3. CASE job[p].msg = 0
    BY <1>5, <1>12, <2>3 DEF SaveState
  <2> QED
    BY <2>2, <2>3
<1>13. CASE SendReceipt(p)
  BY <1>5, <1>13 DEF SendReceipt
<1>14. CASE BeginReceipt(p)
  BY <1>1, <1>14, ReceiptFields, NamesKept DEF Naming
<1> QED
  BY <1>7, <1>8, <1>9, <1>10, <1>11, <1>12, <1>13, <1>14 DEF JobMoves

LEMMA GoneTyped ==
  ASSUME Typed, NEW p \in Process, Gone(p)
  PROVE  /\ job' \in [Process -> Job] /\ OthersStay(p) /\ job'[p] = NoJob /\ JobNamesMessage'
         /\ life' \in [Process -> {"off", "on", "closed"}]
         /\ up' \in [Process -> BOOLEAN] /\ down' \in Frames /\ late' \in Frames
<1>1. job \in [Process -> Job] /\ JobNamesMessage
  BY DEF Typed, TypeOK
<1>2. job' \in [Process -> Job] /\ OthersStay(p) /\ job'[p] = NoJob
  BY <1>1, EndFields DEF Gone
<1>3. JobNamesMessage'
  BY <1>1, <1>2, NoJobFields, NamesKept DEF Naming
<1>4. up' = [up EXCEPT ![p] = FALSE] /\ up \in [Process -> BOOLEAN]
  BY DEF Gone, Hangup, Typed, TypeOK
<1>5. up' \in [Process -> BOOLEAN]
  BY <1>4, Zenon
<1> QED
  BY <1>2, <1>3, <1>5 DEF Gone, Hangup, Typed, TypeOK, Frames

LEMMA TypedStep ==
  ASSUME Typed, [Next]_vars
  PROVE  Typed'
<1>1. /\ scene \in Scenario /\ rows \in [Message -> Nat] /\ events \in Seq(Message)
      /\ kv \in [Field -> Nat] /\ keyfile \in Nat
      /\ arrived \subseteq Message /\ pending \subseteq Message /\ refused \subseteq Message
      /\ life \in [Process -> {"off", "on", "closed"}] /\ up \in [Process -> BOOLEAN]
      /\ down \in Frames /\ late \in Frames /\ job \in [Process -> Job]
      /\ acks \subseteq Process \X Message
      /\ issued \in Nat /\ receipts \in Nat /\ keyLosses \in Nat
      /\ starts \in Nat /\ joins \in Nat /\ faults \in Nat /\ JobNamesMessage
  BY DEF Typed, TypeOK
<1>2. procs \subseteq Process
  BY <1>1 DEF Scenario, procs
<1>3. ASSUME UNCHANGED job PROVE JobNamesMessage'
  BY <1>1, <1>3 DEF JobNamesMessage
<1>4. ASSUME NEW p \in Process, JobMoves(p) PROVE Typed'
  <2>1. job' \in [Process -> Job] /\ JobNamesMessage'
    BY <1>4, JobsTyped
  <2>2. job[p] \in Job /\ job[p].key \in Nat /\ (job[p].step \in Naming => job[p].msg \in Message)
    BY <1>1 DEF Job, JobNamesMessage
  <2>3. scene' = scene /\ life' = life /\ up' = up /\ UNCHANGED relay
    BY <1>4 DEF JobMoves, Deliver, DeliverLate, CheckEvent, ReadKey, MakeKey, CreateKeyFile,
       FillKeyFile, InsertRow, InsertEvent, LoadState, SaveState, SendReceipt, BeginReceipt, wires
  <2>4. rows' \in [Message -> Nat]
    <3>1. CASE InsertRow(p)
      <4>1. job[p].msg \in Message
        BY <2>2, <3>1 DEF InsertRow, At, Naming
      <4> QED
        BY <1>1, <2>2, <3>1, <4>1 DEF InsertRow
    <3>2. CASE ~InsertRow(p)
      BY <1>1, <1>4, <3>2 DEF JobMoves, Deliver, DeliverLate, CheckEvent, ReadKey, MakeKey,
         CreateKeyFile, FillKeyFile, InsertEvent, LoadState, SaveState, SendReceipt,
         BeginReceipt, disk
    <3> QED
      BY <3>1, <3>2
  <2>5. events' \in Seq(Message)
    <3>1. CASE InsertEvent(p)
      <4>1. job[p].msg \in Message
        BY <2>2, <3>1 DEF InsertEvent, At, Naming
      <4> QED
        BY <1>1, <3>1, <4>1 DEF InsertEvent
    <3>2. CASE ~InsertEvent(p)
      BY <1>1, <1>4, <3>2 DEF JobMoves, Deliver, DeliverLate, CheckEvent, ReadKey, MakeKey,
         CreateKeyFile, FillKeyFile, InsertRow, LoadState, SaveState, SendReceipt,
         BeginReceipt, disk
    <3> QED
      BY <3>1, <3>2
  <2>6. kv' \in [Field -> Nat]
    <3>1. CASE LoadState(p)
      BY <1>1, <3>1, MigratedType DEF LoadState
    <3>2. CASE SaveState(p)
      <4>1. Moved(p) \in [Field -> Nat]
        BY <1>1, MovedType, InboxAssumption
      <4> QED
        BY <1>1, <3>2, <4>1, SavedType DEF SaveState
    <3>3. CASE ~LoadState(p) /\ ~SaveState(p)
      BY <1>1, <1>4, <3>3 DEF JobMoves, Deliver, DeliverLate, CheckEvent, ReadKey, MakeKey,
         CreateKeyFile, FillKeyFile, InsertRow, InsertEvent, SendReceipt, BeginReceipt, disk
    <3> QED
      BY <3>1, <3>2, <3>3
  <2>7. keyfile' \in Nat
    <3>1. keyfile' \in {keyfile, Torn, job[p].key}
      BY <1>4 DEF JobMoves, Deliver, DeliverLate, CheckEvent, ReadKey, MakeKey,
         CreateKeyFile, FillKeyFile, InsertRow, InsertEvent, LoadState, SaveState, SendReceipt,
         BeginReceipt, disk
    <3> QED
      BY <1>1, <2>2, <3>1 DEF Torn
  <2>8. down' \in Frames /\ late' \in Frames
    BY <1>1, <1>4 DEF JobMoves, Deliver, DeliverLate, CheckEvent, ReadKey, MakeKey,
       CreateKeyFile, FillKeyFile, InsertRow, InsertEvent, LoadState, SaveState, SendReceipt,
       BeginReceipt, wires, Frames
  <2>9. acks' \subseteq Process \X Message
    <3>1. CASE SendReceipt(p)
      <4>1. job[p].msg \in Message
        BY <2>2, <3>1 DEF SendReceipt, At, Naming
      <4> QED
        BY <1>1, <3>1, <4>1 DEF SendReceipt
    <3>2. CASE ~SendReceipt(p)
      BY <1>1, <1>4, <3>2 DEF JobMoves, Deliver, DeliverLate, CheckEvent, ReadKey, MakeKey,
         CreateKeyFile, FillKeyFile, InsertRow, InsertEvent, LoadState, SaveState,
         BeginReceipt, wires
    <3> QED
      BY <3>1, <3>2
  <2>10. /\ issued' \in Nat /\ receipts' \in Nat /\ keyLosses' \in Nat
         /\ starts' \in Nat /\ joins' \in Nat /\ faults' \in Nat
    <3>1. /\ UNCHANGED <<keyLosses, starts, joins, faults>>
          /\ issued' \in {issued, issued + 1} /\ receipts' \in {receipts, receipts + 1}
      BY <1>4 DEF JobMoves, Deliver, DeliverLate, CheckEvent, ReadKey, MakeKey,
         CreateKeyFile, FillKeyFile, InsertRow, InsertEvent, LoadState, SaveState, SendReceipt,
         BeginReceipt, caps
    <3> QED
      BY <1>1, <3>1
  <2> QED
    BY <1>1, <2>1, <2>3, <2>4, <2>5, <2>6, <2>7, <2>8, <2>9, <2>10 DEF Typed, TypeOK, relay
<1>5. ASSUME NEW p \in Process, Exit(p) \/ Die(p) \/ ReadTornKey(p) PROVE Typed'
  <2>1. Gone(p) /\ UNCHANGED <<scene, disk, relay, acks, issued, receipts, keyLosses, starts, joins>>
    BY <1>5 DEF Exit, Die, ReadTornKey, caps
  <2>2. faults' \in Nat
    BY <1>1, <1>5 DEF Exit, Die, ReadTornKey, Fault, caps
  <2> QED
    BY <1>1, <2>1, <2>2, GoneTyped DEF Typed, TypeOK, disk, relay
<1>6. ASSUME NEW p \in Process, DeliverClosed(p) PROVE Typed'
  <2>1. UNCHANGED <<scene, disk, relay, acks, caps>>
    BY <1>6 DEF DeliverClosed
  <2>2. CASE Gone(p)
    BY <1>1, <2>1, <2>2, GoneTyped DEF Typed, TypeOK, disk, relay, caps
  <2>3. CASE ~Gone(p)
    <3>1. UNCHANGED <<life, up, down, job>> /\ late' \in Frames
      BY <1>1, <1>6, <2>3 DEF DeliverClosed, Frames
    <3> QED
      BY <1>1, <1>3, <2>1, <3>1 DEF Typed, TypeOK, disk, relay, caps
  <2> QED
    BY <2>2, <2>3
<1>7. ASSUME NEW p \in Process, NEW m \in Message, Refuse(p, m) PROVE Typed'
  <2>1. /\ UNCHANGED <<scene, disk, arrived, pending, issued, receipts, keyLosses, starts, joins>>
        /\ refused' \subseteq Message /\ acks' \subseteq Process \X Message /\ faults' \in Nat
    BY <1>1, <1>7 DEF Refuse, Fault
  <2>2. CASE Gone(p)
    BY <1>1, <2>1, <2>2, GoneTyped DEF Typed, TypeOK, disk
  <2>3. CASE UNCHANGED <<life, up, down, late, job>>
    BY <1>1, <1>3, <2>1, <2>3 DEF Typed, TypeOK, disk
  <2> QED
    BY <1>7, <2>2, <2>3 DEF Refuse
<1>8. ASSUME NEW p \in Process, Start(p) \/ Join(p) PROVE Typed'
  <2>1. /\ UNCHANGED <<scene, rows, events, keyfile, arrived, pending, late, acks, job,
                        issued, receipts, keyLosses, faults>>
        /\ refused' \in {refused, {}}
    BY <1>8 DEF Start, Join, disk, relay, wires
  <2>2. /\ kv' \in [Field -> Nat] /\ life' \in [Process -> {"off", "on", "closed"}]
        /\ starts' \in Nat /\ joins' \in Nat
    <3>1. CASE Start(p)
      BY <1>1, <3>1, MigratedType DEF Start
    <3>2. CASE Join(p)
      BY <1>1, <3>2 DEF Join, disk
    <3> QED
      BY <1>8, <3>1, <3>2
  <2>3. down' \in Frames
    BY <1>1, <1>8 DEF Start, Join, wires, Frames
  <2>4. up' \in [Process -> BOOLEAN]
    <3>1. up' = up \/ up' = [up EXCEPT ![p] = TRUE]
      BY <1>8 DEF Start, Join, wires
    <3> QED
      BY <1>1, <3>1, Zenon
  <2> QED
    BY <1>1, <1>3, <2>1, <2>2, <2>3, <2>4 DEF Typed, TypeOK
<1>9. ASSUME NEW p \in Process, Replace(p) \/ Drop(p) \/ Close(p) PROVE Typed'
  <2>1. UNCHANGED <<scene, disk, relay, job, issued, receipts, keyLosses, starts, joins>>
    BY <1>9 DEF Replace, Drop, Close, caps
  <2>2. /\ life' \in [Process -> {"off", "on", "closed"}] /\ faults' \in Nat
        /\ acks' \subseteq Process \X Message
    <3>1. CASE Replace(p)
      BY <1>1, <3>1 DEF Replace, caps
    <3>2. CASE Drop(p)
      BY <1>1, <3>2 DEF Drop, Fault
    <3>3. CASE Close(p)
      BY <1>1, <3>3 DEF Close, caps
    <3> QED
      BY <1>9, <3>1, <3>2, <3>3
  <2>3. down' \in Frames /\ late' \in Frames
    <3>1. down' = [down EXCEPT ![p] = {}]
      BY <1>9 DEF Replace, Drop, Close, Hangup
    <3>2. \E received \in {{}, down[p]} : late' = [late EXCEPT ![p] = @ \cup received]
      BY <1>9 DEF Replace, Drop, Close
    <3> QED
      BY <1>1, <3>1, <3>2 DEF Frames
  <2>4. up' \in [Process -> BOOLEAN]
    <3>1. up' = [up EXCEPT ![p] = FALSE]
      BY <1>9 DEF Replace, Drop, Close, Hangup
    <3> QED
      BY <1>1, <3>1, Zenon
  <2> QED
    BY <1>1, <1>3, <2>1, <2>2, <2>3, <2>4 DEF Typed, TypeOK, disk, relay
<1>10. ASSUME NEW p \in Process, NEW m \in Message, Forget(p, m) PROVE Typed'
  BY <1>1, <1>3, <1>10 DEF Forget, Typed, TypeOK, disk, caps
<1>11. ASSUME NEW m \in Message, Arrive(m) PROVE Typed'
  <2>1. down' \in Frames
    BY <1>1, <1>11 DEF Arrive, Frames
  <2> QED
    BY <1>1, <1>3, <1>11, <2>1 DEF Arrive, Typed, TypeOK, disk, caps
<1>12. ASSUME LoseKey PROVE Typed'
  BY <1>1, <1>3, <1>12 DEF LoseKey, Typed, TypeOK, relay, wires, Missing
<1>13. ASSUME UNCHANGED vars PROVE Typed'
  BY <1>1, <1>3, <1>13 DEF vars, Typed, TypeOK, disk, relay, wires, caps
<1> QED
  BY <1>2, <1>4, <1>5, <1>6, <1>7, <1>8, <1>9, <1>10, <1>11, <1>12, <1>13
     DEF Next, Handles, Lives, JobMoves

LEMMA TypedAlways == Spec => []Typed
<1>1. Typed /\ [Next]_vars => Typed'
  BY TypedStep
<1> QED
  BY TypedInit, <1>1, PTL DEF Spec

\* The variables keep their types: a receipt on its way always names a message.
THEOREM InboxTypes == Spec => []TypeOK
<1>1. Typed => TypeOK
  BY DEF Typed
<1> QED
  BY <1>1, TypedAlways, PTL

-----------------------------------------------------------------------------
(* The inbox as a ledger.  A job that reached a step has done what comes   *)
(* before it, so a receipt on its way names a message that is announced,   *)
(* or that this agent cannot open.                                         *)

Settled == Published \cup opaque

JobSafe(p) ==
  /\ job[p].step \in {"create", "fill", "row"} => job[p].key # 0
  /\ job[p].step = "event" => job[p].msg \in Stored
  /\ job[p].step \in {"load", "save"} /\ job[p].msg # 0 => job[p].msg \in Published
  /\ job[p].step = "ack" => job[p].msg \in Settled

Safe ==
  /\ \A p \in Process : JobSafe(p)
  /\ \A a \in acks : a[2] \in Settled
  /\ Published \subseteq Stored
  /\ arrived \ pending \subseteq Settled

SafeInv == Typed /\ Safe

\* Who writes each variable that more than one action may leave alone.
Written ==
  /\ scene' = scene
  /\ rows' = rows \/ \E p \in procs : InsertRow(p)
  /\ events' = events \/ \E p \in procs : InsertEvent(p)
  /\ kv' = kv \/ kv' = Migrated \/ \E p \in procs : SaveState(p)
  /\ \/ keyfile' = keyfile \/ LoseKey
     \/ \E p \in procs : CreateKeyFile(p) \/ FillKeyFile(p)
  /\ \/ UNCHANGED <<arrived, pending>>
     \/ \E p \in procs, m \in Message : Forget(p, m)
     \/ \E m \in Message : Arrive(m)
  /\ acks' \subseteq acks \/ \E p \in procs : SendReceipt(p)
  /\ issued' \in {issued, issued + 1}
  /\ receipts' \in {receipts, receipts + 1}
  /\ keyLosses' = keyLosses \/ LoseKey
  /\ faults' \in {faults, faults + 1}

LEMMA HandlesWrite ==
  ASSUME NEW p \in procs, Handles(p)
  PROVE  Written
<1>1. CASE Deliver(p)
  BY <1>1 DEF Deliver, disk, relay, wires, caps, Written
<1>2. CASE DeliverLate(p)
  BY <1>2 DEF DeliverLate, disk, relay, wires, caps, Written
<1>3. CASE DeliverClosed(p)
  BY <1>3 DEF DeliverClosed, disk, relay, wires, caps, Written
<1>4. CASE CheckEvent(p)
  BY <1>4 DEF CheckEvent, disk, relay, wires, caps, Written
<1>5. CASE ReadKey(p)
  BY <1>5 DEF ReadKey, disk, relay, wires, caps, Written
<1>6. CASE ReadTornKey(p)
  BY <1>6 DEF ReadTornKey, disk, relay, wires, caps, Written
<1>7. CASE MakeKey(p)
  BY <1>7 DEF MakeKey, disk, relay, wires, caps, Written
<1>8. CASE CreateKeyFile(p)
  BY <1>8 DEF CreateKeyFile, disk, relay, wires, caps, Written
<1>9. CASE FillKeyFile(p)
  BY <1>9 DEF FillKeyFile, disk, relay, wires, caps, Written
<1>10. CASE InsertRow(p)
  BY <1>10 DEF InsertRow, disk, relay, wires, caps, Written
<1>11. CASE InsertEvent(p)
  BY <1>11 DEF InsertEvent, disk, relay, wires, caps, Written
<1>12. CASE LoadState(p)
  BY <1>12 DEF LoadState, disk, relay, wires, caps, Written
<1>13. CASE SaveState(p)
  BY <1>13 DEF SaveState, disk, relay, wires, caps, Written
<1>14. CASE SendReceipt(p)
  BY <1>14 DEF SendReceipt, disk, relay, wires, caps, Written
<1> QED
  BY <1>1, <1>2, <1>3, <1>4, <1>5, <1>6, <1>7, <1>8, <1>9, <1>10, <1>11, <1>12, <1>13, <1>14 DEF Handles

LEMMA LivesWrite ==
  ASSUME NEW p \in procs, Lives(p)
  PROVE  Written
<1>1. CASE Start(p)
  BY <1>1 DEF Start, disk, relay, wires, caps, Written
<1>2. CASE Replace(p)
  BY <1>2 DEF Replace, disk, relay, wires, caps, Written
<1>3. CASE Drop(p)
  BY <1>3 DEF Drop, disk, relay, wires, caps, Fault, Written
<1>4. CASE Close(p)
  BY <1>4 DEF Close, disk, relay, wires, caps, Written
<1>5. CASE Exit(p)
  BY <1>5 DEF Exit, disk, relay, wires, caps, Written
<1>6. CASE Die(p)
  BY <1>6 DEF Die, disk, relay, wires, caps, Fault, Written
<1> QED
  BY <1>1, <1>2, <1>3, <1>4, <1>5, <1>6 DEF Lives

LEMMA WhoWrites ==
  ASSUME [Next]_vars
  PROVE  Written
<1>1. ASSUME NEW p \in procs, Join(p) PROVE Written
  BY <1>1 DEF Join, disk, Written
<1>2. ASSUME NEW p \in procs, BeginReceipt(p) PROVE Written
  BY <1>2 DEF BeginReceipt, disk, relay, wires, Written
<1>3. ASSUME NEW p \in procs, NEW m \in Message, Forget(p, m) PROVE Written
  BY <1>3 DEF Forget, disk, caps, Written
<1>4. ASSUME NEW p \in procs, NEW m \in Message, Refuse(p, m) PROVE Written
  BY <1>4 DEF Refuse, disk, Fault, Written
<1>5. ASSUME NEW m \in Message, Arrive(m) PROVE Written
  BY <1>5 DEF Arrive, disk, caps, Written
<1>6. CASE LoseKey
  BY <1>6 DEF LoseKey, relay, wires, Written
<1>7. CASE UNCHANGED vars
  BY <1>7 DEF vars, disk, relay, wires, caps, Written
<1> QED
  BY <1>1, <1>2, <1>3, <1>4, <1>5, <1>6, <1>7, HandlesWrite, LivesWrite DEF Next

\* Disk and ledger only change in the two inserts.
LEMMA WhatInserts ==
  ASSUME [Next]_vars
  PROVE  /\ scene' = scene
         /\ \/ \E p \in procs : InsertRow(p) \/ InsertEvent(p)
            \/ UNCHANGED <<rows, events>>
BY WhoWrites DEF Written

LEMMA RowInserted ==
  ASSUME SafeInv, NEW p \in Process, InsertRow(p)
  PROVE  /\ job[p].msg \in Message /\ Stored' = Stored \cup {job[p].msg}
         /\ Published' = Published
<1>1. job[p].msg \in Message /\ job[p].key # 0 /\ rows \in [Message -> Nat]
  BY DEF SafeInv, Typed, TypeOK, JobNamesMessage, Naming, Safe, JobSafe, InsertRow, At
<1>2. rows' = IF rows[job[p].msg] = 0 THEN [rows EXCEPT ![job[p].msg] = job[p].key] ELSE rows
  BY DEF InsertRow
<1>3. \A m \in Message : rows'[m] # 0 <=> rows[m] # 0 \/ m = job[p].msg
  BY <1>1, <1>2
<1>4. Stored' = Stored \cup {job[p].msg}
  BY <1>1, <1>3 DEF Stored
<1> QED
  BY <1>1, <1>4 DEF InsertRow, Published

LEMMA EventInserted ==
  ASSUME SafeInv, NEW p \in Process, InsertEvent(p)
  PROVE  /\ job[p].msg \in Message /\ job[p].msg \in Stored
         /\ Published' = Published \cup {job[p].msg} /\ Stored' = Stored
<1>1. job[p].msg \in Message /\ job[p].msg \in Stored /\ events \in Seq(Message)
  BY DEF SafeInv, Typed, TypeOK, JobNamesMessage, Naming, Safe, JobSafe, InsertEvent, At
<1>2. events' = Append(events, job[p].msg) /\ rows' = rows
  BY DEF InsertEvent
<1>3. Range(Append(events, job[p].msg)) = Range(events) \cup {job[p].msg}
  BY <1>1, PublishedAfterAppend
<1> QED
  BY <1>1, <1>2, <1>3 DEF Published, Stored

\* What is stored or announced stays so, and an agent never learns to open.
LEMMA LedgerGrows ==
  ASSUME SafeInv, [Next]_vars
  PROVE  opaque' = opaque /\ Stored \subseteq Stored' /\ Published \subseteq Published'
<1>1. procs \subseteq Process
  BY DEF SafeInv, Typed, TypeOK, Scenario, procs
<1>2. ASSUME NEW p \in procs, InsertRow(p) \/ InsertEvent(p)
      PROVE  Stored \subseteq Stored' /\ Published \subseteq Published'
  BY <1>1, <1>2, RowInserted, EventInserted
<1>3. ASSUME UNCHANGED <<rows, events>>
      PROVE  Stored \subseteq Stored' /\ Published \subseteq Published'
  BY <1>3 DEF Stored, Published
<1> QED
  BY <1>2, <1>3, WhatInserts DEF opaque

LEMMA JobsStaySafe ==
  ASSUME Safe, opaque' = opaque, Stored \subseteq Stored', Published \subseteq Published',
         NEW p \in Process, OthersStay(p), JobSafe(p)'
  PROVE  \A q \in Process : JobSafe(q)'
<1>1. ASSUME NEW q \in Process, q # p PROVE JobSafe(q)'
  BY <1>1 DEF Safe, JobSafe, OthersStay, Settled
<1> QED
  BY <1>1

LEMMA JobMovesSafely ==
  ASSUME SafeInv, [Next]_vars, NEW p \in Process, JobMoves(p)
  PROVE  \A q \in Process : JobSafe(q)'
<1>1. opaque' = opaque /\ Stored \subseteq Stored' /\ Published \subseteq Published'
  BY LedgerGrows
<1>2. /\ job \in [Process -> Job] /\ scene \in Scenario /\ issued \in Nat /\ keyfile \in Nat
      /\ down \in Frames /\ late \in Frames /\ kv \in [Field -> Nat] /\ Safe
  BY DEF SafeInv, Typed, TypeOK
<1>3. job[p].step \in Naming => job[p].msg \in Message
  BY DEF SafeInv, Typed, JobNamesMessage
<1>4. JobSafe(p)
  BY DEF SafeInv, Safe
<1>5. SUFFICES JobSafe(p)'
  <2>1. OthersStay(p)
    BY JobsTyped DEF SafeInv
  <2> QED
    BY <1>1, <1>2, <2>1, JobsStaySafe
<1>6. CASE Deliver(p) \/ DeliverLate(p)
  <2>1. PICK m \in down[p] \cup late[p] : Begin(p, m, TRUE) \/ Begin(p, m, FALSE)
    BY <1>6 DEF Deliver, DeliverLate
  <2>2. m \in Message
    BY <1>2 DEF Frames
  <2>3. job'[p].step = FirstStep(m) /\ job'[p].msg = m
    BY <1>2, <2>1, <2>2, BeginFields
  <2> QED
    BY <1>1, <2>3 DEF JobSafe, FirstStep, Settled
<1>7. CASE CheckEvent(p)
  <2>1. CASE job[p].msg \in Published
    <3>1. job'[p].step = "ack" /\ job'[p].msg = job[p].msg
      BY <1>2, <1>7, <2>1, GotoFields DEF CheckEvent, Steps
    <3> QED
      BY <1>1, <2>1, <3>1 DEF JobSafe, Settled
  <2>2. CASE job[p].msg \notin Published
    <3>1. job'[p].step = "key"
      BY <1>2, <1>7, <2>2, GotoFields DEF CheckEvent, Steps
    <3> QED
      BY <3>1 DEF JobSafe
  <2> QED
    BY <2>1, <2>2
<1>8. CASE ReadKey(p)
  <2>1. job'[p].step = "row" /\ job'[p].key = keyfile
    BY <1>2, <1>8, KeyFields DEF ReadKey, Steps
  <2> QED
    BY <1>8, <2>1 DEF JobSafe, ReadKey, Missing
<1>9. CASE MakeKey(p)
  <2>1. issued + 1 \in Nat /\ issued + 1 # 0
    BY <1>2
  <2>2. job'[p].step = "create" /\ job'[p].key = issued + 1
    BY <1>2, <1>9, <2>1, KeyFields DEF MakeKey, Steps
  <2> QED
    BY <2>1, <2>2 DEF JobSafe
<1>10. CASE CreateKeyFile(p) \/ FillKeyFile(p)
  <2>1. job'[p].step \in {"fill", "row"} /\ job'[p].key = job[p].key
    BY <1>2, <1>10, GotoFields DEF CreateKeyFile, FillKeyFile, Steps
  <2>2. job[p].key # 0
    BY <1>4, <1>10 DEF JobSafe, CreateKeyFile, FillKeyFile, At
  <2> QED
    BY <2>1, <2>2 DEF JobSafe
<1>11. CASE InsertRow(p)
  <2>1. job'[p].step = "event" /\ job'[p].msg = job[p].msg
    BY <1>2, <1>11, GotoFields DEF InsertRow, Steps
  <2>2. job[p].msg \in Stored'
    BY <1>11, RowInserted
  <2> QED
    BY <2>1, <2>2 DEF JobSafe
<1>12. CASE InsertEvent(p)
  <2>1. job'[p].step = "load" /\ job'[p].msg = job[p].msg
    BY <1>2, <1>12, GotoFields DEF InsertEvent, Steps
  <2>2. job[p].msg \in Published'
    BY <1>12, EventInserted
  <2> QED
    BY <2>1, <2>2 DEF JobSafe
<1>13. CASE LoadState(p)
  <2>1. job'[p].step = "save" /\ job'[p].msg = job[p].msg
    BY <1>2, <1>13, MigratedType, StateFields DEF LoadState
  <2>2. job[p].msg # 0 => job[p].msg \in Published
    BY <1>4, <1>13 DEF JobSafe, LoadState, At
  <2> QED
    BY <1>1, <2>1, <2>2 DEF JobSafe
<1>14. CASE SaveState(p)
  <2>1. CASE job[p].msg # 0
    <3>1. job'[p].step = "ack" /\ job'[p].msg = job[p].msg
      BY <1>2, <1>14, <2>1, GotoFields DEF SaveState, Steps
    <3>2. job[p].msg \in Published
      BY <1>4, <1>14, <2>1 DEF JobSafe, SaveState, At
    <3> QED
      BY <1>1, <3>1, <3>2 DEF JobSafe, Settled
  <2>2. CASE job[p].msg = 0
    <3>1. job'[p].step = "idle"
      BY <1>2, <1>14, <2>2, EndFields, NoJobFields DEF SaveState
    <3> QED
      BY <3>1 DEF JobSafe
  <2> QED
    BY <2>1, <2>2
<1>15. CASE SendReceipt(p)
  <2>1. job'[p].step = "idle"
    BY <1>2, <1>15, EndFields, NoJobFields DEF SendReceipt
  <2> QED
    BY <2>1 DEF JobSafe
<1>16. CASE BeginReceipt(p)
  <2>1. job'[p].step = "load" /\ job'[p].msg = 0
    BY <1>2, <1>16, ReceiptFields
  <2> QED
    BY <2>1 DEF JobSafe
<1> QED
  BY <1>6, <1>7, <1>8, <1>9, <1>10, <1>11, <1>12, <1>13, <1>14, <1>15, <1>16 DEF JobMoves

\* Every other step ends the job of one process, with it, or leaves all jobs alone.
LEMMA WhatMoves ==
  ASSUME [Next]_vars
  PROVE  \/ \E p \in procs : JobMoves(p)
         \/ \E p \in procs : Gone(p) /\ UNCHANGED <<rows, events, kv, keyfile>>
         \/ UNCHANGED <<job, rows, events>>
<1>1. ASSUME NEW p \in procs, Handles(p)
      PROVE  JobMoves(p) \/ DeliverClosed(p) \/ ReadTornKey(p)
  BY <1>1 DEF Handles, JobMoves
<1>2. ASSUME NEW p \in procs, DeliverClosed(p)
      PROVE  (Gone(p) /\ UNCHANGED disk) \/ UNCHANGED <<job, disk>>
  BY <1>2 DEF DeliverClosed
<1>3. ASSUME NEW p \in procs, ReadTornKey(p)
      PROVE  Gone(p) /\ UNCHANGED disk
  BY <1>3 DEF ReadTornKey
<1>4. ASSUME NEW p \in procs, Exit(p) \/ Die(p)
      PROVE  Gone(p) /\ UNCHANGED disk
  BY <1>4 DEF Exit, Die
<1>5. ASSUME NEW p \in procs, Replace(p) \/ Drop(p) \/ Close(p) \/ Join(p)
      PROVE  UNCHANGED <<job, disk>>
  BY <1>5 DEF Replace, Drop, Close, Join
<1>6. ASSUME NEW p \in procs, Start(p)
      PROVE  UNCHANGED <<job, rows, events>>
  BY <1>6 DEF Start
<1>7. ASSUME NEW p \in procs, NEW m \in Message, Refuse(p, m)
      PROVE  (Gone(p) /\ UNCHANGED disk) \/ UNCHANGED <<job, disk>>
  BY <1>7 DEF Refuse
<1>8. ASSUME NEW p \in procs, NEW m \in Message, Forget(p, m)
      PROVE  UNCHANGED <<job, disk>>
  BY <1>8 DEF Forget
<1>9. ASSUME NEW m \in Message, Arrive(m) PROVE UNCHANGED <<job, disk>>
  BY <1>9 DEF Arrive
<1>10. LoseKey => UNCHANGED <<job, rows, events>>
  BY DEF LoseKey
<1>11. UNCHANGED vars => UNCHANGED <<job, disk>>
  BY DEF vars
<1>12. ASSUME NEW p \in procs, Handles(p) \/ Join(p) \/ Lives(p) \/ BeginReceipt(p)
       PROVE  \/ JobMoves(p)
              \/ Gone(p) /\ UNCHANGED disk
              \/ UNCHANGED <<job, rows, events>>
  <2>1. BeginReceipt(p) => JobMoves(p)
    BY DEF JobMoves
  <2>2. UNCHANGED <<job, disk>> => UNCHANGED <<job, rows, events>>
    BY DEF disk
  <2> QED
    BY <1>1, <1>2, <1>3, <1>4, <1>5, <1>6, <1>12, <2>1, <2>2 DEF Lives
<1> QED
  BY <1>7, <1>8, <1>9, <1>10, <1>11, <1>12 DEF Next, disk

LEMMA SafeStep ==
  ASSUME SafeInv, [Next]_vars
  PROVE  SafeInv'
<1>1. opaque' = opaque /\ Stored \subseteq Stored' /\ Published \subseteq Published'
  BY LedgerGrows
<1>2. procs \subseteq Process /\ job \in [Process -> Job]
  BY DEF SafeInv, Typed, TypeOK, Scenario, procs
<1>3. Typed'
  BY TypedStep DEF SafeInv
<1>4. \A p \in Process : JobSafe(p)'
  <2>1. ASSUME NEW p \in procs, JobMoves(p) PROVE \A q \in Process : JobSafe(q)'
    BY <1>2, <2>1, JobMovesSafely
  <2>2. ASSUME NEW p \in procs, Gone(p) PROVE \A q \in Process : JobSafe(q)'
    <3>1. OthersStay(p) /\ job'[p].step = "idle"
      BY <1>2, <2>2, EndFields, NoJobFields DEF Gone
    <3>2. JobSafe(p)'
      BY <3>1 DEF JobSafe
    <3> QED
      BY <1>1, <1>2, <3>1, <3>2, JobsStaySafe DEF SafeInv
  <2>3. ASSUME UNCHANGED job PROVE \A q \in Process : JobSafe(q)'
    BY <1>1, <2>3 DEF SafeInv, Safe, JobSafe, Settled
  <2> QED
    BY <2>1, <2>2, <2>3, WhatMoves
<1>5. \A a \in acks' : a[2] \in Settled'
  <2>1. ASSUME NEW p \in procs, SendReceipt(p), NEW a \in acks' PROVE a[2] \in Settled'
    <3>1. a \in acks \/ a = <<p, job[p].msg>>
      BY <2>1 DEF SendReceipt
    <3>2. job[p].msg \in Settled
      BY <1>2, <2>1 DEF SafeInv, Safe, JobSafe, SendReceipt, At
    <3> QED
      BY <1>1, <3>1, <3>2 DEF SafeInv, Safe, Settled
  <2>2. acks' \subseteq acks \/ \E p \in procs : SendReceipt(p)
    BY WhoWrites DEF Written
  <2> QED
    BY <1>1, <2>1, <2>2 DEF SafeInv, Safe, Settled
<1>6. Published' \subseteq Stored'
  <2>1. ASSUME NEW p \in procs, InsertRow(p) PROVE Published' \subseteq Stored'
    BY <1>2, <2>1, RowInserted DEF SafeInv, Safe
  <2>2. ASSUME NEW p \in procs, InsertEvent(p) PROVE Published' \subseteq Stored'
    BY <1>2, <2>2, EventInserted DEF SafeInv, Safe
  <2>3. ASSUME UNCHANGED <<rows, events>> PROVE Published' \subseteq Stored'
    BY <2>3 DEF SafeInv, Safe, Published, Stored
  <2> QED
    BY <2>1, <2>2, <2>3, WhatInserts
<1>7. (arrived \ pending)' \subseteq Settled'
  <2>1. ASSUME NEW p \in procs, NEW m \in Message, Forget(p, m)
        PROVE  (arrived \ pending)' \subseteq Settled
    <3>1. <<p, m>>[2] \in Settled
      BY <2>1 DEF SafeInv, Safe, Forget
    <3> QED
      BY <2>1, <3>1 DEF SafeInv, Safe, Forget
  <2>2. ASSUME NEW m \in Message, Arrive(m) PROVE (arrived \ pending)' \subseteq Settled
    BY <2>2 DEF SafeInv, Safe, Arrive
  <2>3. ASSUME UNCHANGED <<arrived, pending>> PROVE (arrived \ pending)' \subseteq Settled
    BY <2>3 DEF SafeInv, Safe
  <2>4. \/ \E p \in procs, m \in Message : Forget(p, m)
        \/ \E m \in Message : Arrive(m)
        \/ UNCHANGED <<arrived, pending>>
    BY WhoWrites DEF Written
  <2> QED
    BY <1>1, <2>1, <2>2, <2>3, <2>4 DEF Settled
<1> QED
  BY <1>3, <1>4, <1>5, <1>6, <1>7 DEF SafeInv, Safe

LEMMA SafeAlways == Spec => []SafeInv
<1>1. Init => SafeInv
  <2> SUFFICES ASSUME Init PROVE SafeInv
    OBVIOUS
  <2>1. \A p \in Process : JobSafe(p)
    BY NoJobFields DEF Init, JobSafe
  <2>2. Published = {}
    BY DEF Init, Published, Range
  <2> QED
    BY <2>1, <2>2, TypedInit DEF Init, SafeInv, Safe
<1>2. SafeInv /\ [Next]_vars => SafeInv'
  BY SafeStep
<1> QED
  BY <1>1, <1>2, PTL DEF Spec

\* The inbox refines the ledger: whatever dies between two statements, the relay
\* forgets only what is announced, and what is announced is stored
\* (observeMessage, sendReceipt).
THEOREM InboxRefinesLedger == Spec => ForgottenOnlyWhenKept
<1>1. Init => Ledger!Init
  <2> SUFFICES ASSUME Init PROVE Ledger!Init
    OBVIOUS
  <2>1. opaque \subseteq Message
    BY InboxAssumption DEF Init, opaque, Scenario
  <2>2. Published = {} /\ Stored = {}
    BY DEF Init, Published, Range, Stored
  <2> QED
    BY <2>1, <2>2 DEF Init, Ledger!Init
<1>2. SafeInv /\ [Next]_vars => [Ledger!Next]_(Ledger!vars)
  <2> SUFFICES ASSUME SafeInv, [Next]_vars PROVE [Ledger!Next]_(Ledger!vars)
    OBVIOUS
  <2>1. opaque' = opaque /\ procs \subseteq Process
    BY LedgerGrows DEF SafeInv, Typed, TypeOK, Scenario, procs
  <2>2. ASSUME NEW p \in procs, InsertRow(p) PROVE Ledger!Next
    <3>1. job[p].msg \in Message /\ Stored' = Stored \cup {job[p].msg} /\ Published' = Published
      BY <2>1, <2>2, RowInserted
    <3>2. UNCHANGED <<arrived, pending>>
      BY <2>2 DEF InsertRow, relay
    <3>3. Ledger!Store(job[p].msg)
      BY <2>1, <3>1, <3>2 DEF Ledger!Store
    <3> QED
      BY <3>1, <3>3 DEF Ledger!Next
  <2>3. ASSUME NEW p \in procs, InsertEvent(p) PROVE Ledger!Next
    <3>1. /\ job[p].msg \in Message /\ job[p].msg \in Stored
          /\ Published' = Published \cup {job[p].msg} /\ Stored' = Stored
      BY <2>1, <2>3, EventInserted
    <3>2. UNCHANGED <<arrived, pending>>
      BY <2>3 DEF InsertEvent, relay
    <3>3. Ledger!Publish(job[p].msg)
      BY <2>1, <3>1, <3>2 DEF Ledger!Publish
    <3> QED
      BY <3>1, <3>3 DEF Ledger!Next
  <2>4. ASSUME UNCHANGED <<rows, events>>,
               NEW p \in procs, NEW m \in Message, Forget(p, m)
        PROVE  [Ledger!Next]_(Ledger!vars)
    <3>1. Stored' = Stored /\ Published' = Published
      BY <2>4 DEF Stored, Published
    <3>2. <<p, m>>[2] \in Settled
      BY <2>4 DEF SafeInv, Safe, Forget
    <3>3. CASE m \in arrived
      <4>1. (arrived \ pending)' = (arrived \ pending) \cup {m}
        BY <2>4, <3>3 DEF Forget
      <4>2. Ledger!Release(m)
        BY <2>1, <3>1, <3>2, <4>1 DEF Ledger!Release, Settled
      <4> QED
        BY <4>2 DEF Ledger!Next
    <3>4. CASE m \notin arrived
      <4>1. (arrived \ pending)' = arrived \ pending
        BY <2>4, <3>4 DEF Forget
      <4> QED
        BY <2>1, <3>1, <4>1 DEF Ledger!vars
    <3> QED
      BY <3>3, <3>4
  <2>5. ASSUME UNCHANGED <<rows, events>>, (arrived \ pending)' = arrived \ pending
        PROVE  UNCHANGED Ledger!vars
    <3>1. Stored' = Stored /\ Published' = Published
      BY <2>5 DEF Stored, Published
    <3> QED
      BY <2>1, <2>5, <3>1 DEF Ledger!vars
  <2>6. ASSUME NEW m \in Message, Arrive(m) PROVE (arrived \ pending)' = arrived \ pending
    BY <2>6 DEF Arrive
  <2>7. \/ \E p \in procs, m \in Message : Forget(p, m)
        \/ \E m \in Message : Arrive(m)
        \/ UNCHANGED <<arrived, pending>>
    BY WhoWrites DEF Written
  <2> QED
    BY <2>2, <2>3, <2>4, <2>5, <2>6, <2>7, WhatInserts
<1> QED
  BY <1>1, <1>2, SafeAlways, PTL DEF Spec, ForgottenOnlyWhenKept, Ledger!Spec

-----------------------------------------------------------------------------
(* A process that has the home directory to itself.  Nobody else is at     *)
(* work then, so what a job read from the disk is still so when it writes. *)

BaseInv == SafeInv /\ \A p \in Process \ procs : job[p].step = "idle"

LEMMA BaseStep ==
  ASSUME BaseInv, [Next]_vars
  PROVE  BaseInv'
<1>1. SafeInv' /\ procs' = procs /\ procs \subseteq Process /\ job \in [Process -> Job]
  BY SafeStep, WhatInserts DEF BaseInv, SafeInv, Typed, TypeOK, Scenario, procs
<1>2. ASSUME NEW p \in procs, JobMoves(p) \/ Gone(p) PROVE OthersStay(p)
  <2>1. CASE JobMoves(p)
    BY <1>1, <2>1, JobsTyped DEF BaseInv, SafeInv
  <2>2. CASE Gone(p)
    BY <1>1, <2>2, EndFields DEF Gone
  <2> QED
    BY <1>2, <2>1, <2>2
<1>3. ASSUME NEW q \in Process \ procs PROVE job'[q] = job[q]
  <2>1. ASSUME NEW p \in procs, OthersStay(p) PROVE job'[q] = job[q]
    BY <1>1, <2>1 DEF OthersStay
  <2> QED
    BY <1>2, <2>1, WhatMoves
<1> QED
  BY <1>1, <1>3 DEF BaseInv

LEMMA BaseAlways == Spec => []BaseInv
<1>1. Init => BaseInv
  <2> SUFFICES ASSUME Init PROVE BaseInv
    OBVIOUS
  <2>1. \A p \in Process : JobSafe(p) /\ job[p].step = "idle"
    BY NoJobFields DEF Init, JobSafe
  <2>2. Published = {}
    BY DEF Init, Published, Range
  <2> QED
    BY <2>1, <2>2, TypedInit DEF Init, SafeInv, Safe, BaseInv
<1>2. BaseInv /\ [Next]_vars => BaseInv'
  BY BaseStep
<1> QED
  BY <1>1, <1>2, PTL DEF Spec

\* The others are idle, before the step and after it.
LEMMA OthersIdle ==
  ASSUME BaseInv, [Next]_vars, Alone, NEW p \in procs, NEW q \in Process, q # p
  PROVE  job[q].step = "idle" /\ job'[q].step = "idle"
<1>1. q \notin procs /\ procs' = procs
  BY WhatInserts DEF Alone, procs
<1>2. BaseInv'
  BY BaseStep
<1> QED
  BY <1>1, <1>2 DEF BaseInv

-----------------------------------------------------------------------------
(* Once per process.  A job past hasSidecarEvent holds a message that was  *)
(* not announced when it asked.  From the first announcement on nobody     *)
(* passes, so what is announced and what is about to be add up to at most  *)
(* one for each process.                                                   *)

Storing == {"key", "create", "fill", "row", "event"}

Places(m)  == {i \in 1..Len(events) : events[i] = m}
Holders(m) == {p \in procs : job[p].step \in Storing /\ job[p].msg = m}

Counted(m) ==
  \/ Places(m) = {}
  \/ Cardinality(Places(m)) + Cardinality(Holders(m)) <= Cardinality(procs)

OnceInv == BaseInv /\ \A m \in Message : Counted(m)

LEMMA PlacesFinite ==
  ASSUME BaseInv, NEW m \in Message
  PROVE  /\ IsFiniteSet(Places(m)) /\ Cardinality(Places(m)) \in Nat
         /\ IsFiniteSet(Holders(m)) /\ Cardinality(Holders(m)) \in Nat
         /\ IsFiniteSet(procs) /\ Cardinality(procs) \in Nat
         /\ Cardinality(Holders(m)) <= Cardinality(procs)
<1>1. events \in Seq(Message) /\ procs \subseteq Process
  BY DEF BaseInv, SafeInv, Typed, TypeOK, Scenario, procs
<1>2. IsFiniteSet(1..Len(events))
  <2>1. Len(events) \in Int
    BY <1>1
  <2> QED
    BY <2>1, FS_Interval
<1>3. IsFiniteSet(Places(m))
  BY <1>2, FS_Subset DEF Places
<1>4. IsFiniteSet(procs)
  BY <1>1, InboxAssumption, FS_Subset
<1>5. IsFiniteSet(Holders(m)) /\ Cardinality(Holders(m)) <= Cardinality(procs)
  <2>1. Holders(m) \in SUBSET procs
    BY DEF Holders
  <2> QED
    BY <1>4, <2>1, FS_Subset
<1> QED
  BY <1>3, <1>4, <1>5, FS_CardinalityType

\* A job is past the question because it was so before, or it asks now and the
\* message is not announced.
LEMMA WhoStores ==
  ASSUME SafeInv, NEW p \in Process, JobMoves(p), job'[p].step \in Storing
  PROVE  /\ job'[p].msg = job[p].msg /\ ~InsertEvent(p)
         /\ job[p].step \in Storing \/ job[p].msg \notin Published
<1>1. /\ job \in [Process -> Job] /\ issued \in Nat /\ keyfile \in Nat /\ scene \in Scenario
      /\ kv \in [Field -> Nat] /\ down \in Frames /\ late \in Frames
  BY DEF SafeInv, Typed, TypeOK
<1>2. ~Deliver(p) /\ ~DeliverLate(p)
  <2>1. ASSUME Deliver(p) \/ DeliverLate(p) PROVE FALSE
    <3>1. PICK m \in down[p] \cup late[p] : Begin(p, m, TRUE) \/ Begin(p, m, FALSE)
      BY <2>1 DEF Deliver, DeliverLate
    <3>2. m \in Message
      BY <1>1 DEF Frames
    <3>3. job'[p].step = FirstStep(m)
      BY <1>1, <3>1, <3>2, BeginFields
    <3> QED
      BY <3>3 DEF FirstStep, Storing
  <2> QED
    BY <2>1
<1>3. ~InsertEvent(p)
  <2>1. InsertEvent(p) => job'[p].step = "load"
    BY <1>1, GotoFields DEF InsertEvent, Steps
  <2> QED
    BY <2>1 DEF Storing
<1>4. ~LoadState(p) /\ ~BeginReceipt(p)
  <2>1. LoadState(p) => job'[p].step = "save"
    BY <1>1, MigratedType, StateFields DEF LoadState
  <2>2. BeginReceipt(p) => job'[p].step = "load"
    BY <1>1, ReceiptFields
  <2> QED
    BY <2>1, <2>2 DEF Storing
<1>5. ~SaveState(p) /\ ~SendReceipt(p)
  <2>1. ASSUME SaveState(p) \/ SendReceipt(p) PROVE FALSE
    <3>1. Goto(p, "ack") \/ job' = [job EXCEPT ![p] = NoJob]
      BY <2>1 DEF SaveState, SendReceipt
    <3>2. job'[p].step \in {"ack", "idle"}
      BY <1>1, <3>1, GotoFields, EndFields, NoJobFields DEF Steps
    <3> QED
      BY <3>2 DEF Storing
  <2> QED
    BY <2>1
<1>6. CASE CheckEvent(p)
  <2>1. CASE job[p].msg \in Published
    <3>1. job'[p].step = "ack"
      BY <1>1, <1>6, <2>1, GotoFields DEF CheckEvent, Steps
    <3> QED
      BY <3>1 DEF Storing
  <2>2. CASE job[p].msg \notin Published
    <3>1. job'[p].msg = job[p].msg
      BY <1>1, <1>6, <2>2, GotoFields DEF CheckEvent, Steps
    <3> QED
      BY <1>3, <2>2, <3>1
  <2> QED
    BY <2>1, <2>2
<1>7. CASE ReadKey(p) \/ MakeKey(p) \/ CreateKeyFile(p) \/ FillKeyFile(p) \/ InsertRow(p)
  <2>1. issued + 1 \in Nat
    BY <1>1
  <2>2. job'[p].msg = job[p].msg
    BY <1>1, <1>7, <2>1, KeyFields, GotoFields DEF ReadKey, MakeKey, CreateKeyFile,
       FillKeyFile, InsertRow, Steps
  <2>3. job[p].step \in Storing
    BY <1>7 DEF ReadKey, MakeKey, CreateKeyFile, FillKeyFile, InsertRow, At, Storing
  <2> QED
    BY <1>3, <2>2, <2>3
<1> QED
  BY <1>2, <1>3, <1>4, <1>5, <1>6, <1>7 DEF JobMoves

\* Once a message is announced nobody joins those about to announce it.
LEMMA HoldersOnlyLeave ==
  ASSUME BaseInv, [Next]_vars, NEW m \in Message, m \in Published
  PROVE  Holders(m)' \subseteq Holders(m)
<1>1. /\ procs' = procs /\ procs \subseteq Process /\ job \in [Process -> Job] /\ SafeInv
  BY WhatInserts DEF BaseInv, SafeInv, Typed, TypeOK, Scenario, procs
<1>2. SUFFICES ASSUME NEW q \in procs, job'[q].step \in Storing, job'[q].msg = m
               PROVE  job[q].step \in Storing /\ job[q].msg = m
  BY <1>1 DEF Holders
<1>3. ASSUME NEW p \in procs, JobMoves(p)
      PROVE  job[q].step \in Storing /\ job[q].msg = m
  <2>1. CASE q = p
    BY <1>1, <1>2, <1>3, <2>1, WhoStores
  <2>2. CASE q # p
    BY <1>1, <1>2, <1>3, <2>2, JobsTyped DEF OthersStay, SafeInv
  <2> QED
    BY <2>1, <2>2
<1>4. ASSUME NEW p \in procs, Gone(p)
      PROVE  job[q].step \in Storing /\ job[q].msg = m
  <2>1. OthersStay(p) /\ job'[p].step = "idle"
    BY <1>1, <1>4, EndFields, NoJobFields DEF Gone
  <2>2. q # p
    BY <1>2, <2>1 DEF Storing
  <2> QED
    BY <1>1, <1>2, <2>1, <2>2 DEF OthersStay
<1> QED
  BY <1>2, <1>3, <1>4, WhatMoves

\* The process that announces is one of those that were about to, and leaves them.
LEMMA AnnouncingCounts ==
  ASSUME OnceInv, [Next]_vars, NEW p \in procs, InsertEvent(p),
         NEW m \in Message, m = job[p].msg
  PROVE  Counted(m)'
<1>1. /\ BaseInv /\ SafeInv /\ p \in Process /\ events \in Seq(Message)
      /\ job \in [Process -> Job] /\ procs' = procs /\ procs \subseteq Process
  BY WhatInserts DEF OnceInv, BaseInv, SafeInv, Typed, TypeOK, Scenario, procs
<1>2. Places(m)' = Places(m) \cup {Len(events) + 1} /\ Len(events) + 1 \notin Places(m)
  <2> DEFINE s == events
             t == Append(s, m)
  <2>1. events' = t /\ s \in Seq(Message)
    BY <1>1 DEF InsertEvent
  <2>2. /\ Len(t) = Len(s) + 1 /\ Len(s) \in Nat /\ t[Len(s) + 1] = m
        /\ \A i \in 1..Len(s) : t[i] = s[i]
    BY <2>1
  <2> HIDE DEF t
  <2>3. {i \in 1..Len(t) : t[i] = m} = {i \in 1..Len(s) : s[i] = m} \cup {Len(s) + 1}
    BY <2>2
  <2>4. Len(s) + 1 \notin {i \in 1..Len(s) : s[i] = m}
    BY <2>2
  <2> QED
    BY <2>1, <2>3, <2>4 DEF Places
<1>3. Cardinality(Places(m)') = Cardinality(Places(m)) + 1
  BY <1>1, <1>2, PlacesFinite, FS_AddElement
<1>4. Holders(m)' \subseteq Holders(m) \ {p} /\ p \in Holders(m)
  <2>1. OthersStay(p) /\ job'[p].step = "load"
    BY <1>1, GotoFields DEF InsertEvent, Steps
  <2>2. p \in Holders(m)
    BY DEF Holders, InsertEvent, At, Storing
  <2>3. ASSUME NEW q \in Holders(m)' PROVE q \in Holders(m) \ {p}
    <3>1. q # p /\ q \in procs
      BY <1>1, <2>1, <2>3 DEF Holders, Storing
    <3> QED
      BY <1>1, <2>1, <2>3, <3>1 DEF Holders, OthersStay
  <2> QED
    BY <2>2, <2>3
<1>5. Cardinality(Holders(m)') <= Cardinality(Holders(m)) - 1
  <2>1. IsFiniteSet(Holders(m) \ {p}) /\ Cardinality(Holders(m) \ {p}) = Cardinality(Holders(m)) - 1
    BY <1>1, <1>4, PlacesFinite, FS_RemoveElement
  <2> QED
    BY <1>4, <2>1, FS_Subset
<1>6. IsFiniteSet(Holders(m)') /\ Cardinality(Holders(m)') \in Nat
  BY <1>1, <1>4, PlacesFinite, FS_Subset, FS_CardinalityType
<1>7. Places(m) = {} => Cardinality(Places(m)) = 0
  BY FS_EmptySet
<1>8. Counted(m)
  BY DEF OnceInv
<1>9. Cardinality(Places(m)') + Cardinality(Holders(m)') <= Cardinality(procs)
  BY <1>1, <1>3, <1>5, <1>6, <1>7, <1>8, PlacesFinite DEF Counted
<1> QED
  BY <1>1, <1>9 DEF Counted

LEMMA OnceStep ==
  ASSUME OnceInv, [Next]_vars
  PROVE  OnceInv'
<1>1. BaseInv /\ BaseInv' /\ procs' = procs /\ procs \subseteq Process /\ events \in Seq(Message)
  BY BaseStep, WhatInserts
     DEF OnceInv, BaseInv, SafeInv, Typed, TypeOK, Scenario, procs
<1>2. SUFFICES ASSUME NEW m \in Message PROVE Counted(m)'
  BY <1>1 DEF OnceInv
<1>3. ASSUME Places(m)' = Places(m) PROVE Counted(m)'
  <2>1. CASE Places(m) = {}
    BY <1>3, <2>1 DEF Counted
  <2>2. CASE Places(m) # {}
    <3>1. m \in Published
      <4>1. PICK i \in Places(m) : TRUE
        BY <2>2
      <4>2. i \in 1..Len(events) /\ events[i] = m
        BY <4>1 DEF Places
      <4> QED
        BY <1>1, <4>2 DEF Published, Range
    <3>2. Holders(m)' \subseteq Holders(m)
      BY <1>1, <3>1, HoldersOnlyLeave
    <3>3. Cardinality(Holders(m)') <= Cardinality(Holders(m)) /\ Cardinality(Holders(m)') \in Nat
      BY <1>1, <3>2, PlacesFinite, FS_Subset, FS_CardinalityType
    <3>4. Cardinality(Places(m)) + Cardinality(Holders(m)) <= Cardinality(procs)
      BY <2>2 DEF OnceInv, Counted
    <3>5. Cardinality(Places(m)') + Cardinality(Holders(m)') <= Cardinality(procs)
      BY <1>1, <1>3, <3>3, <3>4, PlacesFinite
    <3> QED
      BY <1>1, <3>5 DEF Counted
  <2> QED
    BY <2>1, <2>2
<1>4. ASSUME NEW p \in procs, InsertEvent(p), job[p].msg # m PROVE Places(m)' = Places(m)
  <2> DEFINE s == events
             x == job[p].msg
             t == Append(s, x)
  <2>1. events' = t /\ s \in Seq(Message) /\ x \in Message
    BY <1>1, <1>4, EventInserted DEF InsertEvent, BaseInv
  <2>2. /\ Len(t) = Len(s) + 1 /\ Len(s) \in Nat /\ t[Len(s) + 1] # m
        /\ \A i \in 1..Len(s) : t[i] = s[i]
    BY <1>4, <2>1
  <2> HIDE DEF t
  <2>3. {i \in 1..Len(t) : t[i] = m} = {i \in 1..Len(s) : s[i] = m}
    BY <2>2
  <2> QED
    BY <2>1, <2>3 DEF Places
<1>5. ASSUME events' = events PROVE Places(m)' = Places(m)
  BY <1>5 DEF Places
<1>6. ASSUME NEW p \in procs, InsertRow(p) PROVE events' = events
  BY <1>6 DEF InsertRow
<1> QED
  BY <1>3, <1>4, <1>5, <1>6, AnnouncingCounts, WhatInserts

\* However often a message is redelivered, it is announced at most once for each
\* process that shares the home directory, and once to a process that has it to
\* itself (hasSidecarEvent, insertSidecarEvent).
THEOREM AnnouncedOncePerProcess == Spec => []OncePerProcess
<1>1. Init /\ BaseInv => OnceInv
  <2> SUFFICES ASSUME Init, BaseInv, NEW m \in Message PROVE Places(m) = {}
    BY DEF OnceInv, Counted
  <2>1. events = <<>> /\ Len(<<>>) = 0
    BY DEF Init
  <2> QED
    BY <2>1 DEF Places
<1>2. OnceInv /\ [Next]_vars => OnceInv'
  BY OnceStep
<1>3. OnceInv => OncePerProcess
  <2> SUFFICES ASSUME OnceInv, NEW m \in Message
               PROVE  Cardinality(Places(m)) <= Cardinality(procs)
    BY DEF OncePerProcess, Places
  <2>1. Places(m) = {} => Cardinality(Places(m)) = 0
    BY FS_EmptySet
  <2> QED
    BY <2>1, PlacesFinite DEF OnceInv, Counted
<1> QED
  BY <1>1, <1>2, <1>3, BaseAlways, PTL DEF Spec

-----------------------------------------------------------------------------
(* Nothing is left lying.  A job that will answer for its message is never *)
(* given up for another: the next begins when the last one is over.        *)

JobFree(p) == job[p].step = "idle" => job[p].msg = 0

\* Who answers for a message that the relay still keeps.
Answered(p, m) ==
  \/ m \in down[p]
  \/ job[p].msg = m /\ job[p].live
  \/ <<p, m>> \in acks
  \/ m \in refused /\ m \in Settled

LyingInv ==
  /\ BaseInv
  /\ \A p \in Process : JobFree(p)
  /\ Alone => \A p \in procs, m \in Message : m \in pending /\ up[p] => Answered(p, m)

LEMMA FreeStep ==
  ASSUME BaseInv, \A p \in Process : JobFree(p), [Next]_vars
  PROVE  \A p \in Process : JobFree(p)'
<1>1. /\ job \in [Process -> Job] /\ procs \subseteq Process /\ issued \in Nat /\ keyfile \in Nat
      /\ scene \in Scenario /\ kv \in [Field -> Nat] /\ down \in Frames /\ late \in Frames
      /\ SafeInv
  BY DEF BaseInv, SafeInv, Typed, TypeOK, Scenario, procs
<1>2. ASSUME NEW p \in Process, OthersStay(p), JobFree(p)' PROVE \A q \in Process : JobFree(q)'
  BY <1>2 DEF OthersStay, JobFree
<1>3. ASSUME NEW p \in procs, JobMoves(p) PROVE JobFree(p)' /\ OthersStay(p)
  <2>1. p \in Process /\ OthersStay(p)
    BY <1>1, <1>3, JobsTyped DEF SafeInv
  <2>2. CASE Deliver(p) \/ DeliverLate(p)
    <3>1. PICK m \in down[p] \cup late[p] : Begin(p, m, TRUE) \/ Begin(p, m, FALSE)
      BY <2>2 DEF Deliver, DeliverLate
    <3>2. m \in Message
      BY <1>1, <2>1 DEF Frames
    <3>3. job'[p].step = FirstStep(m)
      BY <1>1, <2>1, <3>1, <3>2, BeginFields
    <3> QED
      BY <2>1, <3>3 DEF JobFree, FirstStep
  <2>3. CASE ReadKey(p) \/ MakeKey(p)
    <3>1. issued + 1 \in Nat
      BY <1>1
    <3>2. job'[p].step \in {"row", "create"}
      BY <1>1, <2>1, <2>3, <3>1, KeyFields DEF ReadKey, MakeKey, Steps
    <3> QED
      BY <2>1, <3>2 DEF JobFree
  <2>4. CASE \/ CheckEvent(p) \/ CreateKeyFile(p) \/ FillKeyFile(p) \/ InsertRow(p)
             \/ InsertEvent(p) \/ SaveState(p) \/ SendReceipt(p)
    <3>1. \/ \E s \in {"ack", "key", "fill", "row", "event", "load"} : Goto(p, s)
          \/ job' = [job EXCEPT ![p] = NoJob]
      BY <2>4 DEF CheckEvent, CreateKeyFile, FillKeyFile, InsertRow, InsertEvent, SaveState,
         SendReceipt
    <3>2. \/ job'[p].step \in {"ack", "key", "fill", "row", "event", "load"}
          \/ job'[p].msg = 0
      BY <1>1, <2>1, <3>1, GotoFields, EndFields, NoJobFields DEF Steps
    <3> QED
      BY <2>1, <3>2 DEF JobFree
  <2>5. CASE LoadState(p) \/ BeginReceipt(p)
    <3>1. job'[p].step \in {"save", "load"}
      BY <1>1, <2>1, <2>5, MigratedType, StateFields, ReceiptFields DEF LoadState
    <3> QED
      BY <2>1, <3>1 DEF JobFree
  <2> QED
    BY <1>3, <2>2, <2>3, <2>4, <2>5 DEF JobMoves
<1>4. ASSUME NEW p \in procs, Gone(p) PROVE JobFree(p)' /\ OthersStay(p)
  <2>1. job'[p].msg = 0 /\ OthersStay(p)
    BY <1>1, <1>4, EndFields, NoJobFields DEF Gone
  <2> QED
    BY <2>1 DEF JobFree
<1>5. ASSUME UNCHANGED job PROVE \A p \in Process : JobFree(p)'
  BY <1>5 DEF JobFree
<1> QED
  BY <1>1, <1>2, <1>3, <1>4, <1>5, WhatMoves

\* A job keeps its message, and the client that will answer, until it answers.
LEMMA JobAnswers ==
  ASSUME SafeInv, NEW p \in Process, JobFree(p), JobMoves(p), up[p],
         NEW m \in Message, job[p].msg = m, job[p].live
  PROVE  (job'[p].msg = m /\ job'[p].live) \/ <<p, m>> \in acks'
<1>1. /\ job \in [Process -> Job] /\ issued \in Nat /\ keyfile \in Nat /\ scene \in Scenario
      /\ kv \in [Field -> Nat]
  BY DEF SafeInv, Typed, TypeOK
<1>2. m # 0
  BY InboxAssumption
<1>3. ~Deliver(p) /\ ~DeliverLate(p) /\ ~BeginReceipt(p)
  BY <1>2 DEF JobFree, Deliver, DeliverLate, BeginReceipt, Idle
<1>4. CASE ReadKey(p) \/ MakeKey(p)
  <2>1. issued + 1 \in Nat
    BY <1>1
  <2> QED
    BY <1>1, <1>4, <2>1, KeyFields DEF ReadKey, MakeKey, Steps
<1>5. CASE \/ CheckEvent(p) \/ CreateKeyFile(p) \/ FillKeyFile(p) \/ InsertRow(p)
           \/ InsertEvent(p) \/ SaveState(p)
  <2>1. PICK s \in {"ack", "key", "fill", "row", "event", "load"} : Goto(p, s)
    BY <1>2, <1>5 DEF CheckEvent, CreateKeyFile, FillKeyFile, InsertRow, InsertEvent, SaveState
  <2> QED
    BY <1>1, <2>1, GotoFields DEF Steps
<1>6. CASE LoadState(p)
  BY <1>1, <1>6, MigratedType, StateFields DEF LoadState
<1>7. CASE SendReceipt(p)
  BY <1>7 DEF SendReceipt
<1> QED
  BY <1>3, <1>4, <1>5, <1>6, <1>7 DEF JobMoves

LEMMA LyingStep ==
  ASSUME LyingInv, [Next]_vars
  PROVE  LyingInv'
<1>1. BaseInv' /\ scene' = scene /\ (Alone' <=> Alone) /\ procs' = procs
  BY BaseStep, WhatInserts DEF LyingInv, Alone, procs
<1>2. \A p \in Process : JobFree(p)'
  BY FreeStep DEF LyingInv
<1>3. SUFFICES ASSUME Alone, NEW p \in procs, NEW m \in Message, m \in pending', up'[p]
               PROVE  Answered(p, m)'
  BY <1>1, <1>2 DEF LyingInv
<1>4. /\ job \in [Process -> Job] /\ procs \subseteq Process /\ p \in Process
      /\ scene \in Scenario /\ down \in Frames /\ late \in Frames /\ SafeInv
      /\ up \in [Process -> BOOLEAN] /\ faults \in Nat /\ JobFree(p)
      /\ acks \subseteq Process \X Message
  BY DEF LyingInv, BaseInv, SafeInv, Typed, TypeOK, Scenario, procs
<1>5. m \in pending /\ up[p] => Answered(p, m)
  BY <1>3 DEF LyingInv
<1>6. \A q \in procs : q = p
  BY <1>3 DEF Alone
<1>7. m \in Settled => m \in Settled'
  BY <1>4, LedgerGrows DEF Settled
<1>8. CASE JobMoves(p)
  <2>1. UNCHANGED <<pending, refused, up>> /\ acks \subseteq acks'
    BY <1>8 DEF JobMoves, Deliver, DeliverLate, CheckEvent, ReadKey, MakeKey, CreateKeyFile,
       FillKeyFile, InsertRow, InsertEvent, LoadState, SaveState, SendReceipt, BeginReceipt,
       relay, wires
  <2>2. Answered(p, m)
    BY <1>3, <1>5, <2>1
  <2>3. CASE m \in down[p]
    <3>1. CASE Deliver(p)
      <4>1. PICK x \in down[p] : Begin(p, x, TRUE) /\ down' = [down EXCEPT ![p] = @ \ {x}]
        BY <3>1 DEF Deliver
      <4>2. x \in Message
        BY <1>4 DEF Frames
      <4>3. job'[p].msg = x /\ job'[p].live
        BY <1>4, <4>1, <4>2, BeginFields
      <4>4. x # m => m \in down'[p]
        BY <1>4, <2>3, <4>1 DEF Frames
      <4> QED
        BY <4>3, <4>4 DEF Answered
    <3>2. CASE ~Deliver(p)
      <4>1. down' = down
        BY <1>8, <3>2 DEF JobMoves, DeliverLate, CheckEvent, ReadKey, MakeKey, CreateKeyFile,
           FillKeyFile, InsertRow, InsertEvent, LoadState, SaveState, SendReceipt,
           BeginReceipt, wires
      <4> QED
        BY <2>3, <4>1 DEF Answered
    <3> QED
      BY <3>1, <3>2
  <2>4. CASE job[p].msg = m /\ job[p].live
    BY <1>3, <1>4, <1>8, <2>1, <2>4, JobAnswers DEF Answered
  <2>5. CASE <<p, m>> \in acks
    BY <2>1, <2>5 DEF Answered
  <2>6. CASE m \in refused /\ m \in Settled
    BY <1>7, <2>1, <2>6 DEF Answered
  <2> QED
    BY <2>2, <2>3, <2>4, <2>5, <2>6 DEF Answered
<1>9. ~Gone(p) /\ ~Replace(p) /\ ~Drop(p) /\ ~Close(p)
  BY <1>3, <1>4 DEF Gone, Replace, Drop, Close, Hangup
<1>10. CASE Join(p)
  BY <1>3, <1>4, <1>10 DEF Join, Answered, Frames
<1>11. CASE \E x \in Message : Forget(p, x)
  <2>1. PICK x \in Message : Forget(p, x)
    BY <1>11
  <2>2. m \in pending /\ m # x /\ UNCHANGED <<refused, up, down, job>>
    BY <1>3, <2>1 DEF Forget
  <2>3. <<p, m>> \in acks => <<p, m>> \in acks'
    BY <2>1, <2>2 DEF Forget
  <2> QED
    BY <1>3, <1>5, <1>7, <2>2, <2>3 DEF Answered
<1>12. CASE \E x \in Message : Refuse(p, x)
  <2>1. PICK x \in Message : Refuse(p, x)
    BY <1>12
  <2>2. m \in pending /\ refused' = refused \cup {x} /\ UNCHANGED <<up, down, job>>
    BY <1>3, <1>9, <2>1 DEF Refuse
  <2>3. CASE x = m
    <3>1. <<p, m>>[2] \in Settled
      BY <2>1, <2>3, <1>4 DEF Refuse, SafeInv, Safe
    <3>2. m \in Settled'
      BY <1>4, <3>1, LedgerGrows DEF Settled
    <3> QED
      BY <2>2, <2>3, <3>2 DEF Answered
  <2>4. CASE x # m
    <3>1. <<p, m>> \in acks => <<p, m>> \in acks'
      BY <2>1, <2>4 DEF Refuse
    <3> QED
      BY <1>3, <1>5, <1>7, <2>2, <3>1 DEF Answered
  <2> QED
    BY <2>3, <2>4
<1>13. CASE \E x \in Message : Arrive(x)
  <2>1. PICK x \in Message : Arrive(x)
    BY <1>13
  <2>2. UNCHANGED <<refused, up, acks, job>> /\ pending' = pending \cup {x}
    BY <2>1 DEF Arrive
  <2>3. PICK told \in SUBSET {q \in procs : up[q]} :
          /\ told # {} \/ ~\E q \in procs : up[q]
          /\ down' = [q \in Process |-> IF q \in told THEN down[q] \cup {x} ELSE down[q]]
    BY <2>1 DEF Arrive
  <2>4. p \in told
    BY <1>3, <1>6, <2>2, <2>3
  <2>5. down'[p] = down[p] \cup {x}
    BY <1>4, <2>3, <2>4
  <2> QED
    BY <1>3, <1>5, <1>7, <2>2, <2>5 DEF Answered
<1>14. CASE UNCHANGED <<pending, refused, up, down, job, acks>>
  BY <1>3, <1>5, <1>7, <1>14 DEF Answered
<1>15. \/ JobMoves(p) \/ Gone(p) \/ Replace(p) \/ Drop(p) \/ Close(p) \/ Join(p)
       \/ \E x \in Message : Forget(p, x) \/ Refuse(p, x) \/ Arrive(x)
       \/ UNCHANGED <<pending, refused, up, down, job, acks>>
  <2>1. ASSUME NEW q \in procs, Handles(q) \/ Lives(q) \/ BeginReceipt(q), ~JobMoves(q), ~Gone(q),
               ~Replace(q), ~Drop(q), ~Close(q)
        PROVE  UNCHANGED <<pending, refused, up, down, job, acks>>
    BY <2>1 DEF Handles, Lives, JobMoves, DeliverClosed, ReadTornKey, Start, Exit, Die, wires, relay
  <2>2. LoseKey \/ UNCHANGED vars => UNCHANGED <<pending, refused, up, down, job, acks>>
    BY DEF LoseKey, vars, wires, relay
  <2> QED
    BY <1>6, <2>1, <2>2 DEF Next
<1> QED
  BY <1>8, <1>9, <1>10, <1>11, <1>12, <1>13, <1>14, <1>15

\* To a process that has the home directory to itself, what the relay still keeps
\* while it is connected is on its way, in the hands of a job that will answer, or
\* answered, a receipt the relay refused apart (handlePhoenix, sendReceipt).
THEOREM KeptMessagesAreAnswered == Spec => []NothingLeftLying
<1>1. Init /\ BaseInv => LyingInv
  BY NoJobFields DEF Init, LyingInv, JobFree
<1>2. LyingInv /\ [Next]_vars => LyingInv'
  BY LyingStep
<1>3. LyingInv => NothingLeftLying
  <2>1. LyingInv => pending \subseteq Message
    BY DEF LyingInv, BaseInv, SafeInv, Typed, TypeOK
  <2> QED
    BY <2>1 DEF LyingInv, NothingLeftLying, Answered, Settled
<1> QED
  BY <1>1, <1>2, <1>3, BaseAlways, PTL DEF Spec

-----------------------------------------------------------------------------
(* The key.  While no key is in the file nothing is stored, and a job that *)
(* is about to store holds the key that is in it.                          *)

Real(key) == key \notin {Missing, Torn}

KeyHeld(p) ==
  /\ job[p].step \in {"create", "fill", "row"} => Real(job[p].key)
  /\ Alone /\ keyLosses = 0 =>
       /\ job[p].step = "create" => keyfile = Missing
       /\ job[p].step = "fill" => keyfile = Torn
       /\ job[p].step = "row" => job[p].key = keyfile

KeyInv ==
  /\ BaseInv /\ RowsUnderKey /\ issued >= Torn
  /\ \A m \in Stored : Real(rows[m])
  /\ \A p \in Process : KeyHeld(p)

LEMMA KeyStep ==
  ASSUME KeyInv, [Next]_vars
  PROVE  KeyInv'
<1>1. BaseInv' /\ scene' = scene /\ (Alone' <=> Alone)
  BY BaseStep, WhatInserts DEF KeyInv, Alone, procs
<1>2. /\ job \in [Process -> Job] /\ procs \subseteq Process /\ rows \in [Message -> Nat]
      /\ issued \in Nat /\ issued >= 1 /\ keyfile \in Nat /\ keyLosses \in Nat
      /\ scene \in Scenario /\ kv \in [Field -> Nat] /\ down \in Frames /\ late \in Frames
      /\ SafeInv /\ \A p \in Process : KeyHeld(p)
  BY DEF KeyInv, BaseInv, SafeInv, Typed, TypeOK, Scenario, procs, Torn
<1>3. issued' >= Torn
  <2>1. issued' = issued \/ issued' = issued + 1
    BY WhoWrites DEF Written
  <2> QED
    BY <1>2, <2>1 DEF Torn
<1>4. keyLosses' = 0 => keyLosses = 0 /\ ~LoseKey
  <2>1. keyLosses' = keyLosses \/ LoseKey
    BY WhoWrites DEF Written
  <2>2. LoseKey => keyLosses' = keyLosses + 1
    BY DEF LoseKey
  <2> QED
    BY <1>2, <2>1, <2>2
\* Who writes the rows and the file.
<1>5. \/ \E p \in procs : InsertRow(p) /\ UNCHANGED keyfile
      \/ \E p \in procs : (CreateKeyFile(p) \/ FillKeyFile(p)) /\ UNCHANGED rows
      \/ LoseKey /\ UNCHANGED rows
      \/ UNCHANGED <<rows, keyfile>>
  <2>1. \A p \in procs : InsertRow(p) => UNCHANGED keyfile
    BY DEF InsertRow
  <2>2. \A p \in procs : CreateKeyFile(p) \/ FillKeyFile(p) => UNCHANGED rows
    BY DEF CreateKeyFile, FillKeyFile
  <2>3. LoseKey => UNCHANGED rows
    BY DEF LoseKey
  <2> QED
    BY <2>1, <2>2, <2>3, WhoWrites DEF Written
<1>6. /\ \A m \in Stored' : Real(rows'[m])
      /\ Alone /\ keyLosses' = 0 => \A m \in Stored' : rows'[m] = keyfile'
  <2>1. ASSUME NEW p \in procs, InsertRow(p), UNCHANGED keyfile, NEW m \in Stored'
        PROVE  Real(rows'[m]) /\ (Alone /\ keyLosses' = 0 => rows'[m] = keyfile')
    <3>1. m \in Message /\ (m \in Stored => rows'[m] = rows[m])
          /\ (m \notin Stored => rows'[m] = job[p].key)
      BY <1>2, <2>1 DEF InsertRow, Stored
    <3>2. Real(job[p].key) /\ (Alone /\ keyLosses = 0 => job[p].key = keyfile)
      BY <1>2, <2>1 DEF KeyHeld, InsertRow, At
    <3>3. m \in Stored => Real(rows[m]) /\ (Alone /\ keyLosses = 0 => rows[m] = keyfile)
      BY DEF KeyInv, RowsUnderKey
    <3> QED
      BY <1>4, <2>1, <3>1, <3>2, <3>3
  <2>2. ASSUME NEW p \in procs, CreateKeyFile(p) \/ FillKeyFile(p), UNCHANGED rows,
               NEW m \in Stored'
        PROVE  Real(rows'[m]) /\ (Alone /\ keyLosses' = 0 => rows'[m] = keyfile')
    <3>1. m \in Stored /\ rows'[m] = rows[m] /\ Real(rows[m])
      BY <2>2 DEF Stored, KeyInv
    <3>2. Alone /\ keyLosses = 0 => rows[m] = keyfile /\ keyfile \in {Missing, Torn}
      BY <1>2, <2>2, <3>1 DEF KeyInv, RowsUnderKey, KeyHeld, CreateKeyFile, FillKeyFile, At
    <3> QED
      BY <1>4, <3>1, <3>2 DEF Real
  <2>3. ASSUME LoseKey, UNCHANGED rows, NEW m \in Stored'
        PROVE  Real(rows'[m]) /\ (Alone /\ keyLosses' = 0 => rows'[m] = keyfile')
    BY <1>4, <2>3 DEF KeyInv, Stored
  <2>4. ASSUME UNCHANGED <<rows, keyfile>>, NEW m \in Stored'
        PROVE  Real(rows'[m]) /\ (Alone /\ keyLosses' = 0 => rows'[m] = keyfile')
    BY <1>4, <2>4 DEF KeyInv, RowsUnderKey, Stored
  <2> QED
    BY <1>5, <2>1, <2>2, <2>3, <2>4
<1>7. ASSUME NEW p \in procs, JobMoves(p) PROVE KeyHeld(p)'
  <2>1. p \in Process /\ KeyHeld(p) /\ job[p].key \in Nat
    <3>1. p \in Process /\ KeyHeld(p) /\ job[p] \in Job
      BY <1>2
    <3> QED
      BY <3>1 DEF Job
  <2>2. CASE ReadKey(p)
    <3>1. job'[p].step = "row" /\ job'[p].key = keyfile
      BY <1>2, <2>1, <2>2, KeyFields DEF ReadKey, Steps
    <3>2. Real(keyfile) /\ keyfile' = keyfile
      BY <2>2 DEF ReadKey, Real, disk
    <3> QED
      BY <3>1, <3>2 DEF KeyHeld
  <2>3. CASE MakeKey(p)
    <3>1. issued + 1 \in Nat /\ Real(issued + 1)
      BY <1>2 DEF Real, Missing, Torn
    <3>2. job'[p].step = "create" /\ job'[p].key = issued + 1
      BY <1>2, <2>1, <2>3, <3>1, KeyFields DEF MakeKey, Steps
    <3>3. keyfile' = Missing
      BY <2>3 DEF MakeKey, disk
    <3> QED
      BY <3>1, <3>2, <3>3 DEF KeyHeld
  <2>4. CASE CreateKeyFile(p)
    <3>1. job'[p].step = "fill" /\ job'[p].key = job[p].key
      BY <1>2, <2>1, <2>4, GotoFields DEF CreateKeyFile, Steps
    <3>2. keyfile' = Torn /\ Real(job[p].key)
      BY <2>1, <2>4 DEF CreateKeyFile, At, KeyHeld
    <3> QED
      BY <3>1, <3>2 DEF KeyHeld
  <2>5. CASE FillKeyFile(p)
    <3>1. job'[p].step = "row" /\ job'[p].key = job[p].key
      BY <1>2, <2>1, <2>5, GotoFields DEF FillKeyFile, Steps
    <3>2. keyfile' = job[p].key /\ Real(job[p].key)
      BY <2>1, <2>5 DEF FillKeyFile, At, KeyHeld
    <3> QED
      BY <3>1, <3>2 DEF KeyHeld
  <2>6. CASE Deliver(p) \/ DeliverLate(p)
    <3>1. PICK m \in down[p] \cup late[p] : Begin(p, m, TRUE) \/ Begin(p, m, FALSE)
      BY <2>6 DEF Deliver, DeliverLate
    <3>2. m \in Message
      BY <1>2, <2>1 DEF Frames
    <3>3. job'[p].step = FirstStep(m)
      BY <1>2, <2>1, <3>1, <3>2, BeginFields
    <3> QED
      BY <3>3 DEF KeyHeld, FirstStep
  <2>7. CASE CheckEvent(p) \/ InsertRow(p) \/ InsertEvent(p)
    <3>1. PICK s \in {"ack", "key", "event", "load"} : Goto(p, s)
      BY <2>7 DEF CheckEvent, InsertRow, InsertEvent
    <3>2. job'[p].step = s
      BY <1>2, <2>1, <3>1, GotoFields DEF Steps
    <3> QED
      BY <3>2 DEF KeyHeld
  <2>8. CASE LoadState(p)
    <3>1. job'[p].step = "save"
      BY <1>2, <2>1, <2>8, MigratedType, StateFields DEF LoadState
    <3> QED
      BY <3>1 DEF KeyHeld
  <2>9. CASE SaveState(p) \/ SendReceipt(p)
    <3>1. Goto(p, "ack") \/ job' = [job EXCEPT ![p] = NoJob]
      BY <2>9 DEF SaveState, SendReceipt
    <3>2. job'[p].step \in {"ack", "idle"}
      BY <1>2, <2>1, <3>1, GotoFields, EndFields, NoJobFields DEF Steps
    <3> QED
      BY <3>2 DEF KeyHeld
  <2>10. CASE BeginReceipt(p)
    <3>1. job'[p].step = "load"
      BY <1>2, <2>1, <2>10, ReceiptFields
    <3> QED
      BY <3>1 DEF KeyHeld
  <2> QED
    BY <1>7, <2>2, <2>3, <2>4, <2>5, <2>6, <2>7, <2>8, <2>9, <2>10 DEF JobMoves
<1>8. ASSUME NEW p \in procs, Gone(p) PROVE KeyHeld(p)' /\ OthersStay(p)
  <2>1. job'[p].step = "idle" /\ OthersStay(p)
    BY <1>2, <1>8, EndFields, NoJobFields DEF Gone
  <2> QED
    BY <2>1 DEF KeyHeld
<1>9. ASSUME NEW p \in procs, KeyHeld(p)', OthersStay(p) PROVE \A q \in Process : KeyHeld(q)'
  <2>1. ASSUME NEW q \in Process, q # p PROVE KeyHeld(q)'
    <3>1. job'[q] = job[q] /\ KeyHeld(q)
      BY <1>2, <1>9, <2>1 DEF OthersStay
    <3>2. Alone => job'[q].step = "idle"
      BY <2>1, OthersIdle DEF KeyInv
    <3> QED
      BY <1>1, <3>1, <3>2 DEF KeyHeld
  <2> QED
    BY <1>9, <2>1
<1>10. ASSUME UNCHANGED job, UNCHANGED keyfile \/ LoseKey PROVE \A p \in Process : KeyHeld(p)'
  BY <1>1, <1>2, <1>4, <1>10 DEF KeyHeld
<1>11. \/ \E p \in procs : JobMoves(p)
       \/ \E p \in procs : Gone(p)
       \/ UNCHANGED job /\ (UNCHANGED keyfile \/ LoseKey)
  <2>1. ASSUME NEW p \in procs, ~JobMoves(p), ~Gone(p), Handles(p) \/ Join(p) \/ Lives(p)
        PROVE  UNCHANGED <<job, keyfile>>
    BY <2>1 DEF Handles, Lives, JobMoves, Start, Join, Replace, Drop, Close, Exit, Die,
       DeliverClosed, ReadTornKey, disk
  <2>2. ASSUME NEW p \in procs, NEW m \in Message, Forget(p, m) \/ Refuse(p, m) \/ Arrive(m)
        PROVE  Gone(p) \/ UNCHANGED <<job, keyfile>>
    BY <2>2 DEF Forget, Refuse, Arrive, disk
  <2>3. ASSUME NEW m \in Message, Arrive(m) PROVE UNCHANGED <<job, keyfile>>
    BY <2>3 DEF Arrive, disk
  <2>4. UNCHANGED vars \/ LoseKey => UNCHANGED job /\ (UNCHANGED keyfile \/ LoseKey)
    BY DEF vars, disk, LoseKey
  <2> QED
    BY <2>1, <2>2, <2>3, <2>4 DEF Next, JobMoves
<1>12. ASSUME NEW p \in procs, JobMoves(p) PROVE OthersStay(p)
  BY <1>2, <1>12, JobsTyped DEF SafeInv
<1>13. \A p \in Process : KeyHeld(p)'
  BY <1>7, <1>8, <1>9, <1>10, <1>11, <1>12
<1> QED
  BY <1>1, <1>3, <1>6, <1>13 DEF KeyInv, RowsUnderKey

\* What is stored is encrypted with the key in the file, as long as nobody removed
\* it and one process has the home directory (resolveSidecarStoreKey).
THEOREM StoredUnderKey == Spec => []RowsUnderKey
<1>1. Init /\ BaseInv => KeyInv
  BY NoJobFields DEF Init, KeyInv, RowsUnderKey, KeyHeld, Stored, Torn
<1>2. KeyInv /\ [Next]_vars => KeyInv'
  BY KeyStep
<1>3. KeyInv => RowsUnderKey
  BY DEF KeyInv
<1> QED
  BY <1>1, <1>2, <1>3, BaseAlways, PTL DEF Spec

-----------------------------------------------------------------------------
(* The receipts' cursor.  Without a legacy file a load reads the row as it *)
(* is, and alone nobody moves it before the save.                          *)

CursorHeld(p) ==
  job[p].step = "save" => job[p].state["receipt_cursor"] = kv["receipt_cursor"]

CursorInv ==
  /\ BaseInv
  /\ Alone /\ legacy = 0 =>
       kv["receipt_cursor"] <= receipts /\ \A p \in Process : CursorHeld(p)

\* What the save writes: the receipts seen, for a receipt, and else what is there.
LEMMA CursorSaved ==
  ASSUME CursorInv, Alone, legacy = 0, NEW p \in procs, SaveState(p)
  PROVE  kv'["receipt_cursor"] \in {kv["receipt_cursor"], receipts}
<1>1. /\ p \in Process /\ job \in [Process -> Job] /\ kv \in [Field -> Nat] /\ receipts \in Nat
  BY DEF CursorInv, BaseInv, SafeInv, Typed, TypeOK, Scenario, procs
<1> DEFINE state == job[p].state
<1>2. state["receipt_cursor"] = kv["receipt_cursor"]
  BY <1>1 DEF CursorInv, CursorHeld, SaveState, At
<1>3. state \in [Field -> Nat]
  <2>1. job[p] \in Job
    BY <1>1
  <2> QED
    BY <2>1 DEF Job
<1>4. kv' = Saved(Moved(p))
  BY DEF SaveState
<1> HIDE DEF state
<1>5. Moved(p)["receipt_cursor"] \in {state["receipt_cursor"], receipts}
  <2>1. Moved(p) = IF job[p].msg # 0 THEN [state EXCEPT !["message_seen"] = job[p].msg]
                   ELSE [state EXCEPT !["receipt_seen"] = receipts, !["receipt_cursor"] = receipts]
    BY DEF Moved, state
  <2> QED
    BY <1>3, <2>1 DEF Field
<1>6. kv'["receipt_cursor"] = IF Moved(p)["receipt_cursor"] # 0 THEN Moved(p)["receipt_cursor"]
                              ELSE kv["receipt_cursor"]
  BY <1>4 DEF Saved, Field
<1> QED
  BY <1>2, <1>5, <1>6

LEMMA CursorStep ==
  ASSUME CursorInv, [Next]_vars
  PROVE  /\ CursorInv'
         /\ Alone /\ legacy = 0 => ~(kv'["receipt_cursor"] < kv["receipt_cursor"])
<1>1. BaseInv' /\ scene' = scene /\ (Alone' <=> Alone) /\ legacy' = legacy
  BY BaseStep, WhatInserts DEF CursorInv, Alone, procs, legacy
<1>2. SUFFICES ASSUME Alone, legacy = 0
      PROVE  /\ kv'["receipt_cursor"] <= receipts' /\ \A p \in Process : CursorHeld(p)'
             /\ ~(kv'["receipt_cursor"] < kv["receipt_cursor"])
  BY <1>1 DEF CursorInv
<1>3. /\ job \in [Process -> Job] /\ procs \subseteq Process /\ receipts \in Nat
      /\ kv \in [Field -> Nat] /\ kv["receipt_cursor"] \in Nat
      /\ kv["receipt_cursor"] <= receipts /\ \A p \in Process : CursorHeld(p)
      /\ issued \in Nat /\ keyfile \in Nat /\ scene \in Scenario
      /\ down \in Frames /\ late \in Frames /\ SafeInv
  BY <1>2 DEF CursorInv, BaseInv, SafeInv, Typed, TypeOK, Scenario, procs, Field
<1>4. receipts' \in Nat /\ receipts <= receipts'
  <2>1. receipts' = receipts \/ receipts' = receipts + 1
    BY WhoWrites DEF Written
  <2> QED
    BY <1>3, <2>1
<1>5. Migrated = kv
  BY <1>2, <1>3 DEF Migrated
<1>6. kv' = kv \/ \E p \in procs : SaveState(p)
  BY <1>5, WhoWrites DEF Written
<1>7. kv'["receipt_cursor"] \in {kv["receipt_cursor"], receipts}
  <2>1. ASSUME NEW p \in procs, SaveState(p)
        PROVE  kv'["receipt_cursor"] \in {kv["receipt_cursor"], receipts}
    BY <1>2, <2>1, CursorSaved
  <2> QED
    BY <1>6, <2>1
<1>8. kv'["receipt_cursor"] <= receipts' /\ ~(kv'["receipt_cursor"] < kv["receipt_cursor"])
  BY <1>3, <1>4, <1>7
<1>9. ASSUME NEW p \in procs, JobMoves(p) PROVE CursorHeld(p)'
  <2>1. p \in Process
    BY <1>3
  <2>2. CASE LoadState(p)
    <3>1. job'[p].state = Migrated /\ kv' = Migrated
      BY <1>3, <2>1, <2>2, MigratedType, StateFields DEF LoadState
    <3> QED
      BY <3>1 DEF CursorHeld
  <2>3. CASE Deliver(p) \/ DeliverLate(p)
    <3>1. PICK m \in down[p] \cup late[p] : Begin(p, m, TRUE) \/ Begin(p, m, FALSE)
      BY <2>3 DEF Deliver, DeliverLate
    <3>2. m \in Message
      BY <1>3, <2>1 DEF Frames
    <3>3. job'[p].step = FirstStep(m)
      BY <1>3, <2>1, <3>1, <3>2, BeginFields
    <3> QED
      BY <3>3 DEF CursorHeld, FirstStep
  <2>4. CASE ReadKey(p) \/ MakeKey(p)
    <3>1. issued + 1 \in Nat
      BY <1>3
    <3>2. job'[p].step \in {"row", "create"}
      BY <1>3, <2>1, <2>4, <3>1, KeyFields DEF ReadKey, MakeKey, Steps
    <3> QED
      BY <3>2 DEF CursorHeld
  <2>5. CASE \/ CheckEvent(p) \/ CreateKeyFile(p) \/ FillKeyFile(p) \/ InsertRow(p)
             \/ InsertEvent(p) \/ SaveState(p) \/ SendReceipt(p)
    <3>1. \/ \E s \in {"ack", "key", "fill", "row", "event", "load"} : Goto(p, s)
          \/ job' = [job EXCEPT ![p] = NoJob]
      BY <2>5 DEF CheckEvent, CreateKeyFile, FillKeyFile, InsertRow, InsertEvent, SaveState,
         SendReceipt
    <3>2. job'[p].step \in {"ack", "key", "fill", "row", "event", "load", "idle"}
      BY <1>3, <2>1, <3>1, GotoFields, EndFields, NoJobFields DEF Steps
    <3> QED
      BY <3>2 DEF CursorHeld
  <2>6. CASE BeginReceipt(p)
    <3>1. job'[p].step = "load"
      BY <1>3, <2>1, <2>6, ReceiptFields
    <3> QED
      BY <3>1 DEF CursorHeld
  <2> QED
    BY <1>9, <2>2, <2>3, <2>4, <2>5, <2>6 DEF JobMoves
<1>10. ASSUME NEW p \in procs, Gone(p) PROVE CursorHeld(p)'
  <2>1. job'[p].step = "idle"
    BY <1>3, <1>10, EndFields, NoJobFields DEF Gone
  <2> QED
    BY <2>1 DEF CursorHeld
<1>11. ASSUME NEW p \in procs, CursorHeld(p)' PROVE \A q \in Process : CursorHeld(q)'
  <2>1. ASSUME NEW q \in Process, q # p PROVE CursorHeld(q)'
    BY <1>2, <2>1, OthersIdle DEF CursorHeld, CursorInv
  <2> QED
    BY <1>11, <2>1
<1>12. ASSUME UNCHANGED job, kv' = kv PROVE \A p \in Process : CursorHeld(p)'
  BY <1>3, <1>12 DEF CursorHeld
<1>13. \/ \E p \in procs : JobMoves(p) \/ Gone(p)
       \/ UNCHANGED job /\ kv' = kv
  <2>1. ASSUME UNCHANGED job PROVE kv' = kv \/ \E p \in procs : JobMoves(p)
    BY <1>6 DEF JobMoves
  <2> QED
    BY <2>1, WhatMoves
<1> QED
  BY <1>8, <1>9, <1>10, <1>11, <1>12, <1>13

\* Handling a message never moves last_receipt_cursor back, when one process has
\* the home directory and no legacy file names a cursor (updateMessageCursor).
THEOREM CursorNeverBack == Spec => ReceiptCursorKept
<1>1. Init /\ BaseInv => CursorInv
  BY NoJobFields DEF Init, CursorInv, CursorHeld, Blank, Field
<1>2. CursorInv /\ [Next]_vars => CursorInv'
  BY CursorStep
<1>3. CursorInv /\ [Next]_vars
        => [kv'["receipt_cursor"] < kv["receipt_cursor"] => legacy # 0 \/ ~Alone]_kv
  BY CursorStep
<1> QED
  BY <1>1, <1>2, <1>3, BaseAlways, PTL DEF Spec, ReceiptCursorKept

\* What the relay has forgotten is announced or could not be opened, and what is
\* announced is stored, in every state: what the ledger that the inbox implements
\* comes to (observeMessage, sendReceipt).
THEOREM ForgottenIsAnnounced == Spec => []Ledger!Accounted
<1>1. Ledger!Init => Ledger!Accounted
  BY DEF Ledger!Init, Ledger!Accounted
<1>2. Ledger!Accounted /\ [Ledger!Next]_(Ledger!vars) => Ledger!Accounted'
  BY DEF Ledger!Next, Ledger!Store, Ledger!Publish, Ledger!Release, Ledger!vars,
         Ledger!Accounted
<1>3. Ledger!Spec => []Ledger!Accounted
  BY <1>1, <1>2, PTL DEF Ledger!Spec
<1> QED
  BY <1>3, InboxRefinesLedger DEF ForgottenOnlyWhenKept
=============================================================================
