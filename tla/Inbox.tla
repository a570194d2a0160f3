-------------------------------- MODULE Inbox --------------------------------
(***************************************************************************)
(* A message from the relay to the local disk and back as a receipt:       *)
(* handlePhoenix and sendReceipt (src/src/client/index.ts), observeMessage *)
(* and close (src/src/runtime/agent.ts), the inbox key                     *)
(* (src/src/sidecar/inboxCrypto.ts), the cursors (src/src/runtime/state.ts)*)
(* and the tables under them (src/src/runtime/store.ts).                   *)
(*                                                                         *)
(* A process is a sidecar, an agent loop or a one-shot command; all share  *)
(* one home directory and one identity.  Inside a process a delivery is    *)
(* handled to its end before anything else runs (a "job"), but each of its *)
(* statements is a step: the process can die between two of them and       *)
(* another process can run between them.                                   *)
(***************************************************************************)
EXTENDS Naturals, Sequences, FiniteSets, Functions

CONSTANTS
  Process,     \* programs that can share the home directory
  Message,     \* messages, each named by its created_at
  Scenarios,   \* the settings a behaviour may have: it keeps one
  MaxStarts,   \* bound on processes started
  MaxJoins,    \* bound on connections
  MaxFaults,   \* bound on deaths, lost connections and refused receipts
  MaxReceipts, \* bound on delivery receipts observed
  MaxKeyLosses \* bound on removals of the key file

\* The rows of runtime_state; 0 is a missing row.
Field == {"receipt_seen", "receipt_cursor", "message_seen"}

\* procs: the programs of the behaviour; sent: the messages others may send;
\* opaque: those openSealed fails on; legacy: the time and the position that
\* runtime-state.json names, 0 without the file.
Scenario == [procs : SUBSET Process, sent : SUBSET Message,
             opaque : SUBSET Message, legacy : Nat]

ASSUME InboxAssumption ==
  /\ IsFiniteSet(Process) /\ Message \subseteq Nat \ {0}
  /\ Scenarios \subseteq Scenario
  /\ MaxStarts \in Nat /\ MaxJoins \in Nat /\ MaxFaults \in Nat
  /\ MaxReceipts \in Nat /\ MaxKeyLosses \in Nat

VARIABLES
  scene,   \* the scenario, which never changes
  \* the disk
  rows,    \* the key each message of inbox_messages is encrypted with, or 0
  events,  \* the messages of the 'message' rows of sidecar_events, in order
  kv,      \* runtime_state
  keyfile, \* sidecar-store.key: Missing, Torn or the number of a key
  \* the relay
  arrived, \* messages ever sent to this agent
  pending, \* those it has not been told to forget
  refused, \* history: those whose receipt it refused since a process last joined
  \* the processes
  life,    \* "on", "closed" after close(), "off"
  up,      \* whether the current client has joined its channel
  down,    \* deliveries on their way to the current client; the relay promises
           \* no order
  late,    \* deliveries read from a socket that is already closed
  job,     \* the delivery being handled
  acks,    \* message.receipt frames on their way to the relay
  \* history and bounds
  issued, receipts, keyLosses, starts, joins, faults

disk     == <<rows, events, kv, keyfile>>
relay    == <<arrived, pending, refused>>
wires    == <<up, down, late, acks>>
caps     == <<issued, receipts, keyLosses, starts, joins, faults>>
vars     == <<scene, disk, relay, life, wires, job, caps>>

procs  == scene.procs
opaque == scene.opaque
legacy == scene.legacy

Missing == 0
Torn    == 1 \* created and not written yet: the wrong length

Steps == {"idle", "check", "key", "create", "fill", "row", "event",
          "load", "save", "ack"}

\* msg is 0 in the job of a receipt; live tells that the job's frame came from
\* the client that would send the receipt; state is what loadRuntimeState read.
Job == [step : Steps, msg : Message \cup {0}, live : BOOLEAN,
        key : Nat, state : [Field -> Nat]]

Blank == [f \in Field |-> 0]

NoJob == [step |-> "idle", msg |-> 0, live |-> FALSE, key |-> 0, state |-> Blank]

\* One program has the home directory to itself.
Alone == \A p, q \in procs : p = q

Published == Range(events)

Init ==
  /\ scene \in Scenarios
  /\ rows = [m \in Message |-> 0] /\ events = <<>>
  /\ kv = Blank /\ keyfile = Missing
  /\ arrived = {} /\ pending = {} /\ refused = {}
  /\ life = [p \in Process |-> "off"]
  /\ up = [p \in Process |-> FALSE]
  /\ down = [p \in Process |-> {}]
  /\ late = [p \in Process |-> {}]
  /\ job = [p \in Process |-> NoJob]
  /\ acks = {}
  /\ issued = Torn /\ receipts = 0 /\ keyLosses = 0
  /\ starts = 0 /\ joins = 0 /\ faults = 0

-----------------------------------------------------------------------------
(* runtime_state.                                                          *)

\* loadRuntimeState: what a legacy file says is written over the rows, except
\* for the timestamp, which migrateLegacyJsonState only fills in.
Migrated ==
  [f \in Field |->
     IF legacy = 0 \/ (f = "receipt_seen" /\ kv[f] # 0)
     THEN kv[f] ELSE legacy]

\* saveRuntimeState: every field that is set is written back.
Saved(state) == [f \in Field |-> IF state[f] # 0 THEN state[f] ELSE kv[f]]

-----------------------------------------------------------------------------
(* Processes and connections.                                              *)

Idle(p) == life[p] = "on" /\ job[p].step = "idle"

\* ensureReady begins with loadRuntimeState.
Start(p) ==
  /\ life[p] = "off" /\ starts < MaxStarts
  /\ starts' = starts + 1
  /\ life' = [life EXCEPT ![p] = "on"]
  /\ kv' = Migrated
  /\ UNCHANGED <<scene, rows, events, keyfile, relay, wires, job,
                 issued, receipts, keyLosses, joins, faults>>

\* connect(): once the channel is joined the relay sends what it still keeps.
Join(p) ==
  /\ Idle(p) /\ ~up[p] /\ joins < MaxJoins
  /\ joins' = joins + 1
  /\ up' = [up EXCEPT ![p] = TRUE]
  /\ down' = [down EXCEPT ![p] = pending]
  /\ refused' = {}
  /\ UNCHANGED <<scene, disk, arrived, pending, life, late, acks, job,
                 issued, receipts, keyLosses, starts, faults>>

Hangup(p) ==
  /\ up' = [up EXCEPT ![p] = FALSE]
  /\ down' = [down EXCEPT ![p] = {}]

\* disconnect() of a client that is being replaced.  Frames the socket has
\* already received still reach the handlers.
Replace(p) ==
  /\ Idle(p) /\ up[p]
  /\ Hangup(p)
  /\ late' = [late EXCEPT ![p] = @ \cup down[p]]
  /\ UNCHANGED <<scene, disk, relay, life, acks, job, caps>>

Fault == faults < MaxFaults /\ faults' = faults + 1

\* The connection breaks: what was under way is lost, or was received already.
Drop(p) ==
  /\ up[p] /\ Fault
  /\ Hangup(p)
  /\ \E received \in {{}, down[p]} :
       late' = [late EXCEPT ![p] = @ \cup received]
  /\ acks' = {a \in acks : a[1] # p}
  /\ UNCHANGED <<scene, disk, relay, life, job, issued, receipts,
                 keyLosses, starts, joins>>

\* close(): the socket first, then the database.
Close(p) ==
  /\ Idle(p)
  /\ life' = [life EXCEPT ![p] = "closed"]
  /\ Hangup(p)
  /\ late' = [late EXCEPT ![p] = @ \cup down[p]]
  /\ UNCHANGED <<scene, disk, relay, acks, job, caps>>

\* The end of a process takes its heap and its sockets along.  A receipt that
\* already left is on its way.
Gone(p) ==
  /\ life' = [life EXCEPT ![p] = "off"]
  /\ Hangup(p)
  /\ late' = [late EXCEPT ![p] = {}]
  /\ job' = [job EXCEPT ![p] = NoJob]

Exit(p) ==
  /\ life[p] = "closed"
  /\ Gone(p)
  /\ UNCHANGED <<scene, disk, relay, acks, caps>>

\* A crash, or a statement that throws (a locked database, a row another
\* process inserted after the SELECT): nothing catches it, it ends the process.
Die(p) ==
  /\ life[p] = "on" /\ Fault
  /\ Gone(p)
  /\ UNCHANGED <<scene, disk, relay, acks, issued, receipts, keyLosses, starts, joins>>

-----------------------------------------------------------------------------
(* The relay.                                                              *)

\* A message is sent to this agent and pushed on joined channels.
Arrive(m) ==
  /\ m \in scene.sent \ arrived
  /\ arrived' = arrived \cup {m}
  /\ pending' = pending \cup {m}
  /\ \E told \in SUBSET {p \in procs : up[p]} :
       /\ told # {} \/ ~\E p \in procs : up[p]
       /\ down' = [p \in Process |->
                     IF p \in told THEN down[p] \cup {m} ELSE down[p]]
  /\ UNCHANGED <<scene, disk, refused, life, up, late, acks, job, caps>>

\* The relay takes a receipt and forgets the message.
Forget(p, m) ==
  /\ <<p, m>> \in acks
  /\ acks' = acks \ {<<p, m>>}
  /\ pending' = pending \ {m}
  /\ UNCHANGED <<scene, disk, arrived, refused, life, up, down, late, job, caps>>

\* It answers the receipt with an error: nothing handles the rejection of the
\* promise sendReceipt returned, which may or may not end the process.
Refuse(p, m) ==
  /\ <<p, m>> \in acks /\ Fault
  /\ acks' = acks \ {<<p, m>>}
  /\ refused' = refused \cup {m}
  /\ \/ UNCHANGED <<life, up, down, late, job>>
     \/ /\ Idle(p) /\ up[p]
        /\ Gone(p)
  /\ UNCHANGED <<scene, disk, arrived, pending, issued, receipts, keyLosses,
                 starts, joins>>

-----------------------------------------------------------------------------
(* Handling a message: handlePhoenix, the onMessage handler, observeMessage.*)

\* The handler opens the envelope; without its text nothing is stored.
FirstStep(m) == IF m \in opaque THEN "ack" ELSE "check"

Begin(p, m, live) ==
  job' = [job EXCEPT ![p] = [NoJob EXCEPT !.step = FirstStep(m),
                                          !.msg = m, !.live = live]]

\* Bug: the receipt is sent before the handlers run.
DeliverAndSend(p) ==
  /\ Idle(p)
  /\ \E m \in down[p] :
       /\ Begin(p, m, FALSE)
       /\ acks' = acks \cup {<<p, m>>}
       /\ down' = [down EXCEPT ![p] = @ \ {m}]
  /\ UNCHANGED <<scene, disk, relay, life, up, late, caps>>

Deliver(p) ==
  /\ Idle(p)
  /\ \E m \in down[p] :
       /\ Begin(p, m, TRUE)
       /\ down' = [down EXCEPT ![p] = @ \ {m}]
  /\ UNCHANGED <<scene, disk, relay, life, up, late, acks, caps>>

\* The socket belongs to a client that has let go of it.
DeliverLate(p) ==
  /\ Idle(p)
  /\ \E m \in late[p] :
       /\ Begin(p, m, FALSE)
       /\ late' = [late EXCEPT ![p] = @ \ {m}]
  /\ UNCHANGED <<scene, disk, relay, life, up, down, acks, caps>>

\* After close() the first query throws, which ends the process; a message
\* without text asks the store nothing.
DeliverClosed(p) ==
  /\ life[p] = "closed"
  /\ \/ \E m \in late[p] \cap opaque :
          /\ late' = [late EXCEPT ![p] = @ \ {m}]
          /\ UNCHANGED <<life, up, down, job>>
     \/ /\ late[p] \ opaque # {}
        /\ Gone(p)
  /\ UNCHANGED <<scene, disk, relay, acks, caps>>

At(p, step) == life[p] = "on" /\ job[p].step = step

Goto(p, step) == job' = [job EXCEPT ![p].step = step]

\* Bug: whether the message was published is not asked.
CheckNothing(p) ==
  /\ At(p, "check")
  /\ Goto(p, "key")
  /\ UNCHANGED <<scene, disk, relay, life, wires, caps>>

\* Bug: a message counts as handled once its inbox row exists.
CheckRow(p) ==
  /\ At(p, "check")
  /\ Goto(p, IF rows[job[p].msg] # 0 THEN "ack" ELSE "key")
  /\ UNCHANGED <<scene, disk, relay, life, wires, caps>>

\* Bug: a message that was announced before is dropped, receipt and all.
CheckEventSilently(p) ==
  /\ At(p, "check")
  /\ IF job[p].msg \in Published THEN job' = [job EXCEPT ![p] = NoJob]
     ELSE Goto(p, "key")
  /\ UNCHANGED <<scene, disk, relay, life, wires, caps>>

\* hasSidecarEvent.
CheckEvent(p) ==
  /\ At(p, "check")
  /\ Goto(p, IF job[p].msg \in Published THEN "ack" ELSE "key")
  /\ UNCHANGED <<scene, disk, relay, life, wires, caps>>

\* readSidecarStoreKey finds a key of the right length.
ReadKey(p) ==
  /\ At(p, "key") /\ keyfile \notin {Missing, Torn}
  /\ job' = [job EXCEPT ![p].step = "row", ![p].key = keyfile]
  /\ UNCHANGED <<scene, disk, relay, life, wires, caps>>

\* It finds a file of another length and throws out of the socket's callback.
ReadTornKey(p) ==
  /\ At(p, "key") /\ keyfile = Torn
  /\ Gone(p)
  /\ UNCHANGED <<scene, disk, relay, acks, caps>>

\* Bug: an existing key file is replaced by a new key.
MakeKeyAlways(p) ==
  /\ At(p, "key")
  /\ issued' = issued + 1
  /\ job' = [job EXCEPT ![p].step = "create", ![p].key = issued + 1]
  /\ UNCHANGED <<scene, disk, relay, life, wires, receipts, keyLosses,
                 starts, joins, faults>>

\* There is no file: a random key is generated.
MakeKey(p) ==
  /\ At(p, "key") /\ keyfile = Missing
  /\ issued' = issued + 1
  /\ job' = [job EXCEPT ![p].step = "create", ![p].key = issued + 1]
  /\ UNCHANGED <<scene, disk, relay, life, wires, receipts, keyLosses,
                 starts, joins, faults>>

\* writeFileSync creates or truncates the file, ...
CreateKeyFile(p) ==
  /\ At(p, "create")
  /\ keyfile' = Torn
  /\ Goto(p, "fill")
  /\ UNCHANGED <<scene, rows, events, kv, relay, life, wires, caps>>

\* ... then writes it.
FillKeyFile(p) ==
  /\ At(p, "fill")
  /\ keyfile' = job[p].key
  /\ Goto(p, "row")
  /\ UNCHANGED <<scene, rows, events, kv, relay, life, wires, caps>>

\* insertInboxMessage: a row that exists stays as it is.
InsertRow(p) ==
  LET m == job[p].msg IN
  /\ At(p, "row")
  /\ rows' = IF rows[m] = 0 THEN [rows EXCEPT ![m] = job[p].key] ELSE rows
  /\ Goto(p, "event")
  /\ UNCHANGED <<scene, events, kv, keyfile, relay, life, wires, caps>>

\* insertSidecarEvent.
InsertEvent(p) ==
  /\ At(p, "event")
  /\ events' = Append(events, job[p].msg)
  /\ Goto(p, "load")
  /\ UNCHANGED <<scene, rows, kv, keyfile, relay, life, wires, caps>>

\* A delivery receipt: its rows are AgentRuntime's; here it only begins
\* updateReceiptCursor.
BeginReceipt(p) ==
  /\ Idle(p) /\ up[p] /\ receipts < MaxReceipts
  /\ receipts' = receipts + 1
  /\ job' = [job EXCEPT ![p] = [NoJob EXCEPT !.step = "load"]]
  /\ UNCHANGED <<scene, disk, relay, life, wires, issued, keyLosses,
                 starts, joins, faults>>

\* loadRuntimeState, in updateMessageCursor and updateReceiptCursor.
LoadState(p) ==
  /\ At(p, "load")
  /\ kv' = Migrated
  /\ job' = [job EXCEPT ![p].step = "save", ![p].state = Migrated]
  /\ UNCHANGED <<scene, rows, events, keyfile, relay, life, wires, caps>>

\* Bug: the time of a message is written under the receipts' key.
MovedInWrongField(p) ==
  IF job[p].msg # 0
  THEN [job[p].state EXCEPT !["receipt_cursor"] = job[p].msg]
  ELSE [job[p].state EXCEPT !["receipt_seen"] = receipts,
                            !["receipt_cursor"] = receipts]

\* The field that moves takes the time, or the position, of what was seen.
Moved(p) ==
  IF job[p].msg # 0
  THEN [job[p].state EXCEPT !["message_seen"] = job[p].msg]
  ELSE [job[p].state EXCEPT !["receipt_seen"] = receipts,
                            !["receipt_cursor"] = receipts]

\* Bug: the receipt is sent with the cursor, for frames that carry no message too.
SaveStateAndSend(p) ==
  /\ At(p, "save")
  /\ kv' = Saved(Moved(p))
  /\ acks' = acks \cup {<<p, job[p].msg>>}
  /\ job' = [job EXCEPT ![p] = NoJob]
  /\ UNCHANGED <<scene, rows, events, keyfile, relay, life, up, down, late, caps>>

SaveState(p) ==
  /\ At(p, "save")
  /\ kv' = Saved(Moved(p))
  /\ IF job[p].msg # 0 THEN Goto(p, "ack")
     ELSE job' = [job EXCEPT ![p] = NoJob]
  /\ UNCHANGED <<scene, rows, events, keyfile, relay, life, wires, caps>>

\* The event is pushed for local consumers and the receipt sent, whatever the
\* handlers could do with the message.  A closed socket swallows it.
SendReceipt(p) ==
  /\ At(p, "ack")
  /\ acks' = IF job[p].live /\ up[p]
             THEN acks \cup {<<p, job[p].msg>>} ELSE acks
  /\ job' = [job EXCEPT ![p] = NoJob]
  /\ UNCHANGED <<scene, disk, relay, life, up, down, late, caps>>

\* Somebody removes the key file.
LoseKey ==
  /\ keyLosses < MaxKeyLosses /\ keyfile # Missing
  /\ keyLosses' = keyLosses + 1
  /\ keyfile' = Missing
  /\ UNCHANGED <<scene, rows, events, kv, relay, life, wires, job,
                 issued, receipts, starts, joins, faults>>

-----------------------------------------------------------------------------

Handles(p) ==
  \/ Deliver(p) \/ DeliverLate(p) \/ DeliverClosed(p)
  \/ CheckEvent(p) \/ ReadKey(p) \/ ReadTornKey(p)
  \/ MakeKey(p) \/ CreateKeyFile(p) \/ FillKeyFile(p)
  \/ InsertRow(p) \/ InsertEvent(p)
  \/ LoadState(p) \/ SaveState(p) \/ SendReceipt(p)

Lives(p) == Start(p) \/ Replace(p) \/ Drop(p) \/ Close(p) \/ Exit(p) \/ Die(p)

Next ==
  \/ \E p \in procs : Handles(p) \/ Join(p) \/ Lives(p) \/ BeginReceipt(p)
  \/ \E p \in procs, m \in Message : Forget(p, m) \/ Refuse(p, m)
  \/ \E m \in Message : Arrive(m)
  \/ LoseKey

Fairness == \A p \in Process : WF_vars(p \in procs /\ Handles(p))

Spec == Init /\ [][Next]_vars /\ Fairness

-----------------------------------------------------------------------------
(* Properties.                                                             *)

Frames == [Process -> SUBSET Message]

\* The types of the variables of the inbox.
TypeOK ==
  /\ scene \in Scenario
  /\ rows \in [Message -> Nat] /\ events \in Seq(Message)
  /\ kv \in [Field -> Nat] /\ keyfile \in Nat
  /\ arrived \subseteq Message /\ pending \subseteq Message
  /\ refused \subseteq Message
  /\ life \in [Process -> {"off", "on", "closed"}]
  /\ up \in [Process -> BOOLEAN]
  /\ down \in Frames /\ late \in Frames
  /\ job \in [Process -> Job]
  /\ acks \subseteq Process \X Message
  /\ issued \in Nat /\ receipts \in Nat /\ keyLosses \in Nat
  /\ starts \in Nat /\ joins \in Nat /\ faults \in Nat

Stored == {m \in Message : rows[m] # 0}

Ledger == INSTANCE InboxLedger WITH
            stored <- Stored, published <- Published,
            released <- arrived \ pending

\* However many processes share the home directory, whatever dies between two
\* statements of observeMessage, the relay is told to forget a message only
\* after its event is in sidecar_events, and an event only names a message that
\* inbox_messages holds.
ForgottenOnlyWhenKept == Ledger!Spec

\* However often the relay redelivers a message after lost receipts and crashes,
\* sidecar_events announces it at most once for each process that shares the home
\* directory, so only once to a process that has it to itself: several can pass
\* hasSidecarEvent before one inserts, but none passes it afterwards.
OncePerProcess ==
  \A m \in Message :
    Cardinality({i \in 1..Len(events) : events[i] = m}) <= Cardinality(procs)

\* While a process that has the home directory to itself is connected, no message
\* the relay still keeps is left lying: it is on its way, in the hands of a job
\* that will answer for it, or its receipt is on its way.  That holds for messages
\* delivered again after deaths, lost connections and lost receipts too.  Only a
\* receipt the relay refused on this connection leaves its message over, and then
\* the message was announced or cannot be opened.
NothingLeftLying ==
  Alone => \A p \in procs, m \in pending :
    up[p] => \/ m \in down[p]
             \/ job[p].msg = m /\ job[p].live
             \/ <<p, m>> \in acks
             \/ m \in refused /\ m \in Published \cup opaque

\* What the inbox holds is encrypted with the key in sidecar-store.key, as long
\* as nobody removed the file and one process has the directory to itself (two
\* can both find the file missing, and the later overwrites the earlier's key).
RowsUnderKey ==
  Alone /\ keyLosses = 0 => \A m \in Stored : rows[m] = keyfile

\* Handling a message never moves last_receipt_cursor back, though
\* updateMessageCursor writes it: it does so only when runtime-state.json names a
\* cursor, or when another process moved it between the load and the save.
ReceiptCursorKept ==
  [][kv'["receipt_cursor"] < kv["receipt_cursor"] =>
       legacy # 0 \/ ~Alone]_kv

\* Once a process stays connected, every message this agent can open is
\* announced, however often it has to be redelivered: unless some process died
\* while writing the key file, after which each delivery ends the process.
AnnouncedUnlessKeyTorn ==
  \A m \in Message :
    Alone /\ <>[](\E p \in procs : up[p]) =>
      (m \in arrived /\ m \notin opaque ~> m \in Published \/ keyfile = Torn)
=============================================================================
