----------------------------- MODULE LocalEvents -----------------------------
(***************************************************************************)
(* How the sidecar hands its durable events to local programs: the queue   *)
(* of the runtime (src/src/runtime/events.ts), the task that drains it and *)
(* wakes the long polls (src/src/sidecar/events.ts), GET /events and       *)
(* GET /events/stream (src/src/sidecar/app.ts), and the programs that      *)
(* read them with PlenipoSidecarClient (src/src/sidecar/client.ts).        *)
(*                                                                         *)
(* What runs between two awaits of the sidecar is one action.  A row and   *)
(* its push are one action, so a crash between the two is a Crash that     *)
(* finds the push still in the queue.  Rows are named by their id, which   *)
(* SQLite gives out in the order the inserts commit.                       *)
(***************************************************************************)
EXTENDS Naturals, Sequences, FiniteSets

CONSTANTS
  Poller,        \* programs that call GET /events in a loop
  Streamer,      \* programs that read GET /events/stream
  PlainSets,     \* which readers may ask for plaintext, together
  PollLimit,     \* rows per poll (100 in the code)
  StreamLimit,   \* rows per batch of the SSE stream (50 in the code)
  MaxRows,       \* bound on rows of sidecar_events
  MaxForeign,    \* bound on the rows another process inserts
  MaxQueue,      \* bound on the queue, for events pushed without a row
  MaxFailures    \* bound on connections lost, process deaths and keys deleted

Reader == Poller \cup Streamer

ASSUME ReaderAssumption ==
  /\ Poller \cap Streamer = {} /\ PlainSets \subseteq SUBSET Reader
  /\ PollLimit \in Nat \ {0} /\ StreamLimit \in Nat \ {0}
  /\ MaxRows \in Nat /\ MaxForeign \in Nat /\ MaxQueue \in Nat
  /\ MaxFailures \in Nat

VARIABLES
  \* on disk
  stream,    \* sidecar_events: the kind of each row and the key of its text
  storeKey,  \* the key in sidecar-store.key, 0 when there is no file
  keys,      \* how many keys were ever generated
  \* the heap of the sidecar
  queue,     \* EventQueue.queue
  consumer,  \* consumeRuntimeEvents: at next(), in EventQueue.waiters, or the
             \* event it was handed
  waiters,   \* the polls with a waker in DurableEventService.waiters
  \* a reader and the request that serves it
  phase,     \* where each request is
  batch,     \* rows listed for a reader that it has not received
  nextId,    \* nextAfterId of that batch
  after,     \* afterId of each SSE loop
  pos,       \* the after_id the reader will ask with
  got,       \* the ids the reader received, in order
  plain,     \* the readers that ask for plaintext; it never changes
  \* history and bounds
  foreign,   \* the rows another process inserted
  failures

disk     == <<stream, storeKey, keys>>
notices  == <<queue, consumer>>
requests == <<phase, batch, nextId, after>>
readers  == <<pos, got, plain>>
caps     == <<foreign, failures>>
vars     == <<disk, notices, waiters, requests, readers, caps>>

Public == {"message", "delivery_receipt"}
EventType == Public \cup {"connect"}

Row == [kind : Public, key : Nat]

\* away: no request; listing: at the head of the loop of waitForEvents with time
\* left, late: without; waiting: in its promise; answered: the response is on its
\* way; streaming: in the SSE loop.
Phases == {"away", "listing", "late", "waiting", "answered", "streaming"}

Init ==
  /\ stream = <<>> /\ storeKey = 0 /\ keys = 0
  /\ queue = <<"connect">> /\ consumer = "asking"
  /\ waiters = {}
  /\ phase = [r \in Reader |-> "away"]
  /\ batch = [r \in Reader |-> <<>>] /\ nextId = [r \in Reader |-> 0]
  /\ after = [s \in Streamer |-> 0]
  /\ pos = [r \in Reader |-> 0] /\ got = [r \in Reader |-> <<>>]
  /\ plain \in PlainSets
  /\ foreign = {} /\ failures = 0

-----------------------------------------------------------------------------
(* The runtime: rows and the queue.                                        *)

\* EventQueue.push: to the consumer if it waits, else behind the others.
Push(type) ==
  \/ /\ consumer = "waiting"
     /\ consumer' = type
     /\ UNCHANGED queue
  \/ /\ consumer # "waiting"
     /\ queue' = Append(queue, type)
     /\ UNCHANGED consumer

\* insertSidecarEvent.  The text of a message is encrypted with the store key,
\* which is generated when there is none.
Persist(kind) ==
  /\ Len(stream) < MaxRows
  /\ IF kind = "message" /\ storeKey = 0
       THEN keys' = keys + 1 /\ storeKey' = keys + 1
       ELSE UNCHANGED <<keys, storeKey>>
  /\ stream' = Append(stream, [kind |-> kind,
                               key |-> IF kind = "message" THEN storeKey' ELSE 0])

\* observeMessage and observeReceipt of something new.
Observe(kind) ==
  /\ Persist(kind) /\ Push(kind)
  /\ UNCHANGED <<waiters, requests, readers, caps>>

\* What is pushed without a row: a message that came before or that could not be
\* opened, a reconnection.
PushBare(type) ==
  /\ Len(queue) < MaxQueue
  /\ Push(type)
  /\ UNCHANGED <<disk, waiters, requests, readers, caps>>

\* A second process of the same home, such as plenipo-agent status, recovers
\* receipts and takes messages into the same database.
OtherProcess(kind) ==
  /\ Cardinality(foreign) < MaxForeign
  /\ Persist(kind)
  /\ foreign' = foreign \cup {Len(stream')}
  /\ UNCHANGED <<notices, waiters, requests, readers, failures>>

-----------------------------------------------------------------------------
(* The task of consumeRuntimeEvents.                                       *)

\* EventQueue.next.
NextEvent ==
  /\ consumer = "asking"
  /\ \/ /\ queue = <<>>
        /\ consumer' = "waiting"
        /\ UNCHANGED queue
     \/ /\ queue # <<>>
        /\ consumer' = Head(queue)
        /\ queue' = Tail(queue)
  /\ UNCHANGED <<disk, waiters, requests, readers, caps>>

\* Every waker is called once; that of a request no longer in its promise (its
\* timer fired, or its reader is gone) does nothing.
Notify ==
  /\ phase' = [r \in Reader |-> IF r \in waiters /\ phase[r] = "waiting"
                                  THEN "listing" ELSE phase[r]]
  /\ waiters' = {}

HandleEvent ==
  /\ consumer \in EventType
  /\ consumer' = "asking"
  /\ IF consumer \in Public THEN Notify ELSE UNCHANGED <<phase, waiters>>
  /\ UNCHANGED <<disk, queue, batch, nextId, after, readers, caps>>

-----------------------------------------------------------------------------
(* GET /events.                                                            *)

\* A request is over, and its locals with it.
Ends(r) ==
  /\ phase' = [phase EXCEPT ![r] = "away"]
  /\ batch' = [batch EXCEPT ![r] = <<>>]
  /\ nextId' = [nextId EXCEPT ![r] = 0]
  /\ after' = [s \in Streamer |-> IF s = r THEN 0 ELSE after[s]]

Smaller(a, b) == IF a < b THEN a ELSE b

\* listSidecarEvents(a, limit), as ids.
Page(a, limit) ==
  [i \in 1 .. Smaller(limit, Len(stream) - a) |-> a + i]

\* Bug: messages are decrypted whether or not the reader asked for plaintext.
ReadableDecrypts(r, ids) ==
  \A i \in 1 .. Len(ids) :
    stream[ids[i]].kind = "message" => stream[ids[i]].key = storeKey

Readable(r, ids) ==
  r \in plain =>
    \A i \in 1 .. Len(ids) :
      stream[ids[i]].kind = "message" => stream[ids[i]].key = storeKey

\* client.events; a timeout of zero is late from the start.
Call(r) ==
  /\ phase[r] = "away"
  /\ \E p \in {"listing", "late"} : phase' = [phase EXCEPT ![r] = p]
  /\ UNCHANGED <<disk, notices, waiters, batch, nextId, after, readers, caps>>

Listing(r) == phase[r] \in {"listing", "late"}

\* nextAfterId is the id of the last row.
Answer(r) ==
  /\ Listing(r)
  /\ LET page == Page(pos[r], PollLimit) IN
       /\ page # <<>> /\ Readable(r, page)
       /\ batch' = [batch EXCEPT ![r] = page]
       /\ nextId' = [nextId EXCEPT ![r] = page[Len(page)]]
  /\ phase' = [phase EXCEPT ![r] = "answered"]
  /\ UNCHANGED <<disk, notices, waiters, after, readers, caps>>

\* rowsToApi throws SidecarStoreKeyError, which becomes a 500: the reader has
\* learnt nothing of the batch.
Fail(r) ==
  /\ Listing(r)
  /\ ~ Readable(r, Page(pos[r], PollLimit))
  /\ Ends(r)
  /\ UNCHANGED <<disk, notices, waiters, readers, caps>>

\* Bug: an await between the listing and the waker, so rows may have come.
WaitUnchecked(r) ==
  /\ phase[r] = "listing"
  /\ phase' = [phase EXCEPT ![r] = "waiting"]
  /\ waiters' = waiters \cup {r}
  /\ UNCHANGED <<disk, notices, batch, nextId, after, readers, caps>>

\* No row and time left: register a waker and a timer.
Wait(r) ==
  /\ phase[r] = "listing"
  /\ Page(pos[r], PollLimit) = <<>>
  /\ phase' = [phase EXCEPT ![r] = "waiting"]
  /\ waiters' = waiters \cup {r}
  /\ UNCHANGED <<disk, notices, batch, nextId, after, readers, caps>>

\* The deadline passes.  The waker stays behind in the list.
Timer(r) ==
  /\ phase[r] \in {"listing", "waiting"}
  /\ phase' = [phase EXCEPT ![r] = "late"]
  /\ UNCHANGED <<disk, notices, waiters, batch, nextId, after, readers, caps>>

\* No row and no time left.
Expire(r) ==
  /\ phase[r] = "late"
  /\ Page(pos[r], PollLimit) = <<>>
  /\ nextId' = [nextId EXCEPT ![r] = pos[r]]
  /\ phase' = [phase EXCEPT ![r] = "answered"]
  /\ UNCHANGED <<disk, notices, waiters, batch, after, readers, caps>>

\* The reader takes the events and goes on from next_after_id.
Receive(r) ==
  /\ phase[r] = "answered"
  /\ got' = [got EXCEPT ![r] = @ \o batch[r]]
  /\ pos' = [pos EXCEPT ![r] = nextId[r]]
  /\ Ends(r)
  /\ UNCHANGED <<disk, notices, waiters, plain, caps>>

-----------------------------------------------------------------------------
(* GET /events/stream.                                                     *)

\* Bug: Last-Event-ID is not read.
StreamOpensFromStart(s) ==
  /\ phase[s] = "away"
  /\ phase' = [phase EXCEPT ![s] = "streaming"]
  /\ UNCHANGED <<disk, notices, waiters, batch, nextId, after, readers, caps>>

\* A stream starts after the last id the reader has, from after_id or from the
\* Last-Event-ID of an EventSource that connects again.
StreamOpens(s) ==
  /\ phase[s] = "away"
  /\ phase' = [phase EXCEPT ![s] = "streaming"]
  /\ after' = [after EXCEPT ![s] = pos[s]]
  /\ UNCHANGED <<disk, notices, waiters, batch, nextId, readers, caps>>

StreamLists(s) ==
  /\ phase[s] = "streaming" /\ batch[s] = <<>>
  /\ LET page == Page(after[s], StreamLimit) IN
       /\ page # <<>> /\ Readable(s, page)
       /\ batch' = [batch EXCEPT ![s] = page]
       /\ nextId' = [nextId EXCEPT ![s] = page[Len(page)]]
  /\ UNCHANGED <<disk, notices, waiters, phase, after, readers, caps>>

\* Bug: afterId moves one too far after a batch.
StreamWritesPast(s) ==
  /\ phase[s] = "streaming" /\ batch[s] # <<>>
  /\ got' = [got EXCEPT ![s] = Append(@, Head(batch[s]))]
  /\ pos' = [pos EXCEPT ![s] = Head(batch[s])]
  /\ batch' = [batch EXCEPT ![s] = Tail(@)]
  /\ after' = IF Len(batch[s]) = 1 THEN [after EXCEPT ![s] = nextId[s] + 1] ELSE after
  /\ UNCHANGED <<disk, notices, waiters, phase, nextId, plain, caps>>

\* writeSSE of one event; afterId moves after the last one.
StreamWrites(s) ==
  /\ phase[s] = "streaming" /\ batch[s] # <<>>
  /\ got' = [got EXCEPT ![s] = Append(@, Head(batch[s]))]
  /\ pos' = [pos EXCEPT ![s] = Head(batch[s])]
  /\ batch' = [batch EXCEPT ![s] = Tail(@)]
  /\ after' = IF Len(batch[s]) = 1 THEN [after EXCEPT ![s] = nextId[s]] ELSE after
  /\ UNCHANGED <<disk, notices, waiters, phase, nextId, plain, caps>>

\* SidecarStoreKeyError: an error event is written and the stream ends.
StreamFails(s) ==
  /\ phase[s] = "streaming" /\ batch[s] = <<>>
  /\ ~ Readable(s, Page(after[s], StreamLimit))
  /\ Ends(s)
  /\ UNCHANGED <<disk, notices, waiters, readers, caps>>

-----------------------------------------------------------------------------
(* Failures.                                                               *)

MayFail == failures < MaxFailures /\ failures' = failures + 1

\* The reader gives the request up, or loses its connection with what was on it.
Abort(r) ==
  /\ phase[r] # "away"
  /\ MayFail
  /\ Ends(r)
  /\ UNCHANGED <<disk, notices, waiters, readers, foreign>>

\* The sidecar dies and is started again; ensureReady pushes connect.
Crash ==
  /\ MayFail
  /\ queue' = <<"connect">> /\ consumer' = "asking" /\ waiters' = {}
  /\ phase' = [r \in Reader |-> "away"]
  /\ batch' = [r \in Reader |-> <<>>] /\ nextId' = [r \in Reader |-> 0]
  /\ after' = [s \in Streamer |-> 0]
  /\ UNCHANGED <<disk, readers, foreign>>

\* sidecar-store.key is deleted.
LoseKey ==
  /\ storeKey # 0
  /\ MayFail
  /\ storeKey' = 0
  /\ UNCHANGED <<stream, keys, notices, waiters, requests, readers, foreign>>

-----------------------------------------------------------------------------
Produces ==
  \/ \E kind \in Public : Observe(kind) \/ OtherProcess(kind)
  \/ \E type \in {"message", "connect"} : PushBare(type)

Drains == NextEvent \/ HandleEvent

Polls(r) ==
  \/ Call(r) \/ Answer(r) \/ Fail(r) \/ Wait(r) \/ Timer(r) \/ Expire(r)
  \/ Receive(r)

Streams(s) == StreamOpens(s) \/ StreamLists(s) \/ StreamWrites(s) \/ StreamFails(s)

Fails == Crash \/ LoseKey \/ \E r \in Reader : Abort(r)

Next ==
  \/ Produces \/ Drains \/ Fails
  \/ \E r \in Poller : Polls(r)
  \/ \E s \in Streamer : Streams(s)

\* The event loop runs what is ready, timers fire, and a reader keeps reading.
Fairness ==
  /\ WF_vars(Drains)
  /\ \A r \in Poller : WF_vars(Polls(r))
  /\ \A s \in Streamer : WF_vars(Streams(s))

Spec == Init /\ [][Next]_vars /\ Fairness

-----------------------------------------------------------------------------
(* Properties.                                                             *)

\* The types of the state.  No reader has, or is being given, an after_id beyond
\* the last row.
TypeOK ==
  /\ stream \in Seq(Row) /\ storeKey \in Nat /\ keys \in Nat
  /\ queue \in Seq(EventType)
  /\ consumer \in {"asking", "waiting"} \cup EventType
  /\ waiters \subseteq Poller
  /\ phase \in [Reader -> Phases]
  /\ batch \in [Reader -> Seq(Nat)]
  /\ nextId \in [Reader -> 0 .. Len(stream)]
  /\ after \in [Streamer -> 0 .. Len(stream)]
  /\ pos \in [Reader -> 0 .. Len(stream)]
  /\ got \in [Reader -> Seq(Nat)] /\ plain \subseteq Reader
  /\ foreign \subseteq Nat /\ failures \in Nat

\* An event that wakes the polls is queued, or handed to the consumer.
NotifyComing ==
  \/ consumer \in Public
  \/ \E i \in 1 .. Len(queue) : queue[i] \in Public

\* No poll sleeps through an event of its own sidecar (waitForEvents lists, then
\* registers; the queue keeps or hands over what is pushed meanwhile): one that
\* waits with such a row ahead of it has its waker in the list, and a
\* notification is on its way.
NoLostWakeup ==
  \A r \in Poller :
    /\ phase[r] = "waiting"
    /\ \E i \in pos[r] + 1 .. Len(stream) : i \notin foreign
    => r \in waiters /\ NotifyComing

\* Each reader receives every row once and in order, over batches, long polls,
\* lost answers, broken streams and restarts: the after_id protocol implements
\* EventStream.
Durable == INSTANCE EventStream WITH written <- Len(stream), seen <- got

ReadOnceInOrder == Durable!Spec

\* Rows ahead of the reader whose text cannot be decrypted with the key on disk.
Unreadable(r) ==
  /\ r \in plain
  /\ \E i \in pos[r] + 1 .. Len(stream) :
       stream[i].kind = "message" /\ stream[i].key # storeKey

\* Every reader gets to the end of the stream, so every row reaches it, unless it
\* asks for plaintext and the key of a message ahead of it was lost: then rowsToApi
\* fails the batch.  A reader that asks for metadata only is never held up.
ArrivesUnlessKeyLost ==
  \A r \in Reader :
    pos[r] < Len(stream) ~> (pos[r] = Len(stream) \/ Unreadable(r))
=============================================================================
