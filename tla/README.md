# Plenipo TypeScript SDK: verification project

TLA+ specifications of the TypeScript SDK of Plenipo (`src/`), the TLC
configurations that check them, and proofs checked by TLAPS. Paths below are
relative to the directory of the SDK's sources (`src/src/`), unless they start
with `src/`.

## 1. The system

An agent is a program with an identity (a DID and keys) that exchanges encrypted
envelopes with other agents through a *relay* (not in this repository). The relay
accepts envelopes, delivers them, keeps a receipt of each delivery for the
sender, pushes it to the sender's open connections, and lists what a cursor has
not seen yet. The SDK is one JavaScript process; it runs one callback at a time,
and interleaving happens at its `await`s only. Its SQLite statements are
autocommitted, one by one.

| Component | State | Operations | Talks to |
|---|---|---|---|
| Agent runtime, `runtime/agent.ts` | `client`, `running`, `eventsQueue`, `identity`, `routeDeclared` | `ensureReady`, `send`, `runWithReconnect`, `disconnect`, `close`; callbacks `observeMessage`, `observeReceipt`; `recoverMissedReceipts` | store, relay client, identity |
| Store, `runtime/store.ts`, `state.ts`, `cursor.ts` | SQLite: `outbox`, `receipts`, `sidecar_events`, `inbox_messages`, `runtime_state`; a legacy JSON file | row by row insertions and updates, cursors, listings | - |
| Relay client, `client/index.ts` | one WebSocket, pending requests by `ref`, handlers | `connect`, `send`, `listReceipts`, `sendReceipt`, `disconnect` | relay |
| Local events, `runtime/events.ts`, `sidecar/events.ts` | queue of events, list of waiters | `push`, `next`, `waitForEvents`, `listEventsAfter`, `notify` | store, runtime |
| Sidecar, `sidecar/app.ts`, `server.ts`, `middleware.ts`, `auth.ts` | HTTP server, token, the task that consumes events | `/send`, `/events`, `/events/stream`, `/route`, ..., `stop` | runtime, local events, identity |
| Inbox encryption, `sidecar/inboxCrypto.ts` | `sidecar-store.key` | read, generate, encrypt, decrypt | local events, runtime |
| Identity, `identity/*.ts` | `identity.json`, the DID document at Core | `ensureIdentity`, `syncIdentityWithCore`, `declareRoute`, `declareCapabilities` | Core over HTTP |
| MCP runtime and tools, `mcp/` | one client, the memoised `connectPromise`, a buffer of messages | `ensureConnected`, `send`, `drainMessages` | relay client |
| CLI, `agent/cli.ts` | - | `run`, `status`, `sidecar`, `events`, listings, as a second process on the store | all |
| Payments, DID resolution, discovery, delivery status, configuration, cryptography | - | request and response, parsing, fallback chains | HTTP services |

### What is hard

* **Interleaving at awaits.** `send()` checks its row, awaits a connection and all
  of its recovery, and then writes. Several `send()`s and `maintainConnection`
  reconnect at the same time, each replacing `this.client`.
* **Two sources of receipts.** The same receipt comes live and in a page of
  `receipt.list`, on several sockets, while one cursor in SQLite records how far
  the agent got.
* **Crashes between statements.** One observed receipt is four statements; one
  observed message is three.
* **Answers that never come.** Requests have neither a timeout nor a handler for
  the close of their socket.
* **Local delivery.** Long polls sleep between a listing and a notification.
* **Files that several processes share.** The home directory holds the store, the
  key of the inbox, the identity and the token. A sidecar, an agent loop and
  one-shot commands use it without locks; the identity is read, registered over
  HTTP and written back; whole files are truncated and then written.
* **Overlapping tool calls.** They share one memoised connection and one buffer.

### What makes each component correct

* Agent runtime and store: a row on disk before a frame on the wire; no claim in
  the outbox beyond what the relay did; no second send of what is settled; every
  receipt recorded and published exactly once, and none missed; the connection
  comes back; every `send()` settles; one joined socket.
* Local events: every poll that waits is woken by the next event; what a client
  reads is the stream in order without gaps; `stop` ends.
* Inbox: a message event has its inbox row; a message the relay delivers again
  after a crash is published once; the relay forgets a message only once that
  needs nothing more; what is stored can be decrypted; a message never moves the
  receipts' cursor back; what is sent is announced at last.
* Identity: identity.json and Core hold the same document or a registration is
  pending; the keys of a published DID are never lost; only a declaration changes
  what is declared; a failed registration is made up for; the token file opens the
  sidecar that listens.
* MCP server: one connection however calls overlap; the buffer loses nothing and
  hands nothing over twice; a position leaves nothing behind; a recipient's key is
  found if any source has it; a purchase is charged at most once; calls settle.

## 2. Modules

| Module | Models |
|---|---|
| `AgentRuntime` | `send`, connection, reconnection, receipts and their recovery, over store, sockets, crashes and an environment relay |
| `ReceiptLedger` | the abstract promise about receipts; `AgentRuntime` implements it |
| `MCAgentRuntime` | instance of `AgentRuntime` for TLC, with the symmetry sets |
| `AgentRuntime_proofs` | its inductive invariant and theorems |
| `AgentRecovery_proofs` | invariants and theorems about its connections, the recovery and the published events |
| `AgentAwaits_proofs` | invariants and the theorem about its requests and replies |
| `AgentOutbox_proofs` | the invariant and the theorem about its pending rows |
| `LocalEvents` | the event queue, the long polls and the SSE stream of the sidecar, with the programs that read them |
| `EventStream` | the abstract promise about the durable stream; `LocalEvents` implements it |
| `MCLocalEvents` | instance of `LocalEvents` for TLC |
| `LocalEvents_proofs` | its inductive invariant and theorems |
| `Inbox` | `observeMessage` and the automatic receipt, statement by statement, in processes that share the home directory: deliveries, the inbox key, the cursors, the legacy file, `close()` |
| `InboxLedger` | the abstract promise about messages; `Inbox` implements it |
| `MCInbox`, `Inbox_proofs` | instance for TLC; invariants and theorems |
| `Identity` | the identity file, Core and the calls between them: `ensureIdentity`, `declareRoute`, `declareCapabilities`, `syncIdentityWithCore`, the start of agent and sidecar |
| `MCIdentity`, `Identity_proofs` | instance for TLC; invariants and theorems |
| `McpServer` | the tool calls of the MCP server: the memoised connection, the buffer, the search for a key, the purchase |
| `Mailbox` | the abstract promise about the buffer; `McpServer` implements it |
| `MCMcpServer`, `McpServer_proofs` | instance for TLC; invariants and theorems |

`AgentRuntime` produces the rows that `LocalEvents` hands out: `Observe` is the
`InsertSidecarEvent` of the first, and that of a message, seen from the other end.
They share only `sidecar_events`, which one appends to and the other reads; they
are not composed, because the readers' side assumes nothing of when rows come.
`Inbox` is the other producer: its `InsertEvent` is the `Observe` of a message. It
shares with `AgentRuntime` the socket and `runtime_state`, and takes from it one
step, a receipt that moves the cursor (`BeginReceipt`). `Identity` is what
`ensureReady` does before `connectClient`, that is before `AgentRuntime` begins.

### AgentRuntime

State, and the code it stands for:

| Variables | Code |
|---|---|
| `outbox`, `receipts`, `events`, `cursor` | the tables `outbox` (the status), `receipts`, `sidecar_events` (its `delivery_receipt` rows), and `last_receipt_cursor`/`last_receipt_seen_at`; they survive a crash |
| `accepted`, `log` | the relay: envelopes it took, receipts it keeps in listing order |
| `status`, `down`, `todo` | WebSockets, frames on their way down, requests on their way up |
| `current`, `running`, `backoff` | `this.client`, `this.running`, the delay in `maintainConnection` |
| `pc`, `env`, `sock`, `after` | each activation of an async method: the await it is at, its envelope, the client object it captured, `pageCursor` |
| `job` | the synchronous run of `observeReceipt` calls in progress |
| `wire`, `acked` | history: frames sent per envelope, envelopes a `send()` resolved for |

A **task** is one activation: a `Sender` is a caller of `send()`; `Main` is
`ensureReady` followed by `maintainConnection`. An action is what runs between
two awaits. `observeReceipt` is the exception: it runs in one go, but each of its
SQLite statements is an action of its own (`UpsertReceipt`,
`MarkOutboxDelivered`, `InsertSidecarEvent`, `UpdateReceiptCursor`), since a crash
can come in between; while such a job runs (`~JsIdle`) no other JavaScript does.
The relay (`Relays`), lost connections (`Drop`) and `Crash` happen at any time.

| Await in the code | `pc` | Actions that leave it |
|---|---|---|
| `client.connect()` (agent.ts:273) | `connect` | `HandleJoin`, `HandleJoinNack`, `ConnectFails` |
| `client.listReceipts` (agent.ts:399) | `recover` | `HandlePage` and the job that ends in `NextPage` or `RecoveryEnds`, `HandleListNack` |
| `resolveEncPublicKey` (agent.ts:144) | `resolve` | `SendOnWire`, `ResolveFails` |
| `client.send` (agent.ts:150) | `wire` | `HandleAck`, `HandleSendNack` |
| `sleep` after a failure (agent.ts:436) | `sleep` | `KeeperWakes` |
| `sleep(1000)` (agent.ts:428) | `idle` of `Main` | `KeeperReconnects` |

`KeepConnected` chooses between `runWithReconnect` (the CLI's agent) and the
sidecar, which calls `ensureReady` only and reconnects from `send()`;
`ReadyFirst` lets `send()` be called only after `ensureReady`, as the sidecar does.

Abstractions, and why they are sound here:

* Envelope contents, payments and billing fields are left out: no control depends
  on them. Each receipt has an id and a time stamp, so the cursor
  (`encodeReceiptCursor`) identifies a position in the relay's list, and
  `last_receipt_seen_at`, used only when no cursor is stored, the same position.
* `runtime-state.json` is absent, so that `loadRuntimeState` is a pure read
  (`Inbox` has it).
* `observeMessage` and the automatic receipt are in `Inbox`, the in-memory
  `eventsQueue` is in `LocalEvents`: they share no state with this module but the
  socket and the cursors.
* `seenReceiptIds` is written and never read.
* The continuation of a resolved promise runs before the next frame is handled,
  as it does in the event loop (microtasks come first).
* A client object that nothing refers to and whose socket is closed is collected
  and its name used again (`Free`).
* `ensureReady`'s registration with Core can fail before `connectClient`, which
  changes nothing modelled here: the action is not taken.
* `close()` has the durable effects of `Crash` at the points where the loop is
  between two callbacks. What still awaits when it runs is not modelled (section 6).
* The relay answers each request at most once, keeps receipts in order and lists
  them by position. It may refuse a join, a `message.send` or a `receipt.list`.

### LocalEvents

| Variables | Code |
|---|---|
| `stream`, `storeKey`, `keys` | the table `sidecar_events` (kind of row, key of its text), `sidecar-store.key`; they survive a crash |
| `queue`, `consumer` | `EventQueue.queue`; the task of `consumeRuntimeEvents`: about to ask, in `EventQueue.waiters`, or holding the event it was handed |
| `waiters` | `DurableEventService.waiters`, one entry per poll |
| `phase`, `batch`, `nextId`, `after` | each request: the await it is at, the rows it listed, `nextAfterId`, `afterId` of the SSE loop |
| `pos`, `got`, `plain` | each reader: the id it will ask with, the ids it received, whether it asks for plaintext |
| `foreign` | history: which rows another process inserted |

| Code | Actions |
|---|---|
| `observeMessage`, `observeReceipt` (agent.ts) | `Observe`; `PushBare` for an event without a new row, a reconnection or a message that came before |
| `EventQueue.push`, `next`; `consumeRuntimeEvents`; `notify` | `Push`, `NextEvent`, `HandleEvent`, `Notify` |
| `waitForEvents` behind `GET /events` | `Call`; `Answer`, `Fail`, `Wait`, `Expire` from the head of its loop; `Timer`; `Receive` |
| `GET /events/stream` | `StreamOpens`, `StreamLists`, `StreamWrites` (one `writeSSE`), `StreamFails` |
| a second process (`plenipo-agent status`) | `OtherProcess` |
| failures | `Abort`, `Crash`, `LoseKey` |

A request at `listing` has time left and at `late` has none, so a deadline is
whatever moment `Timer` chooses.

Abstractions, and why they are sound here:

* A row and its push are one action. They are one synchronous run of the code, and
  a crash between them leaves what a crash just after them leaves: the row, no queue.
* Row ids are consecutive and given out in commit order (one SQLite writer,
  `AUTOINCREMENT`, no row is ever deleted).
* A waker that stays in the list after its timer fired resolves a settled promise
  and clears a timer that fired: it does nothing, so `waiters` is a set of polls
  and keeps such a poll until the next `notify`.
* A request whose reader has left goes on in the server until its next await; it
  can change nothing but its own locals, so it ends with `Abort`.
* A `writeSSE` whose event never reaches the reader is an `Abort` before it.
* A reader adopts `next_after_id` with the events, in one step; a reader that keeps
  its place on disk apart from what it did with the events is its own concern.
* The inbox row is read by the envelope id in the event row; it is inserted before
  that row and never deleted, so the key of its text belongs to the event row.

### Inbox

| Variables | Code |
|---|---|
| `rows`, `events`, `kv`, `keyfile` | the tables `inbox_messages` (the key each text is encrypted with), `sidecar_events` (its `message` rows), `runtime_state`; `sidecar-store.key` |
| `arrived`, `pending` | the relay: messages sent to this agent, those it still keeps |
| `refused` | history: messages whose receipt the relay refused since a process last joined |
| `life`, `up` | each process: running, after `close()`, gone; whether its client has joined |
| `down`, `late`, `acks` | deliveries under way, deliveries read from a socket that has closed, receipts under way |
| `job` | the delivery a process is handling, and the next statement of it |
| `scene` | which programs there are, what is sent, what cannot be opened, what the legacy file names |

| Code | Actions |
|---|---|
| `handlePhoenix`, the handler of `connectClient` | `Deliver`, `DeliverLate` (the client was replaced), `DeliverClosed` (after `close()`) |
| `observeMessage` | `CheckEvent`, `InsertRow`, `InsertEvent`, `SendReceipt` |
| `resolveSidecarStoreKey` | `ReadKey`, `ReadTornKey`, `MakeKey`, `CreateKeyFile`, `FillKeyFile` |
| `updateMessageCursor`, `updateReceiptCursor` | `LoadState`, `SaveState`; `BeginReceipt` for the receipt |
| `connect`, `disconnect`, `close` | `Join`, `Replace`, `Close`, `Exit` |
| relay and failures | `Arrive`, `Forget`, `Refuse`, `Drop`, `Die`, `LoseKey` |

A statement is a step, since the process can die after any of them and another
process can run between any two; nothing else of the same process can
(`Idle`). Abstractions:

* A message is named by its `created_at`, a key by the order in which keys are
  made, a cursor by a number; only equality and order of them matter.
* A relay keeps a message until it is told to forget it and sends what it keeps
  on each join, in any order. It is not in the repository; the automatic receipt
  and the check of `hasSidecarEvent` before a message is stored are made for such
  a relay.
* A statement that throws (a locked database, a row another process inserted
  meanwhile) ends the process, as nothing catches it: `Die`.
* The rejected promise of `sendReceipt` has no handler. Whether that ends the
  process depends on how node is started: `Refuse` chooses.
* Key 1 does not exist: the number says that the key file has the wrong length.

### Identity

| Variables | Code |
|---|---|
| `file`, `torn` | `identity.json`: DID, what its document advertises, `did_document_mode`, `registered`, `registrationPending`; whether a death left it truncated |
| `core`, `posts` | the documents Core publishes; challenge and registration under way |
| `task` | each call: the steps it has still to do, the identity it works on, its bearer token |
| `tokenfile`, `made` | `sidecar-token`; the DIDs made so far |
| `scene` | whether calls overlap, whether the environment has an identity, whether Core may act late, which calls and declarations are made |

| Code | Actions |
|---|---|
| `ensureIdentity` | `EnsureFromEnv`, `EnsureStored`, `EnsureMissing`, `EnsureTorn`, `Create` |
| `declareRoute`, `declareCapabilities` | steps `ensure`, `edit`, `sync`: `Declare`, `DeclareInvalid`, then a registration |
| `syncIdentityWithCore` | `Post`, then `Apply`, `Refuse` or `Break`, then `SaveOutcome` |
| `plenipo_sync_identity` | `Resync` |
| `ensureReady` | `DefaultRoute`, `Connect`, `ConnectFails` |
| `runSidecar`, `resolveSidecarToken` | `ReadToken`, `Generate`, `Bind`, `Stop` |
| a death | `Die` |

A call is the sequence of its steps (`Plan`); each step that finds more to do puts
it in front of the rest. A step ends where the code awaits, so what a call read
before an await is its own copy (`cur`). Abstractions:

* Of a document, the set of capabilities and the price, the one field of the route
  that stands for those with a default. Price 0 is a document without a route, or
  an argument left out (a real price of 0 is not among the inputs); a price above
  `MaxPrice` is what `validateRoute` refuses. Capabilities that are left out and an
  empty list are two things (`given`): `declareRoute` keeps what there is for the
  first and takes the default capabilities for the second (`??`, then
  `normalizeRoute`).
* Challenge, signature and registration are one exchange: nothing is written
  between them. Core takes the last document it gets for a DID.
* Each random token is a number nobody holds.
* A call that runs in the same process as another differs from one in another
  process only in dying with it, which the model does not require.

### McpServer

| Variables | Code |
|---|---|
| `promise`, `link`, `opened` | `connectPromise`, the socket of the client, how many this process opened |
| `buffer` | `buffer`: number, `receivedAt`, `received_at`, `created_at` and how `envelope_id` compares |
| `call` | each tool call: the await it is at, its arguments, what it was charged |
| `clock`, `waiting`, `due`, `handed`, `taken` | time, the relay, the entries the agent that calls got |
| `since`, `positions` | that agent: what it will pass as `since`; history: the newest `receivedAt` of each reply |
| `scene` | which tools are called, the messages, which of them are receipts, the field the agent takes for its position, how far the clock behind `received_at` is ahead, what each source of a key answers |

| Code | Actions |
|---|---|
| `ensureConnected` | `Connect`, `Share`, `Awaited`; `JoinReply`, `JoinFails`, `Cut` |
| its handlers | `Deliver` |
| `plenipo_receive`, `drainMessages` | `Drain` (`Eligible`, `Taken`, `Kept`) |
| `plenipo_send`, `fetchDidDocument` | `FetchGiven`, `SearchRegistry`, `FetchWeb`, `FetchFromRelay`, `Request`, `Reply` |
| `getBalance`, `listReceipts` | `Request`, `Reply` |
| `purchaseBundle` | `Buy`, `Terms`, `Pay`, `Paid` |
| `discoverAgents`, `getDeliveryStatus`, `mandatePrepare` | `Fetch` |

Abstractions:

* Times are numbers; two entries of one millisecond have the same. `drainMessages`
  also compares `envelope_id`, a string of 26 random characters, with an ISO time:
  whether that comes out greater is a property of the message (`above`).
* What a source of a document answers is one of five outcomes, the same for the
  whole behaviour; what makes an answer one or the other (addresses that may be
  fetched, parsing) is not modelled. A did:web whose percent-encoding is malformed
  is a sixth case: `didWebDocumentUrl` throws, inside the `try` for an address the
  registry names and outside of it for did:web itself, where it ends the search.
* Requests over the relay differ in their payload only.
* The agent that calls keeps the latest position it got for its next `since`, or
  gives none. What it takes for the position is part of the scenario: `receivedAt`,
  which every entry has and `drainMessages` compares, or `received_at`, which
  `src/examples/agent/SKILL.md:170` tells agents to pass and only receipts have. The
  second is stamped by another host, at any time up to its clock, which is `skew`
  ahead of the one `receivedAt` is taken from.

## 3. Properties and runs

`TypeOK` is the type invariant; it also bounds the reconnect delay to the values
the doubling up to 30 s can take.

| Property | Says |
|---|---|
| `WriteAhead` | no frame left, and no envelope of this program is at the relay, without a row |
| `OutboxIsTrue` | accepted and delivered rows and resolved sends are for envelopes the relay took; a delivered row has its receipt on disk |
| `PendingIsUnderWay` | a pending row is in the hands of a `send()` past its insertion, which will settle it when it returns (`SendSettlesUnlessHung` says when it does); each death of the process leaves at most one row behind for each caller |
| `ReceiptsOnce` | refinement of `ReceiptLedger`: recorded once, then published once, never taken back |
| `NothingMissedUnbroken` | connected, idle and with nothing in flight, the agent has every receipt the relay keeps (`NothingMissed`), as long as nothing was refused and the process lives |
| `EachCrashLosesOneEvent` | between two callbacks, no more recorded receipts lack their event than there were crashes |
| `RecordedIsPublished` | in the same states every recorded receipt is in the durable stream |
| `ReceiptsRecordedUnlessHung` | once an agent is started, each receipt of the relay is recorded at last, over lost connections, unless the loop awaits on a socket that is gone, the program ended with its first connection, or a request was refused |
| `NoOrphanSocket` | only the current client and those being connected are on the channel |
| `ReconnectsUnlessHung` | a lost connection comes back, unless the loop awaits on a socket that is gone |
| `AwaitsAndRepliesMatch` | a task that awaits is with the relay, in the page being observed or has its reply on its way, unless its socket is closing or gone; each reply on its way finds its task awaiting just that, on the client it arrives at |
| `SendSettlesUnlessHung` | each `send()` settles, unless it awaits on a socket that is gone |
| `NoDoubleSend`, `AutoReconnects` | what `src/README.md` says of sends and reconnections |

In `LocalEvents`, `TypeOK` also says that no reader is given an id beyond the last
row.

| Property | Says |
|---|---|
| `NoLostWakeup` | a poll that waits with a row of its own sidecar ahead of it has its waker in the list, and a notification is queued or being handled |
| `ReadOnceInOrder` | refinement of `EventStream`: each reader receives each event at most once, in order and without gaps, over batches, polls, lost answers, broken streams and restarts |
| `ArrivesUnlessKeyLost` | each reader gets to the end of the stream, unless it asks for plaintext and the key of a message ahead of it was lost; a reader of metadata is never held up |

In `Inbox`:

| Property | Says |
|---|---|
| `ForgottenOnlyWhenKept` | refinement of `InboxLedger`: the relay forgets a message only after its event is in the stream (or it cannot be opened), and an event names only a message whose text is stored; in any number of processes and through any deaths |
| `OncePerProcess` | a message is announced at most once for each process that shares the home directory, so once by a process alone, however often it is delivered |
| `NothingLeftLying` | one process that is connected: each message the relay still keeps is on its way, in the hands of a job that will answer, or its receipt is on its way, after deaths and redeliveries too; only a receipt refused on this connection (`refused`) leaves one over, which was announced or cannot be opened |
| `RowsUnderKey` | one process: every stored text is encrypted with the key in the file, unless somebody removed it |
| `ReceiptCursorKept` | one process without a legacy file never writes an older receipt cursor back, though `updateMessageCursor` writes all fields |
| `AnnouncedUnlessKeyTorn` | one process that stays connected announces every message it can open, unless a death left the key file torn |

In `Identity`:

| Property | Says |
|---|---|
| `AgreesOrPending` | calls in a row: identity.json says that a registration is pending, or Core publishes its document |
| `KeysKept` | calls in a row: the keys of a published DID are in identity.json, unless it was truncated |
| `TornIsNotReplaced` | calls in a row: once a death truncated identity.json, no call repairs it, makes another identity or has Core act |
| `OnlyAskedForChanges` | calls in a row: a capability disappears only by a declaration that does not name it and either replaces what there is or gives the route's capabilities, an empty list (the defaults) included; the price changes only by one that resets the route or names a price |
| `TokenServes` | starts in a row: the token on disk is that of the sidecar that listens |
| `RetriedUntilPublished` | as long as calls are made, whichever they are, a failed registration is made up for |
| `ResyncHeals` | once calls no longer overlap, `plenipo_sync_identity` brings file and Core together again |

In `McpServer`:

| Property | Says |
|---|---|
| `OneSocket` | overlapping first calls open one socket |
| `BufferIsMailbox` | refinement of `Mailbox`: an entry is held until it is handed to one call, once, or the process ends |
| `OnlyTiesLeftBehind` | an agent that polls from its latest position leaves behind only entries of the millisecond of the newest entry of a reply; by `received_at` as long as no receipt is stamped ahead of our clock |
| `HandedInTheEnd` | it gets all others at last; by a `received_at` that is ahead, all that are newer than its position |
| `LaterEntriesAreFound` | what `src/examples/agent/SKILL.md` says of polling: an entry that came after all that earlier replies held matches the next `since` |
| `ResolvesIfAnySourceHasIt` | a send without a document address finds the key if any source has it, unless an earlier source answers with somebody else's document or the DID is malformed |
| `PaidOnceAsOffered` | a purchase is charged at most once and with the first offer, though its answer may be lost |
| `SettlesUnlessCut` | each tool call settles, unless the connection broke while it, or the join, waited for a reply |

| Run | Expect | Instance | Shows |
|---|---|---|---|
| `outbox` | pass | 2 senders, 2 envelopes (one of another program), 2 clients, pages of 1, 2 sends, 1 drop, 1 crash | `TypeOK`, `WriteAhead`, `OutboxIsTrue`, `PendingIsUnderWay`, `ReceiptsOnce`, `EachCrashLosesOneEvent` |
| `recovery` | pass | no senders, 2 receipts, pages of 1, 3 clients, 2 drops, 1 refusal | `NothingMissedUnbroken`, `RecordedIsPublished`, `NoOrphanSocket`, `ReceiptsRecordedUnlessHung`, `ReconnectsUnlessHung` |
| `sends` | pass | sidecar, 2 senders of one envelope, 3 clients, 1 drop, 1 refusal | `AwaitsAndRepliesMatch`, `SendSettlesUnlessHung` |
| `events` | pass | 1 poll in batches of 1, 1 stream in batches of 2, one of them asking for plaintext, 2 rows, 1 from another process, 1 failure | `TypeOK`, `NoLostWakeup`, `ReadOnceInOrder`, `ArrivesUnlessKeyLost` of `LocalEvents` |
| `inbox` | pass | 1 process and 2 messages, one perhaps unreadable, with or without the legacy file; 2 processes and 1 message; 2 starts, 2 joins, 2 faults, 1 receipt, 1 key loss | all of `Inbox` |
| `identity` | pass | 2 calls at a time, 2 DIDs beside the environment's, 6 scenarios | all of `Identity` |
| `mcp` | pass | 2 tool calls at a time, 2 messages, positions of either kind, all states of the sources, 2 amounts, 2 limits, 1 fault | all of `McpServer` but `LaterEntriesAreFound` |
| `double_send` | violation | 1 sender, 1 envelope, 1 crash | `NoDoubleSend` fails |
| `missed_receipt` | violation | 2 receipts, 1 crash | `NothingMissed` fails |
| `crash_receipt` | violation | 1 receipt, 1 crash | `RecordedIsPublished` fails |
| `reconnect_hang` | violation | 2 drops, fair | `AutoReconnects` fails |
| `documented_poll` | violation | positions by `received_at`, 1 receipt, 1 message, clocks 1 apart | `LaterEntriesAreFound` fails |

**Scenarios.** `Inbox`, `Identity` and `McpServer` have a variable `scene` that
`Init` picks from `Scenarios` and no step changes. It holds what is given from
outside for a whole behaviour (which programs run, which calls are made, what the
environment and the services are like), so that one run goes through all of
them and a property can name the ones it is about.

**Bounds.** Two senders and two clients are what it takes for two overlapping
reconnections, for a request on a replaced socket and for two sends of one
envelope; two envelopes tell "this program's" from "another's" and let one receipt
overtake another; two receipts with pages of one give a first and a last page, the
second receipt being listed or pushed; three clients are two reconnections after two
losses. One crash and one or two drops reach every
recovery path; each of those paths ends in a state that a further failure only
repeats. `MaxCalls`, `MaxDrops`, `MaxRefusals`, `MaxCrashes` and the size of
`Client` are the only bounds, and all stand in guards. `outbox` uses symmetry in
senders and clients and has safety properties only. Deadlock is not checked: a
system whose callers are done, whose bounds are used up, or whose requests hang,
does stop.

In `events`, two rows of a batch let a stream break in the middle, and one row
per poll makes a reader come back; one foreign row tells rows that wake from rows
that do not; one event that has no row fills the queue ahead of one that has; one
failure is a lost request, a crash in any state, or a lost key, after which the
next message generates another. The run starts once with a poll that asks for
plaintext beside a stream of metadata, and once the other way round. Readers share
nothing but `waiters`, so one of each kind is enough for them. `MaxRows`,
`MaxForeign`, `MaxQueue` and `MaxFailures` are the only bounds and stand in guards.

In `inbox`, two messages in one process tell the message of a job from another,
let one key serve two rows and one receipt overtake a message; with the second
message unreadable, receipts go out for what was never stored. Two processes and
one message are what it takes for both to pass `hasSidecarEvent`, or both to find
no key. Two faults are a death in a job and a lost connection or refused receipt
on the retry, so a message is delivered up to twice after a failure. The bounds
are `MaxStarts`, `MaxJoins`, `MaxFaults`, `MaxReceipts` and `MaxKeyLosses`.

In `identity`, `Serial` makes every call in a row, from no identity at all, with
declarations that add, replace, change the price, are refused, reset, and give an
empty list of capabilities, and two faults: a failed registration and a failure of its retry. `FromEnv` does so with
the environment's identity over a stored one, `Late` with a Core that acts after
the caller gave up. Three more let two calls overlap: declarations and syncs, two
first calls, two sidecars. Two calls suffice, since they interact through the two
files and Core only, and each overwrite needs one that reads before and writes
after the other. `MaxDid` bounds the DIDs and `faults` of the scenario the
failures.

In `mcp`, two calls overlap in every pair; two messages and limits of one and two
make a limit cut one entry off, let two entries share a millisecond, or come in two.
An agent that polls by `received_at` gets one receipt and one message, the receipt
stamped at any time up to our clock, or up to one past it (`skew` 0 and 1): enough
for its position to be ahead of an entry that is still to come. All 60 combinations
of registry, did:web and relay are tried, each kind of given address, and a malformed
DID with and without an address from the registry. `MaxTime`, `MaxTaken` and `MaxFaults` are the bounds.

**Fairness.** In `LocalEvents`, weak fairness for the consumer, for each poll and
for each stream: the event loop runs what is ready, timers fire (so a poll never
depends on a wake-up to end), and a program that reads goes on reading. There is
none for rows or failures. In `AgentRuntime`, weak fairness for what the event loop
runs as soon as it is ready (callbacks, continuations, timers) and for the close that `disconnect` began;
weak fairness for the relay's answer to `message.send`, strong fairness for
joins and lists, which a reconnection may interrupt again and again: a relay that
is asked over and over does answer. There is no fairness for calls of `send()`,
losses, refusals, crashes or deliveries, and none for `ensureReady`: somebody
starts a program or does not, and when its first connection fails
`runWithReconnect` rejects, the CLI ends and nothing in the code starts it again, so
`ReceiptsRecordedUnlessHung` excepts an agent that is `"off"`. In `Inbox`, weak fairness for what a
process does with the deliveries it has (the event loop); none for the relay, for
joins, starts or failures: `AnnouncedUnlessKeyTorn` assumes that some process is
connected from some moment on. In `Identity`, weak fairness for each call (the
event loop) and for its registration, which Core answers or the connection breaks
(HTTP); none for calls being made. In `McpServer`, weak fairness for each call
(the event loop, HTTP, a relay that answers on an open connection) and for the
join, which is answered, fails or breaks; none for messages or calls. The runs of
`AgentRuntime` that need no liveness do not assume any.

**What the passing runs leave out, and why.** `recovery` has no crash: with
one, `NothingMissed` and `RecordedIsPublished` fail (`missed_receipt` and
`crash_receipt`), and `outbox` is the run with a crash. After a refused
`receipt.list` the code keeps a connected client and does not recover until the
connection is next lost, so `NothingMissedUnbroken` and
`ReceiptsRecordedUnlessHung` speak of what comes before a refusal. `recovery` has
no senders either: two overlapping `connectClient` calls replace a joined client
without closing it, so `NoOrphanSocket` and `NothingMissedUnbroken` are properties
of the reconnection loop alone.
`events`, `inbox`, `identity` and `mcp` leave no failure out; where the code has no
way on, the property says so itself:

* `Inbox`: two processes can both make a key and lose one, or write a cursor back
  (`Alone`), and both pass `hasSidecarEvent`, so that a message is announced twice
  (`OncePerProcess` says how often at most); a removed key file makes rows
  unreadable (`keyLosses`); a legacy file is written over newer rows at every load
  (`legacy`); a key file torn by a death ends the process at each delivery.
* `Identity`: overlapping calls save what they read before, a late registration
  publishes what its caller gave up, the environment's identity is saved over the
  one on disk (`Orderly`); a death in `writeFileSync` leaves no JSON (`torn`); an
  empty list of capabilities in a declaration of a route takes away the declared ones
  and leaves the defaults, which no text of the repository speaks of: `Drops` counts
  it as a list that does not name them.
* `McpServer`: entries of the millisecond of a position are neither newer nor
  older than it (`positions`); a position by another host's clock can be ahead of
  what is still to come (`Level`, and the violation run `documented_poll`); a source
  that answers with the wrong document, or a malformed DID, stops the search
  (`Misleads`); nothing listens for a connection that breaks
  (`Stranded`).

The `...UnlessHung` properties name the one case in which `AgentRuntime` has no
way on.

## 4. What the violations show

1. `double_send` (agent.ts:131-150, `src/README.md:67`). A crash after
   `message.send` leaves a pending row; the caller retries after the restart; the
   retry finds no connection, and the recovery it awaits marks the row delivered;
   `send()` does not look again and sends.
2. `missed_receipt` (agent.ts:381, `src/README.md:69`). While the first page is on
   its way, a newer receipt is pushed and stores its cursor; a crash follows; the
   next recovery starts behind the older receipts.
3. `crash_receipt` (agent.ts:339-378, `src/README.md:75`). A crash after
   `upsertReceipt`; the recovery finds the row and drops the receipt: the outbox
   row stays as it was and the event is never inserted.
4. `reconnect_hang` (client/index.ts:105-117, `src/README.md:68`). The socket
   closes after it opened and before the join reply. Nothing settles the promise.
5. `documented_poll` (mcp/runtime.ts:181, `src/examples/agent/SKILL.md:170`). The
   agent gets a receipt whose `received_at` is ahead of this host's clock and passes
   it as `since`. A message arrives after that, at a `receivedAt` that is not beyond
   it: `drainMessages` keeps it back, in this poll and in every later one until
   the agent gives no `since`.

## 5. What is proved

`AgentRuntime_proofs` proves, for every set of envelopes, senders and clients and
all bounds, from `ConstantAssumption` (names are distinct, callers
are finitely many, bounds are naturals, pages are not empty):

* `TypeCorrect == Spec => []TypeOK`
* `RowBeforeWire == Spec => []WriteAhead`
* `OutboxTruth == Spec => []OutboxIsTrue`
* `LedgerImplemented == Spec => ReceiptsOnce`, the refinement of `ReceiptLedger`
* `ReceiptsAreTruthful == Spec => []Ledger!Truthful`

One inductive invariant carries all four:

    IInv == TypeOK /\ Positions /\ Frames /\ JobStage /\ SendStage
            /\ WriteAhead /\ OutboxIsTrue

`OutboxIsTrue` is not inductive alone. A row becomes accepted when an ack is
handled, so what acks in flight say has to be true (`Frames`). A row becomes
delivered in the middle of a job, so the job must have recorded the receipt before
(`JobStage`), and that receipt must be one of an accepted envelope (`Positions`:
cursors and pages point into the relay's log, recorded receipts are in it).
`WriteAhead` needs to know that a `send()` past `ensureClient` has its row
(`SendStage`). Each conjunct has a lemma with one step per action
(`TypeStep`, `PositionsStep`, ..., `OutboxStep`); `Inductive` puts them together,
and `LedgerStep` maps `RelayDelivers`, `UpsertReceipt` and `InsertSidecarEvent` to
steps of the ledger and everything else to a stutter. `IInv` was checked with TLC
on the instance of `outbox` before it was proved.

Each of the four abstract specifications ends with what it comes to in a state
(`Truthful`, `InOrder`, `Accounted`, `Once`), and `ReceiptsAreTruthful`,
`ReadersHaveTheBeginning`, `ForgottenIsAnnounced` and `HeldOrHanded` prove it of the
code's own state. Three of them are an induction over the abstract steps and then
the refinement; `ReadersHaveTheBeginning` follows from the invariant of the readers.

`LocalEvents_proofs` proves, for any readers, limits and bounds, from
`ReaderAssumption` (polls and streams are distinct, limits are not zero, only readers ask for
plaintext):

* `EventTypes == Spec => []TypeOK`
* `WakeupsNotLost == Spec => []NoLostWakeup`
* `ReadersInOrder == Spec => ReadOnceInOrder`, the refinement of `EventStream`
* `ReadersHaveTheBeginning == Spec => []Durable!InOrder`

with `IInv == TypeOK /\ Reading /\ Waking /\ NoLostWakeup`. `Reading` says of every
reader that it has the ids 1 to `pos`, that its batch is the ids that follow, and
that `nextId`, and `after` of a stream, are where that batch ends or began; without
it a step that appends a batch could append anything. `Waking` keeps the waker of a
poll that waits in the list when there is no row yet, which `NoLostWakeup` alone
does not. The lemmas `From...` are the facts about runs of consecutive ids that
every read step needs (concatenation, head and tail, appending). `TypeStep`,
`ReadingStep` and `WakeStep` preserve the conjuncts, with one step per action;
`DurableStep` maps `Observe` and `OtherProcess` to `Publish`, `Receive` and
`StreamWrites` to `Read` (an empty answer to a stutter) and the rest to a stutter.
`IInv` was checked with TLC on the instance of `events` before it was proved.

`AgentRecovery_proofs` proves those about connections, recovery and published events:

* `NoSocketLeftBehind == Alone => (Spec => []NoOrphanSocket)`, over any refusals,
  drops and crashes
* `OneEventPerCrash == Spec => []EachCrashLosesOneEvent`, and from the same count
  `RecordedReceiptsArePublished == Spec => [](crashes = 0 => RecordedIsPublished)`,
  both with any senders, refusals and drops
* `NoReceiptMissed == Alone => (Spec => []NothingMissedUnbroken)`,
  with any drops, receipts and page size

`Alone` is `Sender = {}`: only `ensureReady` and the loop connect. The two theorems
about a past without refusals or crashes say nothing of the bounds: they hold up to
the first refusal or crash of any behaviour; `missed_receipt` and `crash_receipt` show
what can go wrong after a crash.

The first rests on `OneSocket`: the one socket on the channel is that of the client
in use or of the one to replace it. The second counts (`Losses`): of what is recorded
and not published, all but the receipt in the hands of the job (`Lost`) is at most
one for each crash, since a crash adds the one that was in hand and nothing else
adds any. The third needs to know at each point what is still to come:
`RecoveryInv == Links /\ Asking /\ Reading /\ Listening`. While a page is asked for,
everything before it is recorded, and the last page and the live frames behind it
make up the whole log (`Asking`); the same holds of what is left of the page being
observed (`Reading`), and of the queue of the socket once nothing is being recovered
(`Listening`). A live receipt can move the stored cursor past a gap while a recovery
is under way, and only then. A recovery goes on from the cursor it captured; a drop
in the middle of it leaves the loop awaiting forever (the case `ReconnectsUnlessHung`
names), and there is no crash before the states it speaks of, so no recovery begins
at such a cursor.

`AgentAwaits_proofs` proves, for any callers that reconnect over each other:

* `RequestsAndRepliesMatch == Spec => []AwaitsAndRepliesMatch`

This is the safety half of `SendSettlesUnlessHung` and its kin: under fairness a
task settles because what it awaits is owed to it, and fairness is all that is left
to TLC. Neither half of the property is inductive. A reply finds its task where it
awaits it because no task has two replies on their way (`Replies`), and none while
the relay still has its request or its page is being observed (`Asks`); what a task
awaits is not lost when clients are replaced because each task connects on a client
of its own, which is not the one in use, and past that holds one that was up
(`Linked`); `Comes` is the first half itself. `LinkedStep`, `AsksStep`, `RepliesStep`
and `ComesStep` have one step per action. The invariant was checked with TLC on the
instances of `sends` and `outbox` first.

`AgentOutbox_proofs` proves, for any callers, clients and bounds:

* `PendingRowsUnderWay == Spec => []PendingIsUnderWay`

Its invariant `Strands` adds that the stranded rows are finitely many. A step
between two awaits strands none, for one of three reasons, each a lemma: it holds
every row and every `send()` as they are (`HeldStrandsNone`), it settles the row of
the `send()` that ends (`SettleStrandsNone`), or it inserts the row of the `send()`
that goes on (`InsertStrandsNone`). `CrashStrands` counts: a death strands the rows
in hand, at most one for each caller (the image of `Sender` under `env`). That the
row of a `send()` is there to be settled is `SendStage` of `IInv`.

`Inbox_proofs` proves, for any processes, messages, scenarios and bounds, from
`InboxAssumption`:

* `InboxTypes`, `InboxRefinesLedger` (the refinement of `InboxLedger`),
  `ForgottenIsAnnounced`, `AnnouncedOncePerProcess`, `KeptMessagesAreAnswered`,
  `StoredUnderKey`, `CursorNeverBack`

`WhoWrites` says once which actions can change each variable; the lemmas about one
variable start from it.

`SafeInv` carries the refinement: each job, at each statement, has done what comes
before (`JobSafe`), receipts under way are for messages that need nothing more, and
events have rows. `OnceInv` counts: from the first announcement of a message on,
its announcements and the processes past the check with it in hand (`Holders`) add
up to at most one per process, as nobody passes any more and who announces leaves.
`LyingInv` adds to `NothingLeftLying` that a job which is over has no message, so
none is given up for the next (a new connection starts with all that the relay keeps
on its way, and `refused` empty); `KeyInv` that the key in the hands of a
job is that of the file or about to be; `CursorInv` that what a job loaded is still
what the table holds.

`Identity_proofs` proves, for any calls, capabilities and scenarios, from
`IdentityAssumption`:

* `IdentityTypes`, `PendingOrPublished`, `PublishedKeysKept`, `ChangesOnlyAsAsked`,
  `TornFileStays`, `TokenReachesTheSidecar`

The types already need an invariant: what is left of a plan is in order (`Shape`)
and a call past its first step has an identity (`Known`). `OrderInv` adds that at
most one call is busy (`Alone`), that it has the identity of the file in hand
(`InHand`), that an answer it took is what Core publishes (`Confirmed`), that a
request under way is its own (`OnItsWay`), and what the two properties say (`Settled`,
`Kept`). Over a truncated file the busy call can only be about to read it, from which
`TornFileStays` follows. `TokenInv` follows the token from the file to the port.

`McpServer_proofs` proves, for any number of calls, messages, limits and amounts,
from `McpAssumption`:

* `McpTypes`, `SocketIsOne`, `BufferRefinesMailbox` (the refinement of `Mailbox`),
  `HeldOrHanded`, `OnlyTiesStay`, `PaidOnce`, `KeyIsFound`
* `OldestFirst`: for every buffer, position and limit, `drainMessages` takes at most
  `limit` entries, older than every matching one it leaves, and leaves a matching
  one only if it took `limit`
* `NobodyWaitsForNothing == Spec => []Owed`

The buffer needs a fact about `Kept`, that what a call leaves is the rest in its
order (`KeptKeeps`, from lemmas about ranks in finite sets of numbers), and the
invariant that entries are numbered and timed in order. `OnlyTiesStay` adds that no
call has a `since` beyond the agent's and, where positions are level with our clock
(`Level`), that the agent's is not beyond the newest entry of some reply
(`Positioned`). `Owed` is to `SettlesUnlessCut` what
`AwaitsAndRepliesMatch` is to `SendSettlesUnlessHung`: a call waits for a join that is
under way or decided, or on an open connection, unless the connection broke. It
needs `WaitInv`, that only calls under an open promise are past `ensureConnected`
and how `promise` and `link` go together. All these invariants were checked with TLC
first.

Model-checked only, since liveness under fairness is out of the prover's reach:
`ReceiptsRecordedUnlessHung`, `ReconnectsUnlessHung`, `SendSettlesUnlessHung`,
`ArrivesUnlessKeyLost`, `AnnouncedUnlessKeyTorn`, `RetriedUntilPublished`,
`ResyncHeals`, `HandedInTheEnd`, `SettlesUnlessCut`. Every safety property that a
passing run checks is proved.

## 6. Plan and limits

Done: the core (`AgentRuntime`), its local face (`LocalEvents`), the inbox, the
identity and the MCP server, each with its safety properties proved. What could
follow, in this order:

1. Lifecycle: `close()` and `stop()` against what still awaits in a `send()`, a
   recovery or a consumer. Now only deliveries after `close()` are modelled.
2. Pure algorithms: option precedence of the sidecar's configuration, the rules for
   addresses that DID resolution may fetch.

Not modelled, and why:

* `Relay connect URL`, sidecar configuration, models and metrics, argument parsing
  and printing of the command line, header checks of the middleware, the creation
  of the schema: formatting and parsing without state.
* Cryptography, encodings, parsing of keys: library calls.
* The bodies of HTTP handlers that pass a request on to a modelled operation.
* `markSidecarEventDelivered`: nothing calls it.
* The relay, Core, registry and payment provider: not in the repository; each
  module has as much of them as the code relies on.
