---------------------------- MODULE AgentRuntime ----------------------------
(***************************************************************************)
(* The core of the SDK's long-lived agent: PlenipoAgentRuntime             *)
(* (src/src/runtime/agent.ts) over its SQLite store                        *)
(* (src/src/runtime/store.ts, state.ts) and the relay channel it opens     *)
(* with PlenipoClient (src/src/client/index.ts).                           *)
(*                                                                         *)
(* Grain of atomicity.  The program is one JavaScript event loop.  What    *)
(* runs between two awaits is one action here, except that the statements  *)
(* of observeReceipt are separate steps of a "job": no other JavaScript    *)
(* runs until the job ends, but the process can die between two of its     *)
(* autocommitted SQLite statements.                                        *)
(*                                                                         *)
(* A task is an activation of an async method: a Sender is one caller of   *)
(* send(), Main is ensureReady() followed by maintainConnection().         *)
(***************************************************************************)
EXTENDS Naturals, Sequences, FiniteSets, Functions

CONSTANTS
  Envelope,      \* envelope ids
  Elsewhere,     \* the ids sent by other programs of the same identity
  Sender,        \* concurrent callers of send()
  Main,          \* the task of ensureReady and maintainConnection
  Client,        \* PlenipoClient objects that can be alive together (a bound)
  None,          \* JavaScript's null
  PageLimit,     \* receipts per page of receipt.list (100 in the code)
  KeepConnected, \* TRUE for runWithReconnect, FALSE for the sidecar
  ReadyFirst,    \* TRUE if send() is called after ensureReady (the sidecar)
  MaxCalls,      \* bound on calls of send()
  MaxDrops,      \* bound on connections lost
  MaxRefusals,   \* bound on requests the relay answers with an error
  MaxCrashes     \* bound on process deaths

Task == Sender \cup {Main}

ASSUME ConstantAssumption ==
  /\ Elsewhere \subseteq Envelope
  /\ Main \notin Sender /\ IsFiniteSet(Sender)
  /\ None \notin Client \cup Envelope \cup Task
  /\ PageLimit \in Nat \ {0}
  /\ KeepConnected \in BOOLEAN /\ ReadyFirst \in BOOLEAN
  /\ MaxCalls \in Nat /\ MaxDrops \in Nat
  /\ MaxRefusals \in Nat /\ MaxCrashes \in Nat

VARIABLES
  \* SQLite, which survives the process
  outbox,    \* the status of the row of each envelope, "none" without a row
  receipts,  \* the envelopes with a row in the receipts table
  events,    \* the delivery_receipt rows of sidecar_events, in id order
  cursor,    \* last_receipt_cursor, as a position in the relay's log; 0 unset
  \* the relay
  accepted,  \* envelopes it has taken for delivery
  log,       \* the receipts it keeps, in the order receipt.list returns them
  \* the sockets
  status,    \* the state of the socket of each client object: "open" once the
             \* channel is joined, "refused" if the relay will not let it join
  down,      \* frames on their way to each client object, in order
  todo,      \* tasks whose request has left and is not handled by the relay
  \* the heap of the process
  current,   \* this.client
  running,   \* this.running
  backoff,   \* the reconnect delay of maintainConnection, in seconds
  pc,        \* where each task awaits
  env,       \* the envelope of each send()
  sock,      \* the client object each task holds across its await
  after,     \* pageCursor of each recoverMissedReceipts
  job,       \* the receipts being observed by the running callback
  \* history and bounds
  wire,      \* how many message.send frames left for each envelope
  acked,     \* envelopes some send() resolved for
  calls, drops, refusals, crashes

db    == <<outbox, receipts, events, cursor>>
relay == <<accepted, log>>
net   == <<status, down, todo>>
tasks == <<pc, env, sock, after>>
loop  == <<running, backoff>>
hist  == <<wire, acked>>
caps  == <<calls, drops, refusals, crashes>>
vars  == <<db, relay, net, current, loop, tasks, job, hist, caps>>

Status == {"none", "pending", "accepted", "delivered", "failed"}

\* The statuses for which send() answers from the outbox.
Settled == {"accepted", "delivered"}

Backoffs == {1, 2, 4, 8, 16, 30}

Sockets == {"connecting", "refused", "open", "closing", "closed"}

Labels == {"off", "idle", "connect", "recover", "resolve", "wire", "sleep"}

\* A frame: a reply to the request of a task, or a receipt pushed live.  pos is
\* the last position of a page, or the position of the receipt; more tells that
\* the page came with a next_cursor.
Frame ==
  [kind : {"join", "ack", "nack", "page", "receipt"},
   task : Task \cup {None}, env : Envelope \cup {None},
   pos : Nat, more : BOOLEAN]

Job ==
  [step : {"idle", "check", "mark", "event", "cursor"},
   pos : Nat, last : Nat, owner : Task \cup {None}, more : BOOLEAN]

NoJob == [step |-> "idle", pos |-> 0, last |-> 0, owner |-> None, more |-> FALSE]

JsIdle == job.step = "idle"

Msg(kind, t, e, pos, more) ==
  [kind |-> kind, task |-> t, env |-> e, pos |-> pos, more |-> more]

Reply(kind, t) == Msg(kind, t, env[t], 0, FALSE)

\* PlenipoClient.connected of this.client.
Connected == current # None /\ status[current] = "open"

\* A client object nothing refers to any more; the next one takes its name.
Free(c) == status[c] = "closed" /\ c # current /\ \A t \in Task : sock[t] # c

Init ==
  /\ outbox = [e \in Envelope |-> "none"]
  /\ receipts = {} /\ events = <<>> /\ cursor = 0
  /\ accepted = Elsewhere /\ log = <<>>
  /\ status = [c \in Client |-> "closed"]
  /\ down = [c \in Client |-> <<>>]
  /\ todo = {}
  /\ current = None /\ running = FALSE /\ backoff = 1
  /\ pc = [t \in Task |-> IF t = Main THEN "off" ELSE "idle"]
  /\ env = [t \in Task |-> None]
  /\ sock = [t \in Task |-> None]
  /\ after = [t \in Task |-> 0]
  /\ job = NoJob
  /\ wire = [e \in Envelope |-> 0] /\ acked = {}
  /\ calls = 0 /\ drops = 0 /\ refusals = 0 /\ crashes = 0

-----------------------------------------------------------------------------
(* Opening a connection: ensureClient and connectClient up to the await.   *)

\* Bug: the client that is replaced is not closed.
OpenClientLeaves(t) ==
  \E c \in Client :
    /\ Free(c)
    /\ status' = [status EXCEPT ![c] = "connecting"]
    /\ sock' = [sock EXCEPT ![t] = c]
    /\ pc' = [pc EXCEPT ![t] = "connect"]
    /\ UNCHANGED <<down, todo, after>>

\* connectClient closes the client it replaces and starts a new one.
OpenClient(t) ==
  \E c \in Client :
    /\ Free(c)
    /\ status' = [d \in Client |->
                    IF d = c THEN "connecting"
                    ELSE IF d = current /\ status[d] = "open" THEN "closing"
                    ELSE status[d]]
    /\ sock' = [sock EXCEPT ![t] = c]
    /\ pc' = [pc EXCEPT ![t] = "connect"]
    /\ UNCHANGED <<down, todo, after>>

\* Bug: only the client in use sends.
AskCurrent(t, c) ==
  todo' = IF status[c] = "open" /\ c = current THEN todo \cup {t} ELSE todo

\* A request leaves on the client of task t; on a socket that is no longer
\* open the frame is dropped without an error.
Ask(t, c) == todo' = IF status[c] = "open" THEN todo \cup {t} ELSE todo

\* connectClient rejects: send() rejects before it wrote a row, ensureReady
\* rejects, maintainConnection goes to sleep.
ConnectThrows(t) ==
  /\ pc' = [pc EXCEPT ![t] = IF t # Main THEN "idle"
                             ELSE IF running THEN "sleep" ELSE "off"]
  /\ env' = [env EXCEPT ![t] = None]
  /\ sock' = [sock EXCEPT ![t] = None]
  /\ after' = [after EXCEPT ![t] = 0]

\* Bug: the row is left to markOutboxAccepted.
InsertPendingLater(e) == UNCHANGED outbox

\* insertOutboxPending leaves a row that exists as it is.
InsertPending(e) ==
  outbox' = [outbox EXCEPT ![e] = IF @ = "none" THEN "pending" ELSE @]

\* connectClient returns: send() goes on with this.client, whatever it is by
\* now, and ensureReady and maintainConnection are done.
ConnectReturns(t) ==
  \/ /\ t \in Sender
     /\ InsertPending(env[t])
     /\ pc' = [pc EXCEPT ![t] = "resolve"]
     /\ sock' = [sock EXCEPT ![t] = current]
     /\ UNCHANGED <<running, backoff>>
  \/ /\ t = Main
     /\ pc' = [pc EXCEPT ![t] = "idle"]
     /\ sock' = [sock EXCEPT ![t] = None]
     /\ running' = KeepConnected /\ backoff' = 1
     /\ UNCHANGED outbox

-----------------------------------------------------------------------------
(* send() *)

Call(s, e) ==
  /\ JsIdle /\ pc[s] = "idle" /\ calls < MaxCalls
  /\ ReadyFirst => pc[Main] = "idle"
  /\ e \in Envelope \ Elsewhere
  /\ calls' = calls + 1

\* An accepted or delivered row answers for the relay.
SendFromOutbox(s, e) ==
  /\ Call(s, e)
  /\ outbox[e] \in Settled
  /\ acked' = acked \cup {e}
  /\ UNCHANGED <<db, relay, net, current, loop, tasks, job, wire, drops, refusals, crashes>>

\* With a connected client, ensureClient returns at once.
SendConnected(s, e) ==
  /\ Call(s, e)
  /\ outbox[e] \notin Settled /\ Connected
  /\ InsertPending(e)
  /\ pc' = [pc EXCEPT ![s] = "resolve"]
  /\ env' = [env EXCEPT ![s] = e]
  /\ sock' = [sock EXCEPT ![s] = current]
  /\ UNCHANGED <<receipts, events, cursor, relay, net, current, loop, after,
                 job, hist, drops, refusals, crashes>>

\* Without one, send() awaits connectClient, and with it the recovery of the
\* missed receipts, between the check of the row and the insertion.
SendReconnects(s, e) ==
  /\ Call(s, e)
  /\ outbox[e] \notin Settled /\ ~Connected
  /\ env' = [env EXCEPT ![s] = e]
  /\ OpenClient(s)
  /\ UNCHANGED <<db, relay, current, loop, job, hist, drops, refusals, crashes>>

\* Bug: the row is marked accepted when the frame leaves.
SendOnWireMarks(s) ==
  /\ JsIdle /\ pc[s] = "resolve"
  /\ pc' = [pc EXCEPT ![s] = "wire"]
  /\ Ask(s, sock[s])
  /\ wire' = [wire EXCEPT ![env[s]] = @ + 1]
  /\ outbox' = [outbox EXCEPT ![env[s]] = "accepted"]
  /\ UNCHANGED <<receipts, events, cursor, relay, status, down, current, loop, env,
                 sock, after, job, acked, caps>>

\* The recipient's key is resolved and message.send leaves.
SendOnWire(s) ==
  /\ JsIdle /\ pc[s] = "resolve"
  /\ pc' = [pc EXCEPT ![s] = "wire"]
  /\ Ask(s, sock[s])
  /\ wire' = [wire EXCEPT ![env[s]] = IF status[sock[s]] = "open" THEN @ + 1 ELSE @]
  /\ UNCHANGED <<db, relay, status, down, current, loop, env, sock, after, job,
                 acked, caps>>

\* send() settles with the given status, whatever the row has become.
Settle(s, st) ==
  /\ outbox' = [outbox EXCEPT ![env[s]] = IF @ = "none" THEN @ ELSE st]
  /\ pc' = [pc EXCEPT ![s] = "idle"]
  /\ env' = [env EXCEPT ![s] = None]
  /\ sock' = [sock EXCEPT ![s] = None]
  /\ UNCHANGED <<receipts, events, cursor, after>>

\* Bug: the key is resolved before the try block.
ResolveFailsOutside(s) ==
  /\ JsIdle /\ pc[s] = "resolve"
  /\ pc' = [pc EXCEPT ![s] = "idle"]
  /\ env' = [env EXCEPT ![s] = None]
  /\ sock' = [sock EXCEPT ![s] = None]
  /\ UNCHANGED <<db, relay, net, current, loop, after, job, hist, caps>>

\* The recipient's key cannot be resolved.
ResolveFails(s) ==
  /\ JsIdle /\ pc[s] = "resolve"
  /\ Settle(s, "failed")
  /\ UNCHANGED <<relay, net, current, loop, job, hist, caps>>

-----------------------------------------------------------------------------
(* ensureReady and maintainConnection *)

EnsureReady ==
  /\ JsIdle /\ pc[Main] = "off"
  /\ OpenClient(Main)
  /\ UNCHANGED <<db, relay, current, loop, env, job, hist, caps>>

\* Bug: only a client that was never there is replaced.
KeeperReconnectsOnce ==
  /\ JsIdle /\ pc[Main] = "idle" /\ running /\ current = None
  /\ OpenClient(Main)
  /\ UNCHANGED <<db, relay, current, loop, env, job, hist, caps>>

KeeperReconnects ==
  /\ JsIdle /\ pc[Main] = "idle" /\ running /\ ~Connected
  /\ OpenClient(Main)
  /\ UNCHANGED <<db, relay, current, loop, env, job, hist, caps>>

\* Bug: the delay doubles without end.
KeeperWakesUncapped ==
  /\ JsIdle /\ pc[Main] = "sleep"
  /\ pc' = [pc EXCEPT ![Main] = "idle"]
  /\ backoff' = 2 * backoff
  /\ UNCHANGED <<db, relay, net, current, running, env, sock, after, job, hist,
                 caps>>

KeeperWakes ==
  /\ JsIdle /\ pc[Main] = "sleep"
  /\ pc' = [pc EXCEPT ![Main] = "idle"]
  /\ backoff' = IF 2 * backoff < 30 THEN 2 * backoff ELSE 30
  /\ UNCHANGED <<db, relay, net, current, running, env, sock, after, job, hist,
                 caps>>

\* The challenge cannot be fetched, or the socket reports an error.
ConnectFails(t) ==
  /\ JsIdle /\ pc[t] = "connect" /\ status[sock[t]] = "connecting"
  /\ status' = [status EXCEPT ![sock[t]] = "closed"]
  /\ ConnectThrows(t)
  /\ UNCHANGED <<db, relay, down, todo, current, loop, job, hist, caps>>

-----------------------------------------------------------------------------
(* Frames.  A socket that disconnect() is closing still yields the frames   *)
(* that precede the close.                                                 *)

Arrives(c, kind) ==
  /\ JsIdle /\ status[c] \in {"open", "closing", "refused"}
  /\ down[c] # <<>> /\ Head(down[c]).kind = kind
  /\ down' = [down EXCEPT ![c] = Tail(@)]

\* The reply has the ref of the request its task awaits on this client.
Awaited(c, t, label) == t # None /\ pc[t] = label /\ sock[t] = c

\* connect() resolves: the client becomes this.client and the first page of
\* missed receipts is requested from the stored cursor.
HandleJoin(c) ==
  LET t == Head(down[c]).task IN
  /\ Arrives(c, "join") /\ Awaited(c, t, "connect")
  /\ current' = c
  /\ after' = [after EXCEPT ![t] = cursor]
  /\ pc' = [pc EXCEPT ![t] = "recover"]
  /\ Ask(t, c)
  /\ UNCHANGED <<db, relay, status, loop, env, sock, job, hist, caps>>

\* The relay refused the join: connect() rejects, and nothing closes its socket.
HandleJoinNack(c) ==
  LET t == Head(down[c]).task IN
  /\ Arrives(c, "nack") /\ Awaited(c, t, "connect")
  /\ ConnectThrows(t)
  /\ UNCHANGED <<db, relay, status, todo, current, loop, job, hist, caps>>

\* The relay took the envelope: send() resolves.
HandleAck(c) ==
  LET t == Head(down[c]).task IN
  /\ Arrives(c, "ack") /\ Awaited(c, t, "wire") /\ env[t] = Head(down[c]).env
  /\ Settle(t, "accepted")
  /\ acked' = acked \cup {env[t]}
  /\ UNCHANGED <<relay, status, todo, current, loop, job, wire, caps>>

\* Bug: only an ok reply settles the request.
HandleSendNackIgnored(c) ==
  LET t == Head(down[c]).task IN
  /\ Arrives(c, "nack") /\ Awaited(c, t, "wire")
  /\ UNCHANGED <<db, relay, status, todo, current, loop, tasks, job, hist, caps>>

\* The relay refused the envelope: send() rejects.
HandleSendNack(c) ==
  LET t == Head(down[c]).task IN
  /\ Arrives(c, "nack") /\ Awaited(c, t, "wire")
  /\ Settle(t, "failed")
  /\ UNCHANGED <<relay, status, todo, current, loop, job, hist, caps>>

\* The relay refused receipt.list: connectClient rejects, and its client stays
\* this.client.
HandleListNack(c) ==
  LET t == Head(down[c]).task IN
  /\ Arrives(c, "nack") /\ Awaited(c, t, "recover")
  /\ ConnectThrows(t)
  /\ UNCHANGED <<db, relay, status, todo, current, loop, job, hist, caps>>

\* A page of receipts: its receipts are observed in one callback.
HandlePage(c) ==
  LET f == Head(down[c]) IN
  /\ Arrives(c, "page") /\ Awaited(c, f.task, "recover")
  /\ job' = [step |-> "check", pos |-> after[f.task] + 1, last |-> f.pos,
             owner |-> f.task, more |-> f.more]
  /\ UNCHANGED <<db, relay, status, todo, current, loop, tasks, hist, caps>>

\* A receipt pushed live.
HandleReceipt(c) ==
  /\ Arrives(c, "receipt")
  /\ job' = [step |-> "check", pos |-> Head(down[c]).pos,
             last |-> Head(down[c]).pos, owner |-> None, more |-> FALSE]
  /\ UNCHANGED <<db, relay, status, todo, current, loop, tasks, hist, caps>>

-----------------------------------------------------------------------------
(* observeReceipt, one SQLite statement at a time, for the receipts of a    *)
(* page or for one live receipt.                                           *)

\* The callback goes on with the next receipt, and ends after a live one.
NextReceipt ==
  job' = IF job.owner = None THEN NoJob
         ELSE [job EXCEPT !.step = "check", !.pos = @ + 1]

Observing(step) == job.step = step /\ job.pos <= job.last

\* A receipt that has a row is dropped here, whatever became of its other rows.
SkipKnown ==
  /\ Observing("check") /\ log[job.pos] \in receipts
  /\ NextReceipt
  /\ UNCHANGED <<db, relay, net, current, loop, tasks, hist, caps>>

\* Bug: the receipt is taken for recorded.
UpsertReceiptForgets ==
  /\ Observing("check") /\ log[job.pos] \notin receipts
  /\ job' = [job EXCEPT !.step = "mark"]
  /\ UNCHANGED <<db, relay, net, current, loop, tasks, hist, caps>>

UpsertReceipt ==
  /\ Observing("check") /\ log[job.pos] \notin receipts
  /\ receipts' = receipts \cup {log[job.pos]}
  /\ job' = [job EXCEPT !.step = "mark"]
  /\ UNCHANGED <<outbox, events, cursor, relay, net, current, loop, tasks, hist,
                 caps>>

MarkOutboxDelivered ==
  /\ Observing("mark")
  /\ outbox' = [outbox EXCEPT ![log[job.pos]] =
                  IF @ = "none" THEN @ ELSE "delivered"]
  /\ job' = [job EXCEPT !.step = "event"]
  /\ UNCHANGED <<receipts, events, cursor, relay, net, current, loop, tasks, hist,
                 caps>>

\* Bug: only receipts pushed live are published.
InsertSidecarEventLive ==
  /\ Observing("event")
  /\ events' = IF job.owner # None \/ log[job.pos] \in Range(events) THEN events
               ELSE Append(events, log[job.pos])
  /\ job' = [job EXCEPT !.step = "cursor"]
  /\ UNCHANGED <<outbox, receipts, cursor, relay, net, current, loop, tasks, hist,
                 caps>>

InsertSidecarEvent ==
  /\ Observing("event")
  /\ events' = IF log[job.pos] \in Range(events) THEN events
               ELSE Append(events, log[job.pos])
  /\ job' = [job EXCEPT !.step = "cursor"]
  /\ UNCHANGED <<outbox, receipts, cursor, relay, net, current, loop, tasks, hist,
                 caps>>

\* The cursor is set to this receipt, be it before or after the stored one.
UpdateReceiptCursor ==
  /\ Observing("cursor")
  /\ cursor' = job.pos
  /\ NextReceipt
  /\ UNCHANGED <<outbox, receipts, events, relay, net, current, loop, tasks, hist,
                 caps>>

PageObserved == job.step = "check" /\ job.pos > job.last /\ job.owner # None

\* Bug: next_cursor is not followed.
LastPageFirst == job.step = "check"

LastPage == ~job.more \/ job.last <= after[job.owner]

\* recoverMissedReceipts ends on a page that is empty or has no next_cursor.
RecoveryEnds ==
  /\ PageObserved /\ LastPage
  /\ cursor' = IF job.last > after[job.owner] THEN job.last ELSE cursor
  /\ ConnectReturns(job.owner)
  /\ after' = [after EXCEPT ![job.owner] = 0]
  /\ job' = NoJob
  /\ UNCHANGED <<receipts, events, relay, net, current, env, hist, caps>>

\* Bug: the page is requested with the cursor of the one before.
NextPageAgain ==
  /\ PageObserved /\ ~LastPage
  /\ sock' = [sock EXCEPT ![job.owner] = current]
  /\ Ask(job.owner, current)
  /\ job' = NoJob
  /\ UNCHANGED <<db, relay, status, down, current, loop, pc, env, after, hist, caps>>

\* The next page is requested on this.client, whatever it is by now.
NextPage ==
  /\ PageObserved /\ ~LastPage
  /\ after' = [after EXCEPT ![job.owner] = job.last]
  /\ sock' = [sock EXCEPT ![job.owner] = current]
  /\ Ask(job.owner, current)
  /\ job' = NoJob
  /\ UNCHANGED <<db, relay, status, down, current, loop, pc, env, hist, caps>>

-----------------------------------------------------------------------------
(* The relay, which is not in this repository.                             *)

Served(t, label) ==
  /\ t \in todo /\ pc[t] = label /\ status[sock[t]] \in {"open", "closing"}
  /\ todo' = todo \ {t}

Push(c, f) == down' = [down EXCEPT ![c] = Append(@, f)]

RelayJoins(t) ==
  /\ pc[t] = "connect" /\ status[sock[t]] = "connecting"
  /\ status' = [status EXCEPT ![sock[t]] = "open"]
  /\ Push(sock[t], Reply("join", t))
  /\ UNCHANGED <<db, relay, todo, current, loop, tasks, job, hist, caps>>

RelayRefusesJoin(t) ==
  /\ refusals < MaxRefusals /\ refusals' = refusals + 1
  /\ pc[t] = "connect" /\ status[sock[t]] = "connecting"
  /\ status' = [status EXCEPT ![sock[t]] = "refused"]
  /\ Push(sock[t], Reply("nack", t))
  /\ UNCHANGED <<db, relay, todo, current, loop, tasks, job, hist, calls, drops,
                 crashes>>

RelayAccepts(t) ==
  /\ Served(t, "wire")
  /\ accepted' = accepted \cup {env[t]}
  /\ Push(sock[t], Reply("ack", t))
  /\ UNCHANGED <<db, log, status, current, loop, tasks, job, hist, caps>>

RelayRefuses(t) ==
  /\ refusals < MaxRefusals /\ refusals' = refusals + 1
  /\ Served(t, "wire") \/ Served(t, "recover")
  /\ Push(sock[t], Reply("nack", t))
  /\ UNCHANGED <<db, relay, status, current, loop, tasks, job, hist, calls, drops,
                 crashes>>

\* receipt.list returns what follows the cursor, at most a page of it.
RelayLists(t) ==
  LET end  == after[t] + PageLimit
      last == IF end < Len(log) THEN end
              ELSE IF after[t] < Len(log) THEN Len(log) ELSE after[t]
  IN
  /\ Served(t, "recover")
  /\ Push(sock[t], Msg("page", t, env[t], last, last < Len(log)))
  /\ UNCHANGED <<db, relay, status, current, loop, tasks, job, hist, caps>>

\* The recipient's receipt arrives: it is kept, and pushed to the clients of
\* the sender that have joined, those the relay does not know to be closing too.
RelayDelivers(e) ==
  /\ e \in accepted \ Range(log)
  /\ log' = Append(log, e)
  /\ down' = [c \in Client |->
                IF status[c] \in {"open", "closing"}
                THEN Append(down[c], Msg("receipt", None, e, Len(log) + 1, FALSE))
                ELSE down[c]]
  /\ UNCHANGED <<db, accepted, status, todo, current, loop, tasks, job, hist, caps>>

-----------------------------------------------------------------------------
(* Failures *)

Gone(c) ==
  /\ status' = [status EXCEPT ![c] = "closed"]
  /\ down' = [down EXCEPT ![c] = <<>>]
  /\ todo' = {t \in todo : sock[t] # c}
  /\ UNCHANGED <<db, relay, current, loop, tasks, job, hist, calls, refusals,
                 crashes>>

\* The connection is lost.  The client has no handler for it: what awaits a
\* reply on it awaits forever.
Drop(c) ==
  /\ status[c] \in {"connecting", "refused", "open"} /\ drops < MaxDrops
  /\ drops' = drops + 1
  /\ Gone(c)

\* The close that disconnect() began completes.
CloseCompletes(c) ==
  /\ status[c] = "closing"
  /\ Gone(c) /\ UNCHANGED drops

\* The process dies, between any two statements, and starts again.
Crash ==
  /\ crashes < MaxCrashes /\ crashes' = crashes + 1
  /\ status' = [c \in Client |-> "closed"]
  /\ down' = [c \in Client |-> <<>>]
  /\ todo' = {}
  /\ current' = None /\ running' = FALSE /\ backoff' = 1
  /\ pc' = [t \in Task |-> IF t = Main THEN "off" ELSE "idle"]
  /\ env' = [t \in Task |-> None]
  /\ sock' = [t \in Task |-> None]
  /\ after' = [t \in Task |-> 0]
  /\ job' = NoJob
  /\ UNCHANGED <<db, relay, hist, calls, drops, refusals>>

-----------------------------------------------------------------------------

Sends(s) ==
  \/ \E e \in Envelope : SendFromOutbox(s, e) \/ SendConnected(s, e)
                         \/ SendReconnects(s, e)
  \/ SendOnWire(s) \/ ResolveFails(s)

Keeps == EnsureReady \/ KeeperReconnects \/ KeeperWakes

Handles(c) ==
  \/ HandleJoin(c) \/ HandleJoinNack(c) \/ HandleAck(c) \/ HandleSendNack(c)
  \/ HandleListNack(c) \/ HandlePage(c) \/ HandleReceipt(c)

Observes ==
  \/ SkipKnown \/ UpsertReceipt \/ MarkOutboxDelivered \/ InsertSidecarEvent
  \/ UpdateReceiptCursor \/ RecoveryEnds \/ NextPage

Relays ==
  \/ \E t \in Task : RelayJoins(t) \/ RelayRefusesJoin(t) \/ RelayAccepts(t)
                     \/ RelayRefuses(t) \/ RelayLists(t)
  \/ \E e \in Envelope : RelayDelivers(e)

Fails ==
  \/ \E t \in Task : ConnectFails(t)
  \/ \E c \in Client : Drop(c) \/ CloseCompletes(c)
  \/ Crash

Next ==
  \/ \E s \in Sender : Sends(s)
  \/ Keeps
  \/ \E c \in Client : Handles(c)
  \/ Observes
  \/ Relays
  \/ Fails

Spec == Init /\ [][Next]_vars

(* Fairness.  The event loop runs every callback that is ready; a request    *)
(* handed to a live relay is answered, and a relay that is asked again and  *)
(* again to let the agent join does so at last.  Nobody has to start an     *)
(* agent: ensureReady is fair to nobody, and when its connection fails the  *)
(* program ends.                                                           *)
Fairness ==
  /\ WF_vars(Observes)
  /\ WF_vars(KeeperReconnects) /\ WF_vars(KeeperWakes)
  /\ \A s \in Sender : WF_vars(SendOnWire(s) \/ ResolveFails(s))
  /\ \A c \in Client : WF_vars(Handles(c)) /\ WF_vars(CloseCompletes(c))
  /\ \A t \in Task :
       /\ SF_vars(RelayJoins(t))
       /\ SF_vars(RelayLists(t))
       /\ WF_vars(RelayAccepts(t) \/ RelayRefuses(t))

FairSpec == Spec /\ Fairness

-----------------------------------------------------------------------------
(* Properties *)

TypeOK ==
  /\ outbox \in [Envelope -> Status]
  /\ receipts \subseteq Envelope /\ events \in Seq(Envelope) /\ cursor \in Nat
  /\ accepted \subseteq Envelope /\ log \in Seq(Envelope)
  /\ status \in [Client -> Sockets]
  /\ down \in [Client -> Seq(Frame)]
  /\ todo \subseteq Task
  /\ current \in Client \cup {None}
  /\ running \in BOOLEAN /\ backoff \in Backoffs
  /\ pc \in [Task -> Labels]
  /\ env \in [Task -> Envelope \cup {None}]
  /\ sock \in [Task -> Client \cup {None}]
  /\ after \in [Task -> Nat]
  /\ job \in Job
  /\ wire \in [Envelope -> Nat] /\ acked \subseteq Envelope
  /\ calls \in Nat /\ drops \in Nat /\ refusals \in Nat /\ crashes \in Nat

\* No message.send leaves before its row is on disk: whatever the relay may
\* have taken, a restarted agent finds in its outbox (insertOutboxPending comes
\* before client.send, across the awaits of ensureClient and of the key).
WriteAhead ==
  \A e \in Envelope :
    wire[e] > 0 \/ e \in accepted \ Elsewhere => outbox[e] # "none"

\* The outbox never claims more than is so: accepted and delivered rows, and
\* the acks the callers got, are envelopes the relay took, and a delivered row
\* has its receipt in the receipts table.
OutboxIsTrue ==
  /\ \A e \in Envelope :
       /\ outbox[e] \in Settled => e \in accepted
       /\ outbox[e] = "delivered" => e \in receipts
  /\ acked \subseteq accepted

\* Rows that say pending though no send() is past its insertion with them.
Stranded ==
  {e \in Envelope :
     /\ outbox[e] = "pending"
     /\ ~\E s \in Sender : env[s] = e /\ pc[s] \in {"resolve", "wire"}}

\* A pending row is under way: whatever throws in a send(), in its reconnection or
\* at the relay, and whoever else sends the same envelope, some send() has it in
\* hand and will settle it when it returns, though one whose socket is gone may
\* wait for ever.  Each death of the process leaves at most one row behind for
\* each caller (the try block of send()).
PendingIsUnderWay == Cardinality(Stranded) <= crashes * Cardinality(Sender)

Ledger == INSTANCE ReceiptLedger
            WITH relayed <- Range(log), recorded <- receipts, published <- events

\* Receipts are recorded once and published once, in spite of live and
\* recovered copies, overlapping recoveries and crashes (observeReceipt).
ReceiptsOnce == Ledger!Spec

\* README.md:67: accepted and delivered envelopes are not sent again.
NoDoubleSend ==
  [][\A e \in Envelope : wire'[e] > wire[e] => outbox[e] \notin Settled]_vars

\* The agent is connected, nothing is being connected or recovered, and every
\* frame has been handled.
Quiet ==
  /\ JsIdle /\ Connected /\ pc[Main] = "idle"
  /\ \A t \in Task : pc[t] \notin {"connect", "recover"}
  /\ \A c \in Client : down[c] = <<>>

\* README.md:69: no receipt the relay keeps is missed, be it pushed live or
\* listed by recoverMissedReceipts.
NothingMissed == Quiet => Range(log) \subseteq receipts

\* As long as the relay has refused nothing and the process has not died, paging
\* from the stored cursor and the receipts pushed live leave no gap, over lost
\* connections and though both kinds move the cursor (recoverMissedReceipts,
\* observeReceipt).
NothingMissedUnbroken == refusals = 0 /\ crashes = 0 => NothingMissed

\* README.md:75: a receipt the agent has recorded and recovered is in the
\* durable event stream (observeReceipt, over the death of the process).
RecordedIsPublished == Quiet => receipts \subseteq Range(events)

\* A death of the process between two statements of observeReceipt costs at most
\* the event of the receipt it interrupts: whatever was recorded before or is
\* recorded after it is published, by live and recovered copies alike.
EachCrashLosesOneEvent ==
  JsIdle => Cardinality(receipts \ Range(events)) <= crashes

\* At most the client in use and those still connecting have a socket on the
\* channel: no reconnection leaves one behind, with handlers that go on observing
\* receipts (connectClient closes the client it replaces).
NoOrphanSocket ==
  \A c \in Client : status[c] = "open" =>
    c = current \/ \E t \in Task : sock[t] = c /\ pc[t] = "connect"

\* A task that awaits the join or a reply on a socket that is gone has no one to
\* wake it.
Hung(t) == pc[t] \in {"connect", "recover", "wire"} /\ status[sock[t]] = "closed"

Awaiting(t) == pc[t] \in {"connect", "recover", "wire"}

\* The relay has the request of the task; its reply is on the way; its socket is
\* closing or gone, and the frame with it.
Asked(t)   == t \in todo \/ (pc[t] = "connect" /\ status[sock[t]] = "connecting")
Replied(t) == \E i \in 1..Len(down[sock[t]]) : down[sock[t]][i].task = t
Cut(t)     == status[sock[t]] \in {"closing", "closed"}

\* The replies a task can get where it awaits.
Fits(kind, label) ==
  \/ label = "connect" /\ kind \in {"join", "nack"}
  \/ label = "recover" /\ kind \in {"page", "nack"}
  \/ label = "wire" /\ kind \in {"ack", "nack"}

\* Over clients that are replaced, overlapping reconnections and refusals,
\* requests and replies stay matched: a task that awaits is with the relay, in
\* the page being observed or has its reply on the way, unless its socket is
\* closing or gone; and a reply on its way finds its task awaiting just that, on
\* the client it arrives at (requestReply and the ref it compares).
AwaitsAndRepliesMatch ==
  /\ \A t \in Task :
       Awaiting(t) => Asked(t) \/ Replied(t) \/ job.owner = t \/ Cut(t)
  /\ \A c \in Client : \A i \in 1..Len(down[c]) :
       LET f == down[c][i] IN
       f.kind # "receipt" => sock[f.task] = c /\ Fits(f.kind, pc[f.task])

\* Every send() settles, unless the socket it or its reconnection awaits is
\* gone: requestReply and connect have no timeout.
SendSettlesUnlessHung ==
  \A s \in Sender : pc[s] # "idle" ~> (pc[s] = "idle" \/ Hung(s))

\* maintainConnection brings a lost connection back, unless it hangs itself.
ReconnectsUnlessHung == running /\ ~Connected ~> (Connected \/ Hung(Main) \/ ~running)

\* README.md:68: the agent reconnects by itself.
AutoReconnects == running /\ ~Connected ~> (Connected \/ ~running)

\* Once an agent is started, every receipt of the relay is recorded at last, over
\* the connections that are lost, unless the reconnection hangs or the program
\* ends: ensureReady has thrown and nobody calls it again, or the process died.  A
\* refused request may have been a receipt.list, which is not asked for again
\* before the connection is next lost.
ReceiptsRecordedUnlessHung ==
  \A e \in Envelope :
    e \in Range(log) ~>
      (e \in receipts \/ Hung(Main) \/ pc[Main] = "off" \/ refusals > 0)
=============================================================================
