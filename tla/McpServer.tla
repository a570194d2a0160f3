----------------------------- MODULE McpServer ------------------------------
(***************************************************************************)
(* The MCP server: its one connection to the relay and its buffer of       *)
(* messages (src/src/mcp/runtime.ts), the tools that use them              *)
(* (src/src/mcp/tools/index.ts), the search for a recipient's key          *)
(* (src/src/did/resolve.ts) and the purchase of tokens                     *)
(* (src/src/payments/index.ts).  The tools of the identity are in Identity.*)
(*                                                                         *)
(* Tool calls overlap: each runs until it awaits the connection, a reply   *)
(* of the relay or an answer over HTTP.                                    *)
(***************************************************************************)
EXTENDS Naturals, Sequences, FiniteSets, Functions

CONSTANTS
  Task,        \* the places where tool calls can run at the same time
  Message,     \* messages and receipts for this agent
  Amount,      \* prices of a token bundle
  Limit,       \* the limits a receive call may give
  Scenarios,   \* the settings a behaviour may have: it keeps one
  MaxTime,     \* bound on the milliseconds that are told apart
  MaxTaken,    \* bound on the entries put in the buffer
  MaxFaults    \* bound on ends of the process, lost connections and receipts

Tools == {"receive", "balance", "send", "purchase", "fetch"}

\* tools: the tools called; created: the created_at of each message, by its
\* sender's clock, 0 for a receipt, which has none; above: those whose
\* envelope_id, 26 random characters, compares greater than an ISO time.
\* field: the field of an entry that the agent takes for its position;
\* receipts: the messages that are receipts, which alone have a received_at;
\* skew: how far the clock behind that is ahead of ours.
\* The rest is what the places where the document of a recipient may be found
\* answer.  "other" is a document that is not the recipient's or has no key of
\* his; "bad" an address that may not be fetched; "malformed" a DID whose
\* percent-encoding cannot be decoded.
Scenario == [tools : SUBSET Tools, created : [Message -> Nat],
             above    : SUBSET Message,
             field    : {"receivedAt", "received_at"},
             receipts : SUBSET Message,
             skew     : Nat,
             given    : {"none", "bad", "down", "other", "good"},
             registry : {"none", "bad", "down", "other", "good"},
             web      : {"none", "malformed", "down", "other", "good"},
             relay    : {"down", "other", "good"}]

ASSUME McpAssumption ==
  /\ Amount \subseteq Nat \ {0} /\ Limit \subseteq Nat \ {0}
  /\ MaxTime \in Nat \ {0} /\ MaxTaken \in Nat /\ MaxFaults \in Nat
  /\ Scenarios \subseteq Scenario

VARIABLES
  scene,     \* the scenario, which never changes
  \* the process
  promise,   \* connectPromise: "none", "pending", "open", "failed"
  link,      \* its socket: "off", "joining", "up", "cut"
  opened,    \* the sockets this process opened
  buffer,    \* what the handlers pushed and no call has taken
  call,      \* the tool calls
  \* outside
  clock,
  waiting,   \* messages sent to this agent that the relay still keeps
  due,       \* those it will push on this connection
  since,     \* what the agent will pass as since; 0 is no since
  positions, \* the newest receivedAt of each reply it got
  handed,    \* the entries handed over, by number
  taken, faults

process == <<promise, link, opened, buffer>>
outside == <<clock, waiting, due, since, positions, handed, taken, faults>>
vars    == <<scene, process, call, outside>>

\* at: receivedAt; stamp: received_at, 0 for a message.
Entry == [n : Nat, at : Nat, stamp : Nat, created : Nat, above : BOOLEAN]

\* step: "idle", or what the call does next or waits for.
Step == {"idle", "connect", "await", "drain", "given", "registry", "web",
         "relay", "request", "reply", "buy", "terms", "pay", "settle", "fetch"}

\* offer: the amount of the first offer; charged: what the relay took for the
\* call; nokey: whether it ended without a key.
CallState == [tool : Tools, step : Step, since : Nat, limit : Nat,
              offer : Nat, charged : Seq(Amount), outcome : {"none", "ok", "failed"},
              nokey : BOOLEAN]

Newest(times) == {x \in times : \A y \in times : y <= x}

NoCall == [tool |-> "fetch", step |-> "idle", since |-> 0, limit |-> 1, offer |-> 0,
           charged |-> <<>>, outcome |-> "none", nokey |-> FALSE]

Init ==
  /\ scene \in Scenarios
  /\ promise = "none" /\ link = "off" /\ opened = 0 /\ buffer = <<>>
  /\ call = [t \in Task |-> NoCall]
  /\ clock = 1 /\ waiting = Message /\ due = {}
  /\ since = 0 /\ positions = {} /\ handed = {} /\ taken = 0 /\ faults = 0

-----------------------------------------------------------------------------
(* Calls.                                                                  *)

At(t, step) == call[t].step = step
Busy(t)     == call[t].step # "idle"

Goto(t, step) == call' = [call EXCEPT ![t].step = step]

Settle(t, outcome) ==
  call' = [call EXCEPT ![t].step = "idle", ![t].since = 0, ![t].limit = 1,
                       ![t].outcome = outcome]

\* purchaseBundle and the plain HTTP tools need no connection.
FirstStep(tool) ==
  CASE tool = "purchase" -> "buy" [] tool = "fetch" -> "fetch" [] OTHER -> "connect"

Begin(t, tool, from, limit) ==
  /\ ~Busy(t) /\ tool \in scene.tools
  /\ from \in {0, since}
  /\ tool # "receive" => from = 0 /\ limit = 1
  /\ call' = [call EXCEPT ![t] = [NoCall EXCEPT !.tool = tool, !.since = from,
                                    !.limit = limit, !.step = FirstStep(tool)]]
  /\ UNCHANGED <<scene, process, outside>>

\* Bug: the promise is kept only once it is fulfilled.
ConnectUnremembered(t) ==
  /\ At(t, "connect") /\ promise \in {"none", "pending"}
  /\ opened' = opened + 1 /\ link' = "joining" /\ promise' = "pending"
  /\ Goto(t, "await")
  /\ UNCHANGED <<scene, buffer, outside>>

\* ensureConnected, first call: connect() begins.
Connect(t) ==
  /\ At(t, "connect") /\ promise = "none"
  /\ opened' = opened + 1 /\ link' = "joining" /\ promise' = "pending"
  /\ Goto(t, "await")
  /\ UNCHANGED <<scene, buffer, outside>>

\* Every later call awaits the same promise, ...
Share(t) ==
  /\ At(t, "connect") /\ promise # "none"
  /\ Goto(t, "await")
  /\ UNCHANGED <<scene, process, outside>>

AfterConnect(tool) ==
  CASE tool = "receive" -> "drain" [] tool = "send" -> "given" [] OTHER -> "request"

\* Bug: a rejected promise is taken for a pending one.
AwaitedIfOpen(t) ==
  /\ At(t, "await") /\ promise = "open"
  /\ Goto(t, AfterConnect(call[t].tool))
  /\ UNCHANGED <<scene, process, outside>>

\* ... be it fulfilled or rejected: it is never renewed.
Awaited(t) ==
  /\ At(t, "await") /\ promise \in {"open", "failed"}
  /\ IF promise = "open" THEN Goto(t, AfterConnect(call[t].tool))
     ELSE Settle(t, "failed")
  /\ UNCHANGED <<scene, process, outside>>

-----------------------------------------------------------------------------
(* plenipo_receive.                                                        *)

\* Bug: only the sender's clock is compared.
EligibleByCreation(e, from) == from = 0 \/ e.created > from

Eligible(e, from) == from = 0 \/ e.at > from \/ e.above \/ e.created > from

\* How many of the first i entries of the buffer are eligible.
Count(from, i) == Cardinality({j \in 1..i : Eligible(buffer[j], from)})

\* Bug: of too many entries the newest are taken.
TakenNewest(from, limit) ==
  {i \in DOMAIN buffer :
     /\ Eligible(buffer[i], from)
     /\ Count(from, Len(buffer)) - Count(from, i) < limit}

\* The positions drainMessages returns.
Taken(from, limit) ==
  {i \in DOMAIN buffer : Eligible(buffer[i], from) /\ Count(from, i) <= limit}

\* What is left when these positions are gone, in the order it was.
Kept(gone) ==
  LET left  == DOMAIN buffer \ gone
      nth(i) == CHOOSE j \in left : Cardinality({k \in left : k <= j}) = i
  IN  [i \in 1..Cardinality(left) |-> buffer[nth(i)]]

\* The position that the agent reads in an entry.
Position(e) == IF scene.field = "receivedAt" THEN e.at ELSE e.stamp

\* It keeps the latest it has seen.
Latest(times) == CHOOSE x \in Newest(times) : TRUE

\* The agent that gets these entries of the buffer.
Remember(got) ==
  /\ handed' = handed \cup {buffer[i].n : i \in got}
  /\ since' = Latest({since} \cup {Position(buffer[i]) : i \in got})
  /\ positions' = positions \cup Newest({buffer[i].at : i \in got})

\* Bug: what was handed over stays in the buffer.
DrainCopies(t) ==
  LET got == Taken(call[t].since, call[t].limit) IN
  /\ At(t, "drain")
  /\ Remember(got)
  /\ Settle(t, "ok")
  /\ UNCHANGED <<scene, process, clock, waiting, due, taken, faults>>

\* drainMessages.
Drain(t) ==
  LET got == Taken(call[t].since, call[t].limit) IN
  /\ At(t, "drain")
  /\ buffer' = Kept(got)
  /\ Remember(got)
  /\ Settle(t, "ok")
  /\ UNCHANGED <<scene, promise, link, opened, clock, waiting, due, taken, faults>>

-----------------------------------------------------------------------------
(* plenipo_send: resolveEncPublicKey, then the envelope.                   *)

\* encPublicKeyFromDocument of what a source answered, or its failure.
Found(t, answer) ==
  IF answer = "good" THEN Goto(t, "request")
  ELSE call' = [call EXCEPT ![t].step = "idle", ![t].outcome = "failed",
                            ![t].nokey = TRUE]

\* validateDocumentUrlForDid accepts no address for a malformed DID.
Named(address) ==
  IF scene.web = "malformed" /\ address # "none" THEN "bad" ELSE address

\* A document address in the call is the only source.
FetchGiven(t) ==
  /\ At(t, "given")
  /\ IF scene.given = "none" THEN Goto(t, "registry") ELSE Found(t, Named(scene.given))
  /\ UNCHANGED <<scene, process, outside>>

\* Bug: a registry without an answer is an error.
SearchRegistryOnly(t) ==
  /\ At(t, "registry")
  /\ IF scene.registry = "none" THEN Goto(t, "web") ELSE Found(t, Named(scene.registry))
  /\ UNCHANGED <<scene, process, outside>>

\* What the registry names is fetched; any failure goes on to did:web.
SearchRegistry(t) ==
  /\ At(t, "registry")
  /\ IF Named(scene.registry) \in {"none", "bad", "down"} THEN Goto(t, "web")
     ELSE Found(t, Named(scene.registry))
  /\ UNCHANGED <<scene, process, outside>>

\* Of did:web only the fetch may fail: what a malformed DID throws ends the search.
FetchWeb(t) ==
  /\ At(t, "web")
  /\ IF scene.web \in {"none", "down"} THEN Goto(t, "relay")
     ELSE Found(t, scene.web)
  /\ UNCHANGED <<scene, process, outside>>

FetchFromRelay(t) ==
  /\ At(t, "relay")
  /\ Found(t, scene.relay)
  /\ UNCHANGED <<scene, process, outside>>

\* requestReply; a socket that is closed swallows the frame.
Request(t) ==
  /\ At(t, "request")
  /\ Goto(t, "reply")
  /\ UNCHANGED <<scene, process, outside>>

Reply(t) ==
  /\ At(t, "reply") /\ link = "up"
  /\ \E outcome \in {"ok", "failed"} : Settle(t, outcome)
  /\ UNCHANGED <<scene, process, outside>>

-----------------------------------------------------------------------------
(* HTTP: discoverAgents, getDeliveryStatus, mandatePrepare, purchaseBundle.*)

Fetch(t) ==
  /\ At(t, "fetch")
  /\ \E outcome \in {"ok", "failed"} : Settle(t, outcome)
  /\ UNCHANGED <<scene, process, outside>>

Fault == faults < MaxFaults /\ faults' = faults + 1

\* Bug: the payment is sent without asking for the terms.
BuyAtOnce(t) ==
  /\ At(t, "buy")
  /\ Goto(t, "pay")
  /\ UNCHANGED <<scene, process, outside>>

\* purchaseBundle asks without a payment.
Buy(t) ==
  /\ At(t, "buy")
  /\ Goto(t, "terms")
  /\ UNCHANGED <<scene, process, outside>>

\* 402 with terms; any other answer ends the call: 200, an error, or a 402 whose
\* header is missing or offers nothing.
Terms(t) ==
  /\ At(t, "terms")
  /\ \/ \E amount \in Amount :
          call' = [call EXCEPT ![t].step = "pay", ![t].offer = amount]
     \/ Settle(t, "ok")
     \/ Settle(t, "failed")
  /\ UNCHANGED <<scene, process, outside>>

\* The first offer is signed and sent with the same request.
Pay(t) ==
  /\ At(t, "pay")
  /\ Goto(t, "settle")
  /\ UNCHANGED <<scene, process, outside>>

\* The relay takes the payment for the call.
Charge(t) == [call[t] EXCEPT !.charged = Append(@, call[t].offer)]

\* Bug: a payment without an answer is sent again.
PaidRetrying(t) ==
  /\ At(t, "settle")
  /\ \/ /\ call' = [call EXCEPT ![t] = [Charge(t) EXCEPT !.step = "idle", !.outcome = "ok"]]
        /\ UNCHANGED faults
     \/ /\ Fault
        /\ call' = [call EXCEPT ![t] = [Charge(t) EXCEPT !.step = "pay"]]
     \/ Settle(t, "failed") /\ UNCHANGED faults
  /\ UNCHANGED <<scene, process, clock, waiting, due, since, positions, handed, taken>>

\* The relay takes the payment and its answer arrives or is lost; or it refuses,
\* with another 402 among others.  Nothing is sent a third time.
Paid(t) ==
  /\ At(t, "settle")
  /\ \/ /\ call' = [call EXCEPT ![t] = [Charge(t) EXCEPT !.step = "idle", !.outcome = "ok"]]
        /\ UNCHANGED faults
     \/ /\ Fault
        /\ call' = [call EXCEPT ![t] = [Charge(t) EXCEPT !.step = "idle", !.outcome = "failed"]]
     \/ Settle(t, "failed") /\ UNCHANGED faults
  /\ UNCHANGED <<scene, process, clock, waiting, due, since, positions, handed, taken>>

-----------------------------------------------------------------------------
(* The relay and the process.                                              *)

\* The reply to the join fulfils the promise; what the relay keeps is due.
JoinReply ==
  /\ link = "joining"
  /\ link' = "up" /\ promise' = "open" /\ due' = waiting
  /\ UNCHANGED <<scene, opened, buffer, call, clock, waiting, since, positions, handed, taken, faults>>

\* No challenge, no socket, or a join the relay refuses: the promise is rejected.
JoinFails ==
  /\ link = "joining" /\ Fault
  /\ link' = "cut" /\ promise' = "failed"
  /\ UNCHANGED <<scene, opened, buffer, call, clock, waiting, due, since, positions, handed, taken>>

\* The connection breaks.  Nothing listens for that: before the join reply the
\* promise stays as it is, and after it nobody connects again.
Cut ==
  /\ link \in {"joining", "up"} /\ Fault
  /\ link' = "cut" /\ due' = {}
  /\ UNCHANGED <<scene, promise, opened, buffer, call, clock, waiting, since, positions, handed, taken>>

\* The handlers of ensureConnected push an entry, a receipt with the received_at it
\* came with; then the receipt leaves, which the relay may not get.
Deliver(m) ==
  /\ link = "up" /\ m \in due /\ taken < MaxTaken
  /\ \E stamp \in IF m \in scene.receipts THEN 1 .. (clock + scene.skew) ELSE {0} :
       buffer' = Append(buffer, [n |-> taken + 1, at |-> clock, stamp |-> stamp,
                                 created |-> scene.created[m], above |-> m \in scene.above])
  /\ taken' = taken + 1
  /\ due' = due \ {m}
  /\ \/ waiting' = waiting \ {m} /\ UNCHANGED faults
     \/ UNCHANGED waiting /\ Fault
  /\ UNCHANGED <<scene, promise, link, opened, call, clock, since, positions, handed>>

Tick ==
  /\ clock < MaxTime
  /\ clock' = clock + 1
  /\ UNCHANGED <<scene, process, call, waiting, due, since, positions, handed, taken, faults>>

\* The process ends and another starts: buffer, connection and calls are gone.
Restart ==
  /\ Fault
  /\ promise' = "none" /\ link' = "off" /\ opened' = 0 /\ buffer' = <<>>
  /\ call' = [t \in Task |-> NoCall]
  /\ due' = {}
  /\ UNCHANGED <<scene, clock, waiting, since, positions, handed, taken>>

-----------------------------------------------------------------------------

Runs(t) ==
  \/ Connect(t) \/ Share(t) \/ Awaited(t) \/ Drain(t)
  \/ FetchGiven(t) \/ SearchRegistry(t) \/ FetchWeb(t) \/ FetchFromRelay(t)
  \/ Request(t) \/ Reply(t) \/ Fetch(t)
  \/ Buy(t) \/ Terms(t) \/ Pay(t) \/ Paid(t)

Joins == JoinReply \/ JoinFails \/ (link = "joining" /\ Cut)

Next ==
  \/ \E t \in Task : Runs(t)
  \/ \E t \in Task, tool \in Tools, from \in {0, since}, limit \in Limit \cup {1} :
       Begin(t, tool, from, limit)
  \/ JoinReply \/ JoinFails \/ Cut \/ Restart \/ Tick
  \/ \E m \in Message : Deliver(m)

Fairness == WF_vars(Joins) /\ \A t \in Task : WF_vars(Runs(t))

Spec == Init /\ [][Next]_vars /\ Fairness

-----------------------------------------------------------------------------
(* Properties.                                                             *)

\* The types of the variables of the MCP server.
TypeOK ==
  /\ scene \in Scenario
  /\ promise \in {"none", "pending", "open", "failed"}
  /\ link \in {"off", "joining", "up", "cut"} /\ opened \in Nat
  /\ buffer \in Seq(Entry)
  /\ call \in [Task -> CallState]
  /\ clock \in Nat /\ waiting \subseteq Message /\ due \subseteq Message
  /\ since \in Nat /\ positions \subseteq 1..clock /\ handed \subseteq 1..taken
  /\ taken \in Nat /\ faults \in Nat

\* However the first tool calls overlap, a process opens one socket and all its
\* calls share it (a second would join the inbox again and get every message
\* twice).
OneSocket == opened <= 1 /\ (promise = "none" <=> opened = 0)

\* The buffer as a mailbox: overlapping receive calls, limits and positions never
\* lose an entry, nor hand it over twice.
Box == INSTANCE Mailbox WITH held <- {buffer[i].n : i \in DOMAIN buffer}

BufferIsMailbox == Box!Spec

\* No position is ahead of the clock by which entries are received.
Level == scene.field = "receivedAt" \/ scene.skew = 0

\* An agent that polls from its position leaves behind at most entries of the
\* millisecond in which the newest entry of a reply came, whatever the limits cut
\* off and however its polls overlap: with the latest receivedAt as its position,
\* and with the latest received_at as long as no receipt is stamped by a clock
\* ahead of ours.
OnlyTiesLeftBehind ==
  Level => \A i \in DOMAIN buffer : buffer[i].at <= since => buffer[i].at \in positions

\* What SKILL.md:170 says of polling with the latest received_at: the next poll has
\* what came after all that the polls before it had.
LaterEntriesAreFound ==
  scene.field = "received_at" =>
    \A i \in DOMAIN buffer :
      (\A p \in positions : p < buffer[i].at) => Eligible(buffer[i], since)

\* Each entry is handed over in the end to an agent that keeps polling from its
\* position, unless the process ends or it is one that stays: it came in the
\* millisecond of the newest entry of a reply or, where a received_at that is ahead
\* of our clock is the position, at that time or before it.
Stays(e) == IF Level THEN e.at \in positions ELSE e.at <= since

Left(n) == \E i \in DOMAIN buffer : buffer[i].n = n /\ Stays(buffer[i])

HandedInTheEnd ==
  []<>(\E t \in Task : At(t, "drain") /\ call[t].since = since) =>
    \A n \in 1..MaxTaken :
      (\E i \in DOMAIN buffer : buffer[i].n = n)
        ~> Left(n) \/ ~\E i \in DOMAIN buffer : buffer[i].n = n

\* A send without a document address finds the key in the first source that has
\* the recipient's document, however the others fail, unless one before it
\* answers with a document that is not his or his DID is malformed.
Has(source) == source = "good"
Misleads    == "other" \in {scene.registry, scene.web} \/ scene.web = "malformed"

ResolvesIfAnySourceHasIt ==
  \A t \in Task :
    call[t].nokey /\ scene.given = "none" =>
      Misleads \/ ~(Has(scene.registry) \/ Has(scene.web) \/ Has(scene.relay))

\* A purchase is charged at most once, the amount of the offer it got, and a
\* charge whose answer is lost is the only one behind a failed call.
PaidOnceAsOffered ==
  \A t \in Task :
    /\ call[t].charged \in {<<>>, <<call[t].offer>>}
    /\ call[t].charged # <<>> => call[t].step = "idle" /\ call[t].outcome # "none"

\* Every tool call settles, with a result or an error, also after a connection
\* that was refused.  Only when it breaks unannounced some wait forever: those
\* that wait for the join, and those that wait for a reply.
Stranded(t) == link = "cut" /\ (promise = "pending" \/ At(t, "reply"))

SettlesUnlessCut == \A t \in Task : Busy(t) ~> ~Busy(t) \/ Stranded(t)
=============================================================================
