------------------------------ MODULE Identity ------------------------------
(***************************************************************************)
(* The identity of an agent: identity.json, the document Core publishes    *)
(* for it, and the calls that read, change and register it (all of         *)
(* src/src/identity).  A call is an MCP tool (src/src/mcp/tools/index.ts), *)
(* the start of an agent (ensureReady in src/src/runtime/agent.ts) or of a *)
(* sidecar (runSidecar in src/src/sidecar/server.ts); each call may run in *)
(* a process of its own.                                                   *)
(*                                                                         *)
(* A call is the sequence of the steps it has still to do.  It loses       *)
(* control at each await: to Core's answer, to the key generation, to the  *)
(* relay.  In between it runs on the copy of the identity it once read.    *)
(***************************************************************************)
EXTENDS Naturals, Sequences, FiniteSets

CONSTANTS
  Task,       \* the places where calls can run at the same time
  Capability, \* names an agent can advertise
  MaxPrice,   \* the highest price validateRoute admits
  Configured, \* the capabilities in the sidecar's configuration
  Scenarios,  \* the settings a behaviour may have: it keeps one
  MaxDid      \* bound on DIDs, the one in the environment included

\* What the properties tell of a DID document: the capabilities and the price
\* of its PlenipoAgent service; price 0 is a service without a route.
Document == [caps : SUBSET Capability, price : 0..MaxPrice]

\* given: the argument with the capabilities is there, though it may be an empty
\* list; price 0 is an argument that was left out.
Edit == [kind : {"caps", "route"}, given : BOOLEAN, caps : SUBSET Capability,
         price : Nat, replace : BOOLEAN]

\* env: PLENIPO_DID and its companions are set; overlap: calls may overlap;
\* late: Core may act on a registration whose caller was told it failed;
\* stored: a registered identity is on disk at first; calls: those made;
\* edits: what declareRoute and declareCapabilities are asked for;
\* faults: the bound on deaths, refused registrations and lost connections.
Calls == {"identity", "sync", "edit", "agent", "sidecar"}

Scenario == [env : BOOLEAN, overlap : BOOLEAN, late : BOOLEAN,
             stored : BOOLEAN, calls : SUBSET Calls, edits : SUBSET Edit,
             faults : Nat]

Default == [caps |-> {"general", "mcp"}, price |-> 1]

ASSUME IdentityAssumption ==
  /\ IsFiniteSet(Task)
  /\ MaxPrice \in Nat \ {0}
  /\ MaxDid \in Nat /\ MaxDid >= 2
  /\ Default.caps \subseteq Capability /\ Configured \subseteq Capability
  /\ Scenarios \subseteq Scenario

VARIABLES
  scene,    \* the scenario, which never changes
  file,     \* identity.json; the did of NoIdentity when there is none
  torn,     \* a process died between truncating that file and writing it
  core,     \* the document Core publishes for each DID
  posts,    \* registrations on their way to Core
  task,     \* the calls
  tokenfile, \* sidecar-token, 0 when there is none
  made,     \* the last DID that was made
  faults    \* faults so far

vars == <<scene, file, torn, core, posts, task, tokenfile, made, faults>>

Did    == 1..MaxDid
EnvDid == 1

NoDocument == [caps |-> {}, price |-> 0]

\* hosted: did_document_mode is core_hosted.
AgentIdentity == [did : Did \cup {0}, doc : Document, hosted : BOOLEAN,
                  registered : BOOLEAN, pending : BOOLEAN]

NoIdentity == [did |-> 0, doc |-> NoDocument, hosted |-> FALSE,
               registered |-> FALSE, pending |-> FALSE]

\* envIdentityComplete: its document is made up, and has no route.
EnvIdentity == [did |-> EnvDid, doc |-> [caps |-> {"general"}, price |-> 0],
                hosted |-> FALSE, registered |-> TRUE, pending |-> FALSE]

\* createLocalIdentity.
LocalIdentity(did) == [did |-> did, doc |-> Default, hosted |-> TRUE,
                       registered |-> FALSE, pending |-> TRUE]

Synced(identity) ==
  [identity EXCEPT !.registered = TRUE, !.pending = FALSE]

Unsynced(identity) ==
  [identity EXCEPT !.registered = FALSE, !.pending = TRUE]

Steps == {"ensure", "create", "sync", "resync", "edit", "default", "route",
          "config", "connect", "token", "generate", "bind", "serve"}

\* cur: the identity the call works on; phase: where it is in a registration;
\* token: the bearer token of a sidecar.
TaskState == [todo : Seq(Steps), cur : AgentIdentity, edit : Edit,
              phase : {"go", "wait", "ok", "failed"}, token : Nat]

NoEdit == [kind |-> "caps", given |-> FALSE, caps |-> {}, price |-> 0,
           replace |-> FALSE]

Done == [todo |-> <<>>, cur |-> NoIdentity, edit |-> NoEdit, phase |-> "go",
         token |-> 0]

\* ensureReady, and what runSidecar does after it.
AgentStart == <<"ensure", "sync", "default", "connect">>

Plan(call) ==
  CASE call = "identity" -> <<"ensure">>
    [] call = "sync"     -> <<"ensure", "resync">>
    [] call = "edit"     -> <<"ensure", "edit", "sync">>
    [] call = "agent"    -> AgentStart
    [] call = "sidecar"  -> AgentStart \o
         <<"ensure", "config", "sync", "ensure", "sync", "token", "bind">>

Init ==
  /\ scene \in Scenarios
  /\ file = IF scene.stored THEN Synced(LocalIdentity(2)) ELSE NoIdentity
  /\ torn = FALSE
  /\ core = [d \in Did |-> IF scene.stored /\ d = 2 THEN Default ELSE NoDocument]
  /\ posts = {}
  /\ task = [t \in Task |-> Done]
  /\ tokenfile = 0
  /\ made = IF scene.stored THEN 2 ELSE EnvDid
  /\ faults = 0

-----------------------------------------------------------------------------
(* Documents.                                                              *)

\* documentHasRoute.
HasRoute(doc) == doc.price # 0

\* normalizeRoute: what is missing takes its default, an empty list too.
Normal(doc) ==
  [caps  |-> IF doc.caps # {} THEN doc.caps ELSE Default.caps,
   price |-> IF HasRoute(doc) THEN doc.price ELSE Default.price]

\* updateDocumentCapabilities.
WithCapabilities(doc, e) ==
  [doc EXCEPT !.caps = IF e.replace THEN e.caps ELSE @ \cup e.caps]

\* The merged route of declareRoute, in the service of the document.
WithRoute(doc, e) ==
  LET existing == IF e.replace THEN Default ELSE Normal(doc)
  IN  Normal([caps  |-> IF e.given THEN e.caps ELSE existing.caps,
              price |-> IF e.price # 0 THEN e.price ELSE existing.price])

\* Bug: the capabilities that are declared replace those there are.
AppliedReplacing(doc, e) ==
  IF e.kind = "caps" THEN [doc EXCEPT !.caps = e.caps] ELSE WithRoute(doc, e)

Applied(doc, e) ==
  IF e.kind = "caps" THEN WithCapabilities(doc, e) ELSE WithRoute(doc, e)

\* validateRoute.
Valid(e) == e.price <= MaxPrice

\* The whole route, with the default price.
RouteOf(caps) ==
  [kind |-> "route", given |-> TRUE, caps |-> caps, price |-> Default.price,
   replace |-> FALSE]

\* What the call at this step declares.
Asked(t) ==
  CASE Head(task[t].todo) = "edit"   -> task[t].edit
    [] Head(task[t].todo) = "route"  -> RouteOf(Default.caps)
    [] Head(task[t].todo) = "config" -> RouteOf(Configured)

-----------------------------------------------------------------------------
(* Calls.                                                                  *)

Serving(t) == task[t].todo = <<"serve">>
Busy(t)    == task[t].todo # <<>> /\ ~Serving(t)

At(t, step) == task[t].todo # <<>> /\ Head(task[t].todo) = step

Rest(t) == Tail(task[t].todo)

\* The step is over, and the steps "first" come before the rest.
Then(t, cur, first) ==
  task' = [task EXCEPT ![t].todo = first \o Rest(t), ![t].cur = cur,
                       ![t].phase = "go"]

\* The call rejects, which ends a program that was starting.
Throw(t) == task' = [task EXCEPT ![t] = Done]

\* saveIdentity writes the whole file.
Save(identity) == file' = identity /\ torn' = FALSE

Fault == faults < scene.faults /\ faults' = faults + 1

Begin(t, call, e) ==
  /\ task[t].todo = <<>>
  /\ call \in scene.calls
  /\ scene.overlap \/ \A u \in Task : ~Busy(u)
  /\ call = "edit" <=> e # NoEdit
  /\ task' = [task EXCEPT ![t] = [Done EXCEPT !.todo = Plan(call), !.edit = e]]
  /\ UNCHANGED <<scene, file, torn, core, posts, tokenfile, made, faults>>

\* ensureIdentity takes the environment's identity, ...
EnsureFromEnv(t) ==
  /\ At(t, "ensure") /\ scene.env
  /\ Then(t, EnvIdentity, <<>>)
  /\ UNCHANGED <<scene, file, torn, core, posts, tokenfile, made, faults>>

\* Bug: a file that is not JSON counts as none.
EnsureTornMakes(t) ==
  /\ At(t, "ensure") /\ ~scene.env /\ torn
  /\ Then(t, NoIdentity, <<"create", "sync">>)
  /\ UNCHANGED <<scene, file, torn, core, posts, tokenfile, made, faults>>

\* ... or fails on a file that is not JSON, ...
EnsureTorn(t) ==
  /\ At(t, "ensure") /\ ~scene.env /\ torn
  /\ Throw(t)
  /\ UNCHANGED <<scene, file, torn, core, posts, tokenfile, made, faults>>

\* Bug: whether a registration is pending is not asked.
NeedsSyncAtFirst(identity) == identity.hosted /\ ~identity.registered

NeedsSync(identity) ==
  identity.hosted /\ (identity.pending \/ ~identity.registered)

\* ... or takes the one in the file, and registers it if that is outstanding, ...
EnsureStored(t) ==
  /\ At(t, "ensure") /\ ~scene.env /\ ~torn /\ file.did # 0
  /\ Then(t, file, IF NeedsSync(file) THEN <<"sync">> ELSE <<>>)
  /\ UNCHANGED <<scene, file, torn, core, posts, tokenfile, made, faults>>

\* Bug: no identity is made.
EnsureMissingSkips(t) ==
  /\ At(t, "ensure") /\ ~scene.env /\ ~torn /\ file.did = 0
  /\ Then(t, NoIdentity, <<"sync">>)
  /\ UNCHANGED <<scene, file, torn, core, posts, tokenfile, made, faults>>

\* ... or has one made.
EnsureMissing(t) ==
  /\ At(t, "ensure") /\ ~scene.env /\ ~torn /\ file.did = 0
  /\ Then(t, NoIdentity, <<"create", "sync">>)
  /\ UNCHANGED <<scene, file, torn, core, posts, tokenfile, made, faults>>

\* Bug: a new identity is not saved before it is registered.
CreateUnsaved(t) ==
  /\ At(t, "create") /\ made < MaxDid
  /\ made' = made + 1
  /\ Then(t, LocalIdentity(made + 1), <<>>)
  /\ UNCHANGED <<scene, file, torn, core, posts, tokenfile, faults>>

\* createLocalIdentity, once its keys are there.
Create(t) ==
  /\ At(t, "create") /\ made < MaxDid
  /\ made' = made + 1
  /\ Then(t, LocalIdentity(made + 1), <<>>)
  /\ Save(LocalIdentity(made + 1))
  /\ UNCHANGED <<scene, core, posts, tokenfile, faults>>

AtEdit(t) == At(t, "edit") \/ At(t, "route") \/ At(t, "config")

\* Bug: the changed document is kept in memory until it is registered.
DeclareUnsaved(t) ==
  /\ AtEdit(t) /\ Valid(Asked(t))
  /\ Then(t, [task[t].cur EXCEPT !.doc = Applied(@, Asked(t)), !.pending = TRUE], <<>>)
  /\ UNCHANGED <<scene, file, torn, core, posts, tokenfile, made, faults>>

\* declareRoute and declareCapabilities: the change to the identity they
\* ensured is saved as pending.
Declare(t) ==
  LET changed == [task[t].cur EXCEPT !.doc = Applied(@, Asked(t)), !.pending = TRUE]
  IN  /\ AtEdit(t) /\ Valid(Asked(t))
      /\ Then(t, changed, <<>>)
      /\ Save(changed)
      /\ UNCHANGED <<scene, core, posts, tokenfile, made, faults>>

DeclareInvalid(t) ==
  /\ AtEdit(t) /\ ~Valid(Asked(t))
  /\ Throw(t)
  /\ UNCHANGED <<scene, file, torn, core, posts, tokenfile, made, faults>>

\* ensureReady declares a route for a document that has none.
DefaultRoute(t) ==
  /\ At(t, "default")
  /\ Then(t, task[t].cur, IF HasRoute(task[t].cur.doc) THEN <<>>
                          ELSE <<"ensure", "route", "sync">>)
  /\ UNCHANGED <<scene, file, torn, core, posts, tokenfile, made, faults>>

\* Bug: an identity that is not pending is not registered again.
ResyncPending(t) ==
  /\ At(t, "resync")
  /\ Then(t, task[t].cur, IF NeedsSync(task[t].cur) THEN <<"sync">> ELSE <<>>)
  /\ UNCHANGED <<scene, file, torn, core, posts, tokenfile, made, faults>>

\* plenipo_sync_identity leaves an external identity alone.
Resync(t) ==
  /\ At(t, "resync")
  /\ Then(t, task[t].cur, IF task[t].cur.hosted THEN <<"sync">> ELSE <<>>)
  /\ UNCHANGED <<scene, file, torn, core, posts, tokenfile, made, faults>>

\* connectClient; when it rejects, so does the start.
Connect(t) ==
  /\ At(t, "connect")
  /\ Then(t, task[t].cur, <<>>)
  /\ UNCHANGED <<scene, file, torn, core, posts, tokenfile, made, faults>>

ConnectFails(t) ==
  /\ At(t, "connect") /\ Fault
  /\ Throw(t)
  /\ UNCHANGED <<scene, file, torn, core, posts, tokenfile, made>>

-----------------------------------------------------------------------------
(* Registration: syncIdentityWithCore and Core.                            *)

\* open: the caller still waits for the answer.
Request == [task : Task, did : Did \cup {0}, doc : Document, open : BOOLEAN]

\* The challenge and the registration are requested.
Post(t) ==
  /\ At(t, "sync") /\ task[t].phase = "go"
  /\ posts' = posts \cup {[task |-> t, did |-> task[t].cur.did,
                           doc |-> task[t].cur.doc, open |-> TRUE]}
  /\ task' = [task EXCEPT ![t].phase = "wait"]
  /\ UNCHANGED <<scene, file, torn, core, tokenfile, made, faults>>

Told(r, phase) ==
  task' = IF r.open THEN [task EXCEPT ![r.task].phase = phase] ELSE task

\* Core takes the document.
Apply(r) ==
  /\ posts' = posts \ {r}
  /\ core' = [core EXCEPT ![r.did] = r.doc]
  /\ Told(r, "ok")
  /\ UNCHANGED <<scene, file, torn, tokenfile, made, faults>>

\* Core refuses the challenge or the registration.
Refuse(r) ==
  /\ r.open /\ Fault
  /\ posts' = posts \ {r}
  /\ Told(r, "failed")
  /\ UNCHANGED <<scene, file, torn, core, tokenfile, made>>

\* What becomes of the requests nobody waits for any more.
Abandoned(rs) == IF scene.late THEN {[r EXCEPT !.open = FALSE] : r \in rs} ELSE {}

\* The connection to Core breaks before the answer is there.
Break(r) ==
  /\ r.open /\ Fault
  /\ posts' = (posts \ {r}) \cup Abandoned({r})
  /\ Told(r, "failed")
  /\ UNCHANGED <<scene, file, torn, core, tokenfile, made>>

\* The identity the call started from is saved with the outcome.
SaveOutcome(t) ==
  LET cur     == task[t].cur
      outcome == IF task[t].phase = "ok" THEN Synced(cur) ELSE Unsynced(cur)
  IN  /\ At(t, "sync") /\ task[t].phase \in {"ok", "failed"}
      /\ Then(t, outcome, <<>>)
      /\ Save(outcome)
      /\ UNCHANGED <<scene, core, posts, tokenfile, made, faults>>

-----------------------------------------------------------------------------
(* The sidecar's token and port.                                           *)

\* resolveSidecarToken, for a configuration without a token, reads the file, ...
ReadToken(t) ==
  /\ At(t, "token")
  /\ task' = [task EXCEPT ![t].token = tokenfile,
                          ![t].todo = (IF tokenfile = 0 THEN <<"generate">>
                                       ELSE <<>>) \o Rest(t)]
  /\ UNCHANGED <<scene, file, torn, core, posts, tokenfile, made, faults>>

\* Each random token is a number of its own: this one nothing else holds.
FreshToken ==
  LET held == {tokenfile} \cup {task[u].token : u \in Task}
  IN  CHOOSE n \in 1..Cardinality(Task) + 2 : n \notin held

\* Bug: the token is not written to the file.
GenerateUnwritten(t) ==
  /\ At(t, "generate")
  /\ task' = [task EXCEPT ![t].token = FreshToken, ![t].todo = Rest(t)]
  /\ UNCHANGED <<scene, file, torn, core, posts, tokenfile, made, faults>>

\* ... or writes a new one.
Generate(t) ==
  /\ At(t, "generate")
  /\ tokenfile' = FreshToken
  /\ task' = [task EXCEPT ![t].token = FreshToken, ![t].todo = Rest(t)]
  /\ UNCHANGED <<scene, file, torn, core, posts, made, faults>>

\* serve() throws when the port is taken; what was declared stays declared.
Bind(t) ==
  /\ At(t, "bind")
  /\ IF \E u \in Task : Serving(u) THEN Throw(t)
     ELSE task' = [task EXCEPT ![t].todo = <<"serve">>, ![t].cur = NoIdentity]
  /\ UNCHANGED <<scene, file, torn, core, posts, tokenfile, made, faults>>

Stop(t) ==
  /\ Serving(t)
  /\ Throw(t)
  /\ UNCHANGED <<scene, file, torn, core, posts, tokenfile, made, faults>>

\* The next thing the call does is saveIdentity.
Saves(t) ==
  \/ AtEdit(t)
  \/ At(t, "create")
  \/ At(t, "sync") /\ task[t].phase \in {"ok", "failed"}

\* The process ends, perhaps after writeFileSync truncated identity.json.
Die(t) ==
  LET mine == {r \in posts : r.task = t /\ r.open} IN
  /\ Busy(t) /\ Fault
  /\ Throw(t)
  /\ posts' = (posts \ mine) \cup Abandoned(mine)
  /\ torn' \in {torn, torn \/ Saves(t)}
  /\ UNCHANGED <<scene, file, core, tokenfile, made>>

-----------------------------------------------------------------------------

Runs(t) ==
  \/ EnsureFromEnv(t) \/ EnsureTorn(t) \/ EnsureStored(t) \/ EnsureMissing(t)
  \/ Create(t) \/ Declare(t) \/ DeclareInvalid(t)
  \/ DefaultRoute(t) \/ Resync(t) \/ Connect(t)
  \/ Post(t) \/ SaveOutcome(t)
  \/ ReadToken(t) \/ Generate(t) \/ Bind(t)

Answers(t) ==
  \E r \in posts : r.task = t /\ r.open /\ (Apply(r) \/ Refuse(r) \/ Break(r))

Next ==
  \/ \E t \in Task : Runs(t) \/ ConnectFails(t) \/ Stop(t) \/ Die(t) \/ Answers(t)
  \/ \E t \in Task, call \in Calls, e \in scene.edits \cup {NoEdit} : Begin(t, call, e)
  \/ \E r \in posts : ~r.open /\ Apply(r)

Fairness == \A t \in Task : WF_vars(Runs(t)) /\ WF_vars(Answers(t))

Spec == Init /\ [][Next]_vars /\ Fairness

-----------------------------------------------------------------------------
(* Properties.                                                             *)

\* The types of the variables of the identity.
TypeOK ==
  /\ scene \in Scenario
  /\ file \in AgentIdentity /\ torn \in BOOLEAN
  /\ core \in [Did -> Document]
  /\ posts \subseteq Request /\ \A r \in posts : r.did \in Did
  /\ task \in [Task -> TaskState]
  /\ tokenfile \in Nat /\ made \in Did /\ faults \in Nat

\* One call at a time, the identity of the file, requests that end with their
\* callers: how the SDK is meant to be used.
Orderly == ~scene.overlap /\ ~scene.env /\ ~scene.late

InStep == file.did # 0 /\ ~file.pending /\ core[file.did] = file.doc

\* Whatever fails between the save and the registration, of declareRoute,
\* declareCapabilities or the first start: identity.json says that a
\* registration is pending, or Core publishes exactly its document.  (Calls that
\* overlap save what they read before: then the file may silently differ.)
AgreesOrPending ==
  Orderly /\ ~torn /\ file.did # 0 => file.pending \/ InStep

\* The keys of a DID that Core publishes are in identity.json, whatever died
\* between making, saving and registering them, unless first calls overlapped,
\* the environment's identity was saved over them or the file was truncated.
KeysKept ==
  Orderly /\ ~torn => \A d \in Did : core[d] # NoDocument => file.did = d

\* Once a death truncated identity.json, no call makes a second identity in its
\* place, repairs the file or has Core act: each fails, until somebody restores
\* the file.  (A call that overlaps the one that died saves the identity it read
\* before, and one with the environment's identity saves that.)
TornIsNotReplaced ==
  [][Orderly /\ torn => torn' /\ UNCHANGED <<file, core, made>>]_vars

\* A declaration takes the capability away: it does not name it, and it replaces
\* what there is or gives the route's capabilities itself.
Drops(e, c) ==
  /\ e.given => c \notin e.caps
  /\ e.replace \/ (e.kind = "route" /\ e.given)

Prices(e) == e.kind = "route" /\ (e.replace \/ e.price # 0)

\* Without overlap, a capability disappears from identity.json only by a
\* declaration that replaces what there is, or declares a route with a list of
\* capabilities, and does not name it; and the price only changes by one that
\* resets the route or names a price.  A registration, a retry, or a declaration
\* of something else never does either.  The start of a sidecar is a declaration
\* with a list; so is one with an empty list, which stands for the default
\* capabilities and takes away all others (declareRoute, declareCapabilities).
OnlyAskedForChanges ==
  [][Orderly /\ file.did # 0 =>
       /\ \A c \in file.doc.caps \ file'.doc.caps :
            \E t \in Task : AtEdit(t) /\ Drops(Asked(t), c)
       /\ file'.doc.price # file.doc.price =>
            \E t \in Task : AtEdit(t) /\ Prices(Asked(t))]_file

\* Clients that read sidecar-token reach the sidecar that listens, after any
\* restarts, unless two sidecars started at the same time (both write a token,
\* only one gets the port).
TokenServes == ~scene.overlap => \A t \in Task : Serving(t) => task[t].token = tokenfile

\* As long as calls keep being made, whichever they are, a failed registration
\* is made up for: Core publishes the document of identity.json, time and again.
RetriedUntilPublished ==
  Orderly /\ []<>(\E t \in Task : Busy(t)) => []<>(torn \/ InStep)

\* What overlapping calls or a late registration left apart, a later
\* plenipo_sync_identity brings together, once calls no longer overlap.
ResyncHeals ==
  /\ ~scene.env
  /\ <>[](\A t, u \in Task : Busy(t) /\ Busy(u) => t = u)
  /\ []<>(\E t \in Task : At(t, "resync"))
  => []<>(torn \/ InStep)
=============================================================================
