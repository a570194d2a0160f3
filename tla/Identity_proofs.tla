--------------------------- MODULE Identity_proofs ---------------------------
(***************************************************************************)
(* What Identity guarantees for every number of calls, of capabilities and *)
(* of DIDs, whatever is declared and in every scenario.                    *)
(***************************************************************************)
EXTENDS Identity, FiniteSetTheorems, SequenceTheorems, TLAPS

(* The steps of a call.                                                    *)

\* What can come after another step.
Inner == Steps \ {"create", "generate", "serve"}

\* Only the head is a step that the last one decided on, and the port is
\* taken right after the token is there.
Shape(s) ==
  \A i \in 2..Len(s) : s[i] \in Inner /\ (s[i] = "bind" => s[i - 1] \in {"token", "generate"})

LEMMA JoinSeq ==
  ASSUME NEW f \in Seq(Steps), NEW s \in Seq(Steps), s # <<>>
  PROVE  /\ f \o Tail(s) \in Seq(Steps) /\ Len(f \o Tail(s)) = Len(f) + Len(s) - 1
         /\ Len(f) \in Nat /\ Len(s) \in Nat \ {0} /\ Head(s) = s[1]
         /\ \A i \in 1..Len(f) : (f \o Tail(s))[i] = f[i]
         /\ \A i \in Len(f) + 1..Len(f) + Len(s) - 1 :
              (f \o Tail(s))[i] = s[i - Len(f) + 1]
<1>1. Len(s) \in Nat \ {0} /\ Tail(s) \in Seq(Steps) /\ Len(Tail(s)) = Len(s) - 1 /\ Head(s) = s[1]
  OBVIOUS
<1>2. \A i \in 1..Len(s) - 1 : Tail(s)[i] = s[i + 1]
  OBVIOUS
<1> DEFINE q == Tail(s)
<1>3. q \in Seq(Steps) /\ Len(q) = Len(s) - 1 /\ \A i \in 1..Len(s) - 1 : q[i] = s[i + 1]
  BY <1>1, <1>2
<1> HIDE DEF q
<1>4. /\ f \o q \in Seq(Steps) /\ Len(f \o q) = Len(f) + Len(q) /\ Len(f) \in Nat
      /\ \A i \in 1..Len(f) : (f \o q)[i] = f[i]
      /\ \A i \in Len(f) + 1..Len(f) + Len(q) : (f \o q)[i] = q[i - Len(f)]
  <2>1. /\ f \o q \in Seq(Steps) /\ Len(f \o q) = Len(f) + Len(q)
        /\ Len(f) \in Nat /\ Len(q) \in Nat
    <3>1. f \o q \in Seq(Steps) /\ Len(f \o q) = Len(f) + Len(q)
      BY <1>3, ConcatProperties
    <3>2. Len(f) \in Nat /\ Len(q) \in Nat
      BY <1>3
    <3> QED
      BY <3>1, <3>2
  <2>2. \A i \in 1..Len(f) + Len(q) :
          (f \o q)[i] = IF i <= Len(f) THEN f[i] ELSE q[i - Len(f)]
    BY <1>3, ConcatProperties
  <2>3. ASSUME NEW i \in 1..Len(f)
        PROVE  (f \o q)[i] = f[i]
    BY <2>1, <2>2
  <2>4. ASSUME NEW i \in Len(f) + 1..Len(f) + Len(q)
        PROVE  (f \o q)[i] = q[i - Len(f)]
    BY <2>1, <2>2
  <2> QED
    BY <2>1, <2>3, <2>4
<1>5. ASSUME NEW i \in Len(f) + 1..Len(f) + Len(s) - 1
      PROVE  (f \o q)[i] = s[i - Len(f) + 1]
  <2>1. i - Len(f) \in 1..Len(s) - 1
    BY <1>1, <1>4
  <2> QED
    BY <2>1, <1>1, <1>3, <1>4
<1> QED
  BY <1>1, <1>3, <1>4, <1>5 DEF q

LEMMA ElementsAreSteps ==
  ASSUME NEW s \in Seq(Steps)
  PROVE  \A i \in 1..Len(s) : s[i] \in Steps
OBVIOUS

\* A step that puts nothing first leaves a step of the kind that follows.
LEMMA NextStep ==
  ASSUME NEW s \in Seq(Steps), s # <<>>, Shape(s)
  PROVE  /\ Shape(<<>> \o Tail(s)) /\ <<>> \o Tail(s) \in Seq(Steps)
         /\ <<>> \o Tail(s) # <<>> =>
              /\ Head(<<>> \o Tail(s)) \in Inner
              /\ Head(<<>> \o Tail(s)) = "bind" => Head(s) \in {"token", "generate"}
<1> DEFINE e == <<>>
           r == e \o Tail(s)
<1>1. e \in Seq(Steps) /\ Len(e) = 0
  OBVIOUS
<1> HIDE DEF e
<1>2. /\ r \in Seq(Steps) /\ Len(r) = Len(s) - 1 /\ Len(s) \in Nat \ {0} /\ Head(s) = s[1]
      /\ \A i \in 1..Len(s) - 1 : r[i] = s[i + 1]
  BY <1>1, JoinSeq
<1> HIDE DEF r
<1>3. Shape(r)
  <2> SUFFICES ASSUME NEW i \in 2..Len(r)
               PROVE  r[i] \in Inner /\ (r[i] = "bind" => r[i - 1] \in {"token", "generate"})
    BY DEF Shape
  <2>1. i + 1 \in 2..Len(s) /\ i \in 1..Len(s) - 1 /\ i - 1 \in 1..Len(s) - 1
    BY <1>2
  <2>2. r[i] = s[i + 1] /\ r[i - 1] = s[(i - 1) + 1] /\ (i - 1) + 1 = (i + 1) - 1
    BY <2>1, <1>2
  <2> QED
    BY <2>1, <2>2 DEF Shape
<1>4. ASSUME r # <<>>
      PROVE  Head(r) \in Inner /\ (Head(r) = "bind" => Head(s) \in {"token", "generate"})
  <2>1. Len(r) # 0 /\ Head(r) = r[1]
    BY <1>2, <1>4
  <2>2. 2 \in 2..Len(s) /\ 1 \in 1..Len(s) - 1 /\ r[1] = s[2]
    BY <2>1, <1>2
  <2>3. s[2] \in Inner /\ (s[2] = "bind" => s[2 - 1] \in {"token", "generate"})
    BY <2>2 DEF Shape
  <2> QED
    BY <2>1, <2>2, <2>3, <1>2
<1> QED
  BY <1>2, <1>3, <1>4 DEF r, e

\* A step that decides on others puts them before the rest.
LEMMA FirstSteps ==
  ASSUME NEW s \in Seq(Steps), s # <<>>, Shape(s), NEW f \in Seq(Steps), f # <<>>, Shape(f),
         f[Len(f)] = "generate" \/ (Head(s) \notin {"token", "generate"})
  PROVE  f \o Tail(s) \in Seq(Steps) /\ Shape(f \o Tail(s)) /\ f \o Tail(s) # <<>>
         /\ Head(f \o Tail(s)) = f[1]
<1> DEFINE r == f \o Tail(s)
<1>1. /\ r \in Seq(Steps) /\ Len(r) = Len(f) + Len(s) - 1 /\ Len(f) \in Nat \ {0}
      /\ Len(s) \in Nat \ {0} /\ Head(s) = s[1]
      /\ \A i \in 1..Len(f) : r[i] = f[i]
      /\ \A i \in Len(f) + 1..Len(r) : r[i] = s[i - Len(f) + 1]
  BY JoinSeq
<1> HIDE DEF r
<1>2. r # <<>> /\ Head(r) = f[1]
  <2>1. Len(r) \in Nat \ {0} /\ 1 \in 1..Len(f)
    BY <1>1
  <2>2. r # <<>> /\ Head(r) = r[1]
    BY <2>1, <1>1
  <2> QED
    BY <2>1, <2>2, <1>1
<1>3. ASSUME NEW i \in 2..Len(r)
      PROVE  r[i] \in Inner /\ (r[i] = "bind" => r[i - 1] \in {"token", "generate"})
  <2>1. CASE i <= Len(f)
    <3>1. i \in 2..Len(f) /\ i - 1 \in 1..Len(f) /\ i \in 1..Len(f)
      BY <2>1, <1>1
    <3> QED
      BY <3>1, <1>1 DEF Shape
  <2>2. CASE i = Len(f) + 1
    <3>1. i \in Len(f) + 1..Len(r) /\ i - 1 \in 1..Len(f) /\ i - Len(f) + 1 = 2 /\ i - 1 = Len(f)
          /\ 2 \in 2..Len(s)
      BY <2>2, <1>1
    <3>2. r[i] = s[2] /\ r[i - 1] = f[Len(f)]
      BY <3>1, <1>1
    <3>3. s[2] \in Inner /\ (s[2] = "bind" => s[1] \in {"token", "generate"})
      <4>1. s[2] \in Inner /\ (s[2] = "bind" => s[2 - 1] \in {"token", "generate"})
        BY <3>1 DEF Shape
      <4> QED
        BY <4>1
    <3> QED
      BY <3>2, <3>3, <1>1
  <2>3. CASE i > Len(f) + 1
    <3> DEFINE j == i - Len(f) + 1
    <3>1. i \in Len(f) + 1..Len(r) /\ i - 1 \in Len(f) + 1..Len(r) /\ j \in 2..Len(s)
          /\ (i - 1) - Len(f) + 1 = j - 1
      BY <2>3, <1>1
    <3>2. r[i] = s[j] /\ r[i - 1] = s[j - 1]
      BY <3>1, <1>1
    <3> HIDE DEF j
    <3> QED
      BY <3>1, <3>2 DEF Shape
  <2> QED
    BY <2>1, <2>2, <2>3, <1>1
<1> QED
  BY <1>1, <1>2, <1>3 DEF r, Shape

\* What the steps put first.
LEMMA Firsts ==
  ASSUME NEW f \in {<<"sync">>, <<"create", "sync">>, <<"ensure", "route", "sync">>, <<"generate">>}
  PROVE  f \in Seq(Steps) /\ f # <<>> /\ Shape(f)
         /\ (f[Len(f)] = "generate" <=> f = <<"generate">>)
<1>1. CASE f = <<"sync">>
  BY <1>1 DEF Steps, Shape, Inner
<1>2. CASE f = <<"create", "sync">>
  BY <1>2 DEF Steps, Shape, Inner
<1>3. CASE f = <<"ensure", "route", "sync">>
  BY <1>3 DEF Steps, Shape, Inner
<1>4. CASE f = <<"generate">>
  BY <1>4 DEF Steps, Shape, Inner
<1> QED
  BY <1>1, <1>2, <1>3, <1>4

LEMMA Plans ==
  ASSUME NEW call \in Calls
  PROVE  Plan(call) \in Seq(Steps) /\ Plan(call) # <<>> /\ Head(Plan(call)) = "ensure"
         /\ Shape(Plan(call))
<1>1. CASE call = "identity"
  BY <1>1 DEF Plan, Steps, Shape, Inner
<1>2. CASE call = "sync"
  BY <1>2 DEF Plan, Steps, Shape, Inner
<1>3. CASE call = "edit"
  BY <1>3 DEF Plan, Steps, Shape, Inner
<1>4. CASE call = "agent"
  BY <1>4 DEF Plan, AgentStart, Steps, Shape, Inner
<1>5. CASE call = "sidecar"
  <2> DEFINE a == AgentStart
             b == <<"ensure", "config", "sync", "ensure", "sync", "token", "bind">>
             p == a \o b
  <2>1. Plan(call) = p
    BY <1>5 DEF Plan
  <2>a. /\ a \in Seq(Steps) /\ Len(a) = 4
        /\ a[1] = "ensure" /\ a[2] = "sync" /\ a[3] = "default" /\ a[4] = "connect"
    BY DEF AgentStart, Steps
  <2>b. /\ b \in Seq(Steps) /\ Len(b) = 7 /\ b[1] = "ensure" /\ b[2] = "config"
        /\ b[3] = "sync" /\ b[4] = "ensure" /\ b[5] = "sync" /\ b[6] = "token" /\ b[7] = "bind"
    BY DEF Steps
  <2> HIDE DEF a, b
  <2>c. /\ p \in Seq(Steps) /\ Len(p) = 11
        /\ \A i \in 1..11 : p[i] = IF i <= 4 THEN a[i] ELSE b[i - 4]
    <3>1. /\ p \in Seq(Steps) /\ Len(p) = Len(a) + Len(b)
          /\ \A i \in 1..Len(a) + Len(b) : p[i] = IF i <= Len(a) THEN a[i] ELSE b[i - Len(a)]
      <4>1. a \in Seq(Steps) /\ b \in Seq(Steps)
        BY <2>a, <2>b
      <4> QED
        BY ONLY <4>1, ConcatProperties
    <3> HIDE DEF p
    <3>2. Len(a) = 4 /\ Len(b) = 7 /\ Len(a) + Len(b) = 11
      BY <2>a, <2>b
    <3> QED
      BY ONLY <3>1, <3>2
  <2> HIDE DEF p
  <2>d. /\ p[1] = "ensure" /\ p[2] = "sync" /\ p[3] = "default" /\ p[4] = "connect"
        /\ p[5] = "ensure" /\ p[6] = "config" /\ p[7] = "sync" /\ p[8] = "ensure"
        /\ p[9] = "sync" /\ p[10] = "token" /\ p[11] = "bind"
    <3>1. \A i \in 1..4 : p[i] = a[i]
      BY <2>c
    <3>2. \A i \in 5..11 : p[i] = b[i - 4]
      BY <2>c
    <3>3. /\ p[1] = a[1] /\ p[2] = a[2] /\ p[3] = a[3] /\ p[4] = a[4]
          /\ p[5] = b[1] /\ p[6] = b[2] /\ p[7] = b[3] /\ p[8] = b[4]
          /\ p[9] = b[5] /\ p[10] = b[6] /\ p[11] = b[7]
      BY <3>1, <3>2
    <3> QED
      BY <3>3, <2>a, <2>b
  <2>2. p # <<>> /\ Head(p) = "ensure"
    <3>1. p \in Seq(Steps) /\ Len(p) = 11
      BY <2>c
    <3>2. p # <<>> /\ Head(p) = p[1]
      BY <3>1
    <3> QED
      BY <3>2, <2>d
  <2>3. Shape(p)
    <3>1. ASSUME NEW i \in 2..11
          PROVE  p[i] \in Inner /\ (p[i] = "bind" => p[i - 1] \in {"token", "generate"})
      <4>1. i \in {2, 3, 4, 5, 6, 7, 8, 9, 10} \/ i = 11
        OBVIOUS
      <4>2. CASE i = 11
        BY <4>2, <2>d DEF Inner, Steps
      <4>3. CASE i \in {2, 3, 4, 5, 6, 7, 8, 9, 10}
        BY <4>3, <2>d DEF Inner, Steps
      <4> QED
        BY <4>1, <4>2, <4>3
    <3> QED
      BY <2>c, <3>1 DEF Shape
  <2> QED
    BY <2>1, <2>2, <2>3, <2>c
<1> QED
  BY <1>1, <1>2, <1>3, <1>4, <1>5 DEF Calls

-----------------------------------------------------------------------------
(* Documents and identities.                                               *)

LEMMA Documents ==
  /\ Default \in Document /\ NoDocument \in Document
  /\ NoIdentity \in AgentIdentity /\ EnvIdentity \in AgentIdentity
  /\ NoIdentity.did = 0 /\ EnvIdentity.did \in Did /\ Did \subseteq Nat \ {0}
  /\ HasRoute(Default)
<1>1. MaxPrice \in Nat \ {0} /\ MaxDid \in Nat /\ MaxDid >= 2 /\ Default.caps \subseteq Capability
  BY IdentityAssumption
<1>2. 0 \in 0..MaxPrice /\ 1 \in 0..MaxPrice /\ 1 \in Did /\ Did \subseteq Nat \ {0}
  BY <1>1 DEF Did
<1>3. {"general"} \subseteq Capability /\ {"general", "mcp"} \subseteq Capability
  BY <1>1 DEF Default
<1> QED
  BY <1>2, <1>3 DEF Default, Document, NoDocument, NoIdentity, EnvIdentity, AgentIdentity, EnvDid, HasRoute

LEMMA Outcomes ==
  ASSUME NEW c \in AgentIdentity
  PROVE  /\ Synced(c) \in AgentIdentity /\ Unsynced(c) \in AgentIdentity
         /\ Synced(c).did = c.did /\ Unsynced(c).did = c.did
         /\ Synced(c).doc = c.doc /\ Unsynced(c).doc = c.doc
         /\ Synced(c).pending = FALSE /\ Unsynced(c).pending = TRUE
BY DEF Synced, Unsynced, AgentIdentity

LEMMA Locals ==
  ASSUME NEW d \in Did
  PROVE  /\ LocalIdentity(d) \in AgentIdentity /\ LocalIdentity(d).did = d
         /\ LocalIdentity(d).doc = Default /\ LocalIdentity(d).pending
BY Documents DEF LocalIdentity, AgentIdentity

LEMMA AppliedIsDocument ==
  ASSUME NEW doc \in Document, NEW e \in Edit, Valid(e)
  PROVE  Applied(doc, e) \in Document
<1>1. MaxPrice \in Nat \ {0}
  BY IdentityAssumption
<1>2. e.caps \subseteq Capability /\ e.price \in 0..MaxPrice
  BY <1>1 DEF Edit, Valid
<1>3. doc.caps \subseteq Capability /\ doc.price \in 0..MaxPrice
  BY DEF Document
<1>4. WithCapabilities(doc, e) \in Document
  BY <1>2, <1>3 DEF WithCapabilities, Document
<1>5. Default.caps \subseteq Capability /\ Default.price \in 0..MaxPrice
  BY Documents DEF Document
<1>6. Normal(doc).caps \subseteq Capability /\ Normal(doc).price \in 0..MaxPrice
  BY <1>3, <1>5 DEF Normal
<1>7. WithRoute(doc, e) \in Document
  <2>1. \A d : d.caps \subseteq Capability /\ d.price \in 0..MaxPrice => Normal(d) \in Document
    BY <1>5 DEF Normal, Document
  <2> QED
    BY <1>2, <1>5, <1>6, <2>1 DEF WithRoute
<1> QED
  BY <1>4, <1>7 DEF Applied

\* What a declaration that does not ask for it leaves alone.
LEMMA AppliedKeeps ==
  ASSUME NEW doc \in Document, NEW e \in Edit, HasRoute(doc)
  PROVE  /\ HasRoute(Applied(doc, e))
         /\ \A c \in doc.caps \ Applied(doc, e).caps : Drops(e, c)
         /\ ~Prices(e) => Applied(doc, e).price = doc.price
<1>1. e.kind \in {"caps", "route"}
  BY DEF Edit
<1>2. CASE e.kind = "caps"
  <2>1. Applied(doc, e) = [doc EXCEPT !.caps = IF e.replace THEN e.caps ELSE @ \cup e.caps]
    BY <1>2 DEF Applied, WithCapabilities
  <2>2. Applied(doc, e).price = doc.price
        /\ Applied(doc, e).caps = IF e.replace THEN e.caps ELSE doc.caps \cup e.caps
    BY <2>1 DEF Document
  <2> QED
    BY <2>2 DEF HasRoute, Drops
<1>3. CASE e.kind = "route"
  <2>1. Applied(doc, e) = WithRoute(doc, e)
    BY <1>3 DEF Applied
  <2>2. Normal(doc).price = doc.price /\ doc.caps \subseteq Normal(doc).caps
    BY DEF Normal
  <2>3. Default.price # 0
    BY DEF Default
  <2> DEFINE existing == IF e.replace THEN Default ELSE Normal(doc)
             merged   == [caps  |-> IF e.given THEN e.caps ELSE existing.caps,
                          price |-> IF e.price # 0 THEN e.price ELSE existing.price]
  <2>4. existing.price # 0 /\ merged.price # 0 /\ WithRoute(doc, e) = Normal(merged)
    BY <2>2, <2>3 DEF WithRoute, HasRoute
  <2>5. Normal(merged).price = merged.price /\ merged.caps \subseteq Normal(merged).caps
    BY <2>4 DEF Normal, HasRoute
  <2>6. \A c \in doc.caps \ merged.caps : Drops(e, c)
    BY <1>3, <2>2 DEF Drops
  <2>7. ~Prices(e) => merged.price = doc.price
    BY <1>3, <2>2 DEF Prices
  <2> QED
    BY <2>1, <2>4, <2>5, <2>6, <2>7 DEF HasRoute
<1> QED
  BY <1>1, <1>2, <1>3

LEMMA Changed ==
  ASSUME NEW c \in AgentIdentity, NEW e \in Edit, Valid(e)
  PROVE  LET changed == [c EXCEPT !.doc = Applied(@, e), !.pending = TRUE]
         IN  /\ changed \in AgentIdentity /\ changed.did = c.did
             /\ changed.doc = Applied(c.doc, e) /\ changed.pending
BY AppliedIsDocument DEF AgentIdentity

-----------------------------------------------------------------------------
(* What a step does to the calls.                                          *)

OthersStay(t) == \A u \in Task \ {t} : task'[u] = task[u]

LEMMA DoneFields ==
  /\ Done \in TaskState /\ Done.todo = <<>> /\ Done.phase = "go" /\ Done.token = 0
  /\ NoEdit \in Edit
<1>1. NoEdit \in Edit
  BY DEF NoEdit, Edit
<1> QED
  BY <1>1, Documents DEF Done, TaskState

LEMMA TaskSet ==
  ASSUME task \in [Task -> TaskState], NEW t \in Task, NEW c \in TaskState,
         task' = [task EXCEPT ![t] = c]
  PROVE  task' \in [Task -> TaskState] /\ task'[t] = c /\ OthersStay(t)
BY DEF OthersStay

LEMMA ThrowFields ==
  ASSUME task \in [Task -> TaskState], NEW t \in Task, Throw(t)
  PROVE  task' \in [Task -> TaskState] /\ task'[t] = Done /\ OthersStay(t)
BY DoneFields, TaskSet DEF Throw

LEMMA ThenFields ==
  ASSUME task \in [Task -> TaskState], NEW t \in Task, task[t].todo # <<>>,
         NEW cur \in AgentIdentity, NEW first \in Seq(Steps), Then(t, cur, first)
  PROVE  /\ task' \in [Task -> TaskState] /\ OthersStay(t)
         /\ task'[t].todo = first \o Tail(task[t].todo) /\ task'[t].cur = cur
         /\ task'[t].phase = "go" /\ task'[t].token = task[t].token
<1> DEFINE todo == first \o Tail(task[t].todo)
           c == [task[t] EXCEPT !.todo = todo, !.cur = cur, !.phase = "go"]
<1>1. task[t] \in TaskState /\ task[t].todo \in Seq(Steps)
  BY DEF TaskState
<1>2. todo \in Seq(Steps)
  BY <1>1, JoinSeq
<1>3. task' = [task EXCEPT ![t] = c]
  BY DEF Then, Rest
<1> HIDE DEF todo
<1>4. c \in TaskState /\ c.todo = todo /\ c.cur = cur /\ c.phase = "go" /\ c.token = task[t].token
  BY <1>1, <1>2 DEF TaskState
<1> HIDE DEF c
<1> QED
  BY <1>3, <1>4, TaskSet DEF todo

LEMMA BeginFields ==
  ASSUME task \in [Task -> TaskState], NEW t \in Task, NEW call \in Calls, NEW e \in Edit,
         Begin(t, call, e)
  PROVE  /\ task' \in [Task -> TaskState] /\ OthersStay(t) /\ task'[t].phase = "go"
         /\ task'[t].todo = Plan(call) /\ task'[t].cur = NoIdentity
<1> DEFINE c == [Done EXCEPT !.todo = Plan(call), !.edit = e]
<1>1. Plan(call) \in Seq(Steps)
  BY Plans
<1>2. c \in TaskState /\ c.todo = Plan(call) /\ c.cur = NoIdentity /\ c.phase = "go"
  BY <1>1, DoneFields DEF TaskState, Done
<1>3. task' = [task EXCEPT ![t] = c]
  BY DEF Begin
<1> HIDE DEF c
<1> QED
  BY <1>2, <1>3, TaskSet

LEMMA PhaseFields ==
  ASSUME task \in [Task -> TaskState], NEW t \in Task,
         NEW phase \in {"go", "wait", "ok", "failed"}, task' = [task EXCEPT ![t].phase = phase]
  PROVE  /\ task' \in [Task -> TaskState] /\ OthersStay(t) /\ task'[t].phase = phase
         /\ task'[t].todo = task[t].todo /\ task'[t].cur = task[t].cur
         /\ task'[t].token = task[t].token
<1> DEFINE c == [task[t] EXCEPT !.phase = phase]
<1>1. task[t] \in TaskState
  OBVIOUS
<1>2. /\ c \in TaskState /\ c.todo = task[t].todo /\ c.cur = task[t].cur
      /\ c.phase = phase /\ c.token = task[t].token
  BY <1>1 DEF TaskState
<1>3. task' = [task EXCEPT ![t] = c]
  OBVIOUS
<1> HIDE DEF c
<1> QED
  BY <1>2, <1>3, TaskSet

LEMMA TokenFields ==
  ASSUME task \in [Task -> TaskState], NEW t \in Task, task[t].todo # <<>>,
         NEW token \in Nat, NEW todo \in Seq(Steps),
         task' = [task EXCEPT ![t].token = token, ![t].todo = todo]
  PROVE  /\ task' \in [Task -> TaskState] /\ OthersStay(t) /\ task'[t].phase = task[t].phase
         /\ task'[t].todo = todo /\ task'[t].cur = task[t].cur /\ task'[t].token = token
<1> DEFINE c == [task[t] EXCEPT !.token = token, !.todo = todo]
<1>1. task[t] \in TaskState
  OBVIOUS
<1>2. /\ c \in TaskState /\ c.todo = todo /\ c.cur = task[t].cur
      /\ c.phase = task[t].phase /\ c.token = token
  BY <1>1 DEF TaskState
<1>3. task' = [task EXCEPT ![t] = c]
  OBVIOUS
<1> HIDE DEF c
<1> QED
  BY <1>2, <1>3, TaskSet

LEMMA ServeFields ==
  ASSUME task \in [Task -> TaskState], NEW t \in Task,
         task' = [task EXCEPT ![t].todo = <<"serve">>, ![t].cur = NoIdentity]
  PROVE  /\ task' \in [Task -> TaskState] /\ OthersStay(t) /\ task'[t].phase = task[t].phase
         /\ task'[t].todo = <<"serve">> /\ task'[t].token = task[t].token
<1> DEFINE c == [task[t] EXCEPT !.todo = <<"serve">>, !.cur = NoIdentity]
<1>1. task[t] \in TaskState /\ <<"serve">> \in Seq(Steps)
  BY DEF Steps
<1>2. /\ c \in TaskState /\ c.todo = <<"serve">> /\ c.phase = task[t].phase
      /\ c.token = task[t].token
  BY <1>1, Documents DEF TaskState
<1>3. task' = [task EXCEPT ![t] = c]
  OBVIOUS
<1> HIDE DEF c
<1> QED
  BY <1>2, <1>3, TaskSet

\* The answer to a registration reaches the call that waits for it.
LEMMA ToldFields ==
  ASSUME task \in [Task -> TaskState], NEW r, r.task \in Task, r.open \in BOOLEAN,
         NEW phase \in {"go", "wait", "ok", "failed"}, Told(r, phase)
  PROVE  /\ task' \in [Task -> TaskState]
         /\ \A t \in Task : /\ task'[t].todo = task[t].todo /\ task'[t].cur = task[t].cur
                            /\ task'[t].token = task[t].token
         /\ r.open => OthersStay(r.task) /\ task'[r.task].phase = phase
         /\ ~r.open => task' = task
<1>1. CASE r.open
  <2>1. task' = [task EXCEPT ![r.task].phase = phase]
    BY <1>1 DEF Told
  <2> QED
    BY <1>1, <2>1, PhaseFields DEF OthersStay
<1>2. CASE ~r.open
  BY <1>2 DEF Told
<1> QED
  BY <1>1, <1>2

\* A number that no call and no file holds is left.
LEMMA FreshTokenIsNew ==
  ASSUME task \in [Task -> TaskState], tokenfile \in Nat
  PROVE  FreshToken \in Nat \ {0}
<1> DEFINE f      == [u \in Task |-> task[u].token]
           T      == {task[u].token : u \in Task}
           held   == {tokenfile} \cup T
           n      == Cardinality(Task)
           room   == 1..n + 2
<1>1. IsFiniteSet(Task) /\ n \in Nat
  BY IdentityAssumption, FS_CardinalityType
<1>2. IsFiniteSet(T) /\ Cardinality(T) <= n
  <2>1. f \in Surjection(Task, T)
    BY DEF Surjection
  <2> HIDE DEF T, f
  <2> QED
    BY <1>1, <2>1, FS_Surjection
<1>3. IsFiniteSet(held) /\ Cardinality(held) <= n + 1
  <2>1. IsFiniteSet(T \cup {tokenfile}) /\ Cardinality(T) \in Nat
        /\ Cardinality(T \cup {tokenfile}) = IF tokenfile \in T THEN Cardinality(T) ELSE Cardinality(T) + 1
    BY <1>2, FS_AddElement, FS_CardinalityType
  <2>2. held = T \cup {tokenfile}
    OBVIOUS
  <2> HIDE DEF T, held
  <2> QED
    BY <1>1, <1>2, <2>1, <2>2
<1>4. Cardinality(room) = n + 2 /\ Cardinality(held) \in Nat
  <2>1. 1 \in Int /\ n + 2 \in Int /\ ~(1 > n + 2) /\ (n + 2) - 1 + 1 = n + 2
    BY <1>1
  <2> HIDE DEF n, held
  <2>2. Cardinality(room) = IF 1 > n + 2 THEN 0 ELSE (n + 2) - 1 + 1
    BY <2>1, FS_Interval
  <2> QED
    BY <2>1, <2>2, <1>3, FS_CardinalityType
<1>5. \E k \in room : k \notin held
  <2> HIDE DEF held, room, n
  <2>1. SUFFICES ASSUME room \subseteq held
                 PROVE  FALSE
    OBVIOUS
  <2>2. Cardinality(room) <= Cardinality(held)
    BY <2>1, <1>3, FS_Subset
  <2> QED
    BY <2>2, <1>1, <1>3, <1>4
<1>6. FreshToken = CHOOSE k \in room : k \notin held
  BY DEF FreshToken
<1>7. FreshToken \in room
  <2> HIDE DEF held, room
  <2> QED
    BY <1>5, <1>6
<1> QED
  BY <1>1, <1>7

-----------------------------------------------------------------------------
(* The types, with what makes them inductive: once a call is past          *)
(* ensureIdentity it works on an identity with a DID.                      *)

Known(t) ==
  task[t].todo # <<>> /\ Head(task[t].todo) \notin {"ensure", "create", "serve"}
    => task[t].cur.did \in Did

CallsTyped ==
  /\ task \in [Task -> TaskState]
  /\ \A t \in Task : Shape(task[t].todo) /\ Known(t)

RestTyped ==
  /\ scene \in Scenario
  /\ file \in AgentIdentity /\ torn \in BOOLEAN
  /\ core \in [Did -> Document]
  /\ posts \subseteq Request /\ \A r \in posts : r.did \in Did
  /\ tokenfile \in Nat /\ made \in Did /\ faults \in Nat

Typed == CallsTyped /\ RestTyped

LEMMA TypedIsTypeOK == Typed => TypeOK
BY DEF Typed, CallsTyped, RestTyped, TypeOK

LEMMA TodoTyped ==
  ASSUME CallsTyped, NEW t \in Task
  PROVE  /\ task[t] \in TaskState /\ task[t].todo \in Seq(Steps) /\ Shape(task[t].todo)
         /\ task[t].cur \in AgentIdentity /\ task[t].edit \in Edit
         /\ task[t].phase \in {"go", "wait", "ok", "failed"} /\ task[t].token \in Nat
BY DEF CallsTyped, TaskState

\* Calls that stay as they are stay well-typed; the one that moves has to.
LEMMA OneCallTyped ==
  ASSUME CallsTyped, NEW t \in Task, task' \in [Task -> TaskState], OthersStay(t),
         Shape(task'[t].todo), Known(t)'
  PROVE  CallsTyped'
<1>1. ASSUME NEW u \in Task, u # t
      PROVE  Shape(task'[u].todo) /\ Known(u)'
  <2>1. task'[u] = task[u]
    BY <1>1 DEF OthersStay
  <2> QED
    BY <2>1 DEF CallsTyped, Known
<1> QED
  BY <1>1 DEF CallsTyped

\* A step that is over, and leaves the next one.
LEMMA ThenNext ==
  ASSUME CallsTyped, NEW t \in Task, task[t].todo # <<>>, NEW cur \in AgentIdentity,
         cur.did \in Did, Then(t, cur, <<>>)
  PROVE  /\ CallsTyped' /\ OthersStay(t)
         /\ task'[t].cur = cur /\ task'[t].phase = "go" /\ task'[t].token = task[t].token
         /\ task'[t].todo # <<>> =>
              /\ Head(task'[t].todo) \in Inner
              /\ Head(task'[t].todo) = "bind" => Head(task[t].todo) \in {"token", "generate"}
<1>1. task[t].todo \in Seq(Steps) /\ Shape(task[t].todo)
  BY TodoTyped
<1> DEFINE f == <<>>
<1>a. f \in Seq(Steps)
  OBVIOUS
<1>b. Then(t, cur, f)
  OBVIOUS
<1> HIDE DEF f
<1>2. /\ task' \in [Task -> TaskState] /\ OthersStay(t)
      /\ task'[t].todo = f \o Tail(task[t].todo) /\ task'[t].cur = cur
      /\ task'[t].phase = "go" /\ task'[t].token = task[t].token
  BY <1>a, <1>b, ThenFields DEF CallsTyped
<1> DEFINE r == task'[t].todo
<1>3. /\ Shape(r)
      /\ r # <<>> =>
              /\ Head(r) \in Inner
              /\ Head(r) = "bind" => Head(task[t].todo) \in {"token", "generate"}
  BY <1>1, <1>2, NextStep DEF f
<1>4. Known(t)'
  BY <1>2 DEF Known
<1> QED
  BY <1>2, <1>3, <1>4, OneCallTyped

\* A step that decides on others.
LEMMA ThenFirst ==
  ASSUME CallsTyped, NEW t \in Task, task[t].todo # <<>>, NEW cur \in AgentIdentity,
         NEW f \in {<<"sync">>, <<"create", "sync">>, <<"ensure", "route", "sync">>},
         cur.did \in Did \/ f[1] = "create",
         Head(task[t].todo) \notin {"token", "generate"}, Then(t, cur, f)
  PROVE  /\ CallsTyped' /\ OthersStay(t)
         /\ task'[t].cur = cur /\ task'[t].phase = "go" /\ task'[t].token = task[t].token
         /\ task'[t].todo # <<>> /\ Head(task'[t].todo) = f[1]
<1>1. task[t].todo \in Seq(Steps) /\ Shape(task[t].todo)
  BY TodoTyped
<1>2. f \in Seq(Steps) /\ f # <<>> /\ Shape(f)
  BY Firsts
<1>3. /\ task' \in [Task -> TaskState] /\ OthersStay(t)
      /\ task'[t].todo = f \o Tail(task[t].todo) /\ task'[t].cur = cur
      /\ task'[t].phase = "go" /\ task'[t].token = task[t].token
  BY <1>2, ThenFields DEF CallsTyped
<1> DEFINE r == task'[t].todo
<1>4. Shape(r) /\ r # <<>> /\ Head(r) = f[1]
  BY <1>1, <1>2, <1>3, FirstSteps
<1>5. Known(t)'
  BY <1>3, <1>4 DEF Known
<1> QED
  BY <1>3, <1>4, <1>5, OneCallTyped

LEMMA ThrowTyped ==
  ASSUME CallsTyped, NEW t \in Task, Throw(t)
  PROVE  CallsTyped' /\ OthersStay(t) /\ task'[t] = Done
<1>1. task' \in [Task -> TaskState] /\ task'[t] = Done /\ OthersStay(t)
  BY ThrowFields DEF CallsTyped
<1>2. Shape(task'[t].todo) /\ Known(t)'
  <2>1. Len(<<>>) = 0
    OBVIOUS
  <2> QED
    BY <1>1, <2>1, DoneFields DEF Shape, Known
<1> QED
  BY <1>1, <1>2, OneCallTyped

\* A step that leaves the steps and the identity of every call alone.
LEMMA SameCallsTyped ==
  ASSUME CallsTyped, task' \in [Task -> TaskState],
         \A t \in Task : task'[t].todo = task[t].todo /\ task'[t].cur = task[t].cur
  PROVE  CallsTyped'
BY DEF CallsTyped, Known

-----------------------------------------------------------------------------
(* The effect of each step on the calls.                                   *)

\* The call goes on with this identity, by a step of its plan.
MovesOn(t, cur) ==
  /\ CallsTyped' /\ OthersStay(t)
  /\ task'[t].cur = cur /\ task'[t].phase = "go" /\ task'[t].token = task[t].token
  /\ task'[t].todo # <<>> => Head(task'[t].todo) \in Inner \ {"bind"}

LEMMA ThenMovesOn ==
  ASSUME CallsTyped, NEW t \in Task, task[t].todo # <<>>, NEW cur \in AgentIdentity,
         cur.did \in Did, Head(task[t].todo) \notin {"token", "generate"},
         NEW f \in {<<>>, <<"sync">>, <<"ensure", "route", "sync">>}, Then(t, cur, f)
  PROVE  MovesOn(t, cur)
<1>1. CASE f = <<>>
  BY <1>1, ThenNext DEF MovesOn
<1>2. CASE f # <<>>
  <2>1. f \in {<<"sync">>, <<"create", "sync">>, <<"ensure", "route", "sync">>}
        /\ f[1] \in Inner \ {"bind"}
    BY <1>2 DEF Inner, Steps
  <2> QED
    BY <2>1, ThenFirst DEF MovesOn
<1> QED
  BY <1>1, <1>2

\* Where a call at one of these steps stands.
LEMMA AtKnown ==
  ASSUME CallsTyped, NEW t \in Task, NEW step, At(t, step), step \notin {"ensure", "create", "serve"}
  PROVE  /\ task[t].todo # <<>> /\ Head(task[t].todo) = step
         /\ task[t].cur \in AgentIdentity /\ task[t].cur.did \in Did
BY TodoTyped DEF At, CallsTyped, Known

LEMMA AskedIsEdit ==
  ASSUME CallsTyped, NEW t \in Task, AtEdit(t)
  PROVE  Asked(t) \in Edit
<1>1. task[t].edit \in Edit
  BY TodoTyped
<1>2. Configured \subseteq Capability /\ Default.caps \subseteq Capability /\ Default.price \in Nat
  BY IdentityAssumption DEF Default
<1>3. \A caps \in SUBSET Capability : RouteOf(caps) \in Edit
  BY <1>2 DEF RouteOf, Edit
<1> QED
  BY <1>1, <1>2, <1>3 DEF AtEdit, At, Asked

LEMMA DeclareEffect ==
  ASSUME CallsTyped, NEW t \in Task, Declare(t)
  PROVE  LET changed == [task[t].cur EXCEPT !.doc = Applied(@, Asked(t)), !.pending = TRUE]
         IN  /\ MovesOn(t, changed) /\ file' = changed /\ torn' = FALSE
             /\ changed \in AgentIdentity /\ changed.did = task[t].cur.did /\ changed.did \in Did
             /\ changed.doc = Applied(task[t].cur.doc, Asked(t)) /\ changed.pending
             /\ Asked(t) \in Edit
<1> DEFINE changed == [task[t].cur EXCEPT !.doc = Applied(@, Asked(t)), !.pending = TRUE]
<1>1. /\ task[t].todo # <<>> /\ Head(task[t].todo) \in {"edit", "route", "config"}
      /\ task[t].cur \in AgentIdentity /\ task[t].cur.did \in Did
  BY AtKnown DEF Declare, AtEdit
<1>2. Asked(t) \in Edit /\ Valid(Asked(t))
  BY AskedIsEdit DEF Declare
<1>3. /\ changed \in AgentIdentity /\ changed.did = task[t].cur.did
      /\ changed.doc = Applied(task[t].cur.doc, Asked(t)) /\ changed.pending
  BY <1>1, <1>2, Changed
<1>4. Then(t, changed, <<>>) /\ file' = changed /\ torn' = FALSE
  BY DEF Declare, Save
<1> HIDE DEF changed
<1>5. MovesOn(t, changed)
  BY <1>1, <1>3, <1>4, ThenMovesOn
<1> QED
  BY <1>1, <1>2, <1>3, <1>4, <1>5 DEF changed

LEMMA SaveOutcomeEffect ==
  ASSUME CallsTyped, NEW t \in Task, SaveOutcome(t)
  PROVE  LET outcome == IF task[t].phase = "ok" THEN Synced(task[t].cur) ELSE Unsynced(task[t].cur)
         IN  /\ MovesOn(t, outcome) /\ file' = outcome /\ torn' = FALSE
             /\ outcome \in AgentIdentity /\ outcome.did = task[t].cur.did /\ outcome.did \in Did
             /\ outcome.doc = task[t].cur.doc
             /\ ~outcome.pending => task[t].phase = "ok"
<1> DEFINE outcome == IF task[t].phase = "ok" THEN Synced(task[t].cur) ELSE Unsynced(task[t].cur)
<1>1. /\ task[t].todo # <<>> /\ Head(task[t].todo) = "sync"
      /\ task[t].cur \in AgentIdentity /\ task[t].cur.did \in Did
  BY AtKnown DEF SaveOutcome
<1>2. /\ outcome \in AgentIdentity /\ outcome.did = task[t].cur.did
      /\ outcome.doc = task[t].cur.doc /\ (~outcome.pending => task[t].phase = "ok")
  BY <1>1, Outcomes
<1>3. Then(t, outcome, <<>>) /\ file' = outcome /\ torn' = FALSE
  BY DEF SaveOutcome, Save
<1> HIDE DEF outcome
<1>4. MovesOn(t, outcome)
  BY <1>1, <1>2, <1>3, ThenMovesOn
<1> QED
  BY <1>1, <1>2, <1>3, <1>4 DEF outcome

LEMMA CreateEffect ==
  ASSUME CallsTyped, made \in Did, NEW t \in Task, Create(t)
  PROVE  /\ MovesOn(t, LocalIdentity(made + 1)) /\ file' = LocalIdentity(made + 1)
         /\ torn' = FALSE /\ made + 1 \in Did
         /\ file'.did = made + 1 /\ file'.doc = Default /\ file'.pending
         /\ file' \in AgentIdentity
<1>1. made + 1 \in Did
  BY Documents, IdentityAssumption DEF Create, Did
<1>2. /\ LocalIdentity(made + 1) \in AgentIdentity /\ LocalIdentity(made + 1).did = made + 1
      /\ LocalIdentity(made + 1).doc = Default /\ LocalIdentity(made + 1).pending
  BY <1>1, Locals
<1>3. /\ task[t].todo # <<>> /\ Head(task[t].todo) = "create"
      /\ Then(t, LocalIdentity(made + 1), <<>>) /\ file' = LocalIdentity(made + 1) /\ torn' = FALSE
  BY DEF Create, At, Save
<1>4. MovesOn(t, LocalIdentity(made + 1))
  <2> DEFINE c == LocalIdentity(made + 1)
  <2>1. c \in AgentIdentity /\ c.did \in Did /\ Then(t, c, <<>>)
    BY <1>1, <1>2, <1>3
  <2> HIDE DEF c
  <2>2. MovesOn(t, c)
    BY <2>1, <1>3, ThenMovesOn
  <2> QED
    BY <2>2 DEF c
<1> QED
  BY <1>1, <1>2, <1>3, <1>4

LEMMA EnsuredEffect ==
  ASSUME CallsTyped, file \in AgentIdentity, NEW t \in Task
  PROVE  /\ EnsureFromEnv(t) => MovesOn(t, EnvIdentity)
         /\ EnsureStored(t) => MovesOn(t, file)
         /\ EnsureMissing(t) =>
              /\ CallsTyped' /\ OthersStay(t) /\ task'[t].phase = "go"
              /\ task'[t].token = task[t].token
              /\ task'[t].todo # <<>> /\ Head(task'[t].todo) = "create"
<1>1. ASSUME EnsureFromEnv(t)
      PROVE  MovesOn(t, EnvIdentity)
  BY <1>1, Documents, ThenMovesOn DEF EnsureFromEnv, At
<1>2. ASSUME EnsureStored(t)
      PROVE  MovesOn(t, file)
  <2>1. file.did \in Did
    BY <1>2 DEF EnsureStored, AgentIdentity
  <2>2. PICK f \in {<<>>, <<"sync">>, <<"ensure", "route", "sync">>} : Then(t, file, f)
    BY <1>2 DEF EnsureStored
  <2> QED
    BY <1>2, <2>1, <2>2, ThenMovesOn DEF EnsureStored, At
<1>3. ASSUME EnsureMissing(t)
      PROVE  /\ CallsTyped' /\ OthersStay(t) /\ task'[t].phase = "go"
             /\ task'[t].token = task[t].token
             /\ task'[t].todo # <<>> /\ Head(task'[t].todo) = "create"
  <2> DEFINE f == <<"create", "sync">>
  <2>1. f \in {<<"sync">>, <<"create", "sync">>, <<"ensure", "route", "sync">>} /\ f[1] = "create"
        /\ Then(t, NoIdentity, f)
    BY <1>3 DEF EnsureMissing
  <2> HIDE DEF f
  <2> QED
    BY <1>3, <2>1, Documents, ThenFirst DEF EnsureMissing, At
<1> QED
  BY <1>1, <1>2, <1>3

\* The steps that only decide how the call goes on.
Continues(t) == DefaultRoute(t) \/ Resync(t) \/ Connect(t)

LEMMA ContinuesEffect ==
  ASSUME CallsTyped, NEW t \in Task, Continues(t)
  PROVE  /\ MovesOn(t, task[t].cur)
         /\ \E step \in {"default", "resync", "connect"} : At(t, step)
         /\ UNCHANGED <<scene, file, torn, core, posts, tokenfile, made, faults>>
<1>1. PICK step \in {"default", "resync", "connect"} : At(t, step)
  BY DEF Continues, DefaultRoute, Resync, Connect
<1>2. /\ task[t].todo # <<>> /\ Head(task[t].todo) \notin {"token", "generate"}
      /\ task[t].cur \in AgentIdentity /\ task[t].cur.did \in Did
  BY <1>1, AtKnown
<1>3. PICK f \in {<<>>, <<"sync">>, <<"ensure", "route", "sync">>} : Then(t, task[t].cur, f)
  <2>1. CASE DefaultRoute(t)
    BY <2>1 DEF DefaultRoute
  <2>2. CASE Resync(t)
    BY <2>2 DEF Resync
  <2>3. CASE Connect(t)
    BY <2>3 DEF Connect
  <2> QED
    BY <2>1, <2>2, <2>3 DEF Continues
<1>4. MovesOn(t, task[t].cur)
  BY <1>2, <1>3, ThenMovesOn
<1> QED
  BY <1>1, <1>4 DEF Continues, DefaultRoute, Resync, Connect

\* The steps that end a call.
Ends(t) == EnsureTorn(t) \/ DeclareInvalid(t) \/ ConnectFails(t) \/ Stop(t)

LEMMA EndsEffect ==
  ASSUME CallsTyped, faults \in Nat, NEW t \in Task, Ends(t)
  PROVE  /\ CallsTyped' /\ OthersStay(t) /\ task'[t] = Done
         /\ (\E step \in {"ensure", "edit", "route", "config", "connect"} : At(t, step)) \/ Serving(t)
         /\ UNCHANGED <<scene, file, torn, core, posts, tokenfile, made>> /\ faults' \in Nat
<1>1. Throw(t)
  BY DEF Ends, EnsureTorn, DeclareInvalid, ConnectFails, Stop
<1>2. CallsTyped' /\ OthersStay(t) /\ task'[t] = Done
  BY <1>1, ThrowTyped
<1>3. (\E step \in {"ensure", "edit", "route", "config", "connect"} : At(t, step)) \/ Serving(t)
  BY DEF Ends, EnsureTorn, DeclareInvalid, ConnectFails, Stop, AtEdit
<1>4. UNCHANGED <<scene, file, torn, core, posts, tokenfile, made>> /\ faults' \in Nat
  BY DEF Ends, EnsureTorn, DeclareInvalid, ConnectFails, Stop, Fault
<1> QED
  BY <1>2, <1>3, <1>4

LEMMA ReadTokenEffect ==
  ASSUME CallsTyped, tokenfile \in Nat, NEW t \in Task, ReadToken(t)
  PROVE  /\ CallsTyped' /\ OthersStay(t) /\ task'[t].cur = task[t].cur
         /\ task'[t].phase = task[t].phase /\ task'[t].token = tokenfile
         /\ tokenfile = 0 => task'[t].todo # <<>> /\ Head(task'[t].todo) = "generate"
         /\ tokenfile # 0 => (task'[t].todo # <<>> => Head(task'[t].todo) \in Inner)
<1> DEFINE s == task[t].todo
           r == task'[t].todo
<1>1. /\ s # <<>> /\ Head(s) = "token" /\ s \in Seq(Steps) /\ Shape(s)
      /\ task[t].cur.did \in Did
  BY AtKnown, TodoTyped DEF ReadToken
<1>2. CASE tokenfile = 0
  <2> DEFINE f == <<"generate">>
  <2>1. f \in Seq(Steps) /\ f # <<>> /\ Shape(f) /\ f[Len(f)] = "generate" /\ f[1] = "generate"
    BY Firsts
  <2>2. task' = [task EXCEPT ![t].token = tokenfile, ![t].todo = f \o Tail(task[t].todo)]
    BY <1>2 DEF ReadToken, Rest
  <2> HIDE DEF f
  <2>3. /\ f \o Tail(s) \in Seq(Steps) /\ Shape(f \o Tail(s)) /\ f \o Tail(s) # <<>>
        /\ Head(f \o Tail(s)) = f[1]
    BY <1>1, <2>1, FirstSteps
  <2> DEFINE q == f \o Tail(s)
  <2>4. task' = [task EXCEPT ![t].token = tokenfile, ![t].todo = q]
        /\ q \in Seq(Steps) /\ Shape(q) /\ q # <<>> /\ Head(q) = "generate"
    BY <2>1, <2>2, <2>3
  <2> HIDE DEF q
  <2>5. /\ task' \in [Task -> TaskState] /\ OthersStay(t) /\ task'[t].phase = task[t].phase
        /\ r = q /\ task'[t].cur = task[t].cur /\ task'[t].token = tokenfile
    BY <1>1, <2>4, TokenFields DEF CallsTyped
  <2>6. Known(t)'
    BY <2>5, <1>1 DEF Known
  <2> QED
    BY <1>2, <2>4, <2>5, <2>6, OneCallTyped
<1>3. CASE tokenfile # 0
  <2> DEFINE q == <<>> \o Tail(s)
  <2>1. task' = [task EXCEPT ![t].token = tokenfile, ![t].todo = q]
    BY <1>3 DEF ReadToken, Rest
  <2>2. q \in Seq(Steps) /\ Shape(q) /\ (q # <<>> => Head(q) \in Inner)
    BY <1>1, NextStep
  <2> HIDE DEF q
  <2>3. /\ task' \in [Task -> TaskState] /\ OthersStay(t) /\ task'[t].phase = task[t].phase
        /\ r = q /\ task'[t].cur = task[t].cur /\ task'[t].token = tokenfile
    BY <1>1, <2>1, <2>2, TokenFields DEF CallsTyped
  <2>4. Known(t)'
    BY <2>3, <1>1 DEF Known
  <2> QED
    BY <1>3, <2>2, <2>3, <2>4, OneCallTyped
<1> QED
  BY <1>2, <1>3

\* Generate takes the step away with Rest, which NextStep has as <<>> \o Tail.
LEMMA GenerateEffect ==
  ASSUME CallsTyped, tokenfile \in Nat, NEW t \in Task, Generate(t)
  PROVE  /\ CallsTyped' /\ OthersStay(t) /\ task'[t].cur = task[t].cur
         /\ task'[t].phase = task[t].phase
         /\ task'[t].token = tokenfile' /\ tokenfile' \in Nat \ {0}
         /\ task'[t].todo # <<>> => Head(task'[t].todo) \in Inner
<1> DEFINE s == task[t].todo
           r == task'[t].todo
           n == FreshToken
           q == <<>> \o Tail(s)
<1>1. /\ s # <<>> /\ Head(s) = "generate" /\ s \in Seq(Steps) /\ Shape(s)
      /\ task[t].cur.did \in Did
  BY AtKnown, TodoTyped DEF Generate
<1>2. n \in Nat \ {0}
  BY FreshTokenIsNew DEF CallsTyped
<1>3. Tail(s) \in Seq(Steps)
  BY <1>1
<1>4. q = Tail(s)
  BY <1>3, ConcatEmptySeq
<1>5. task' = [task EXCEPT ![t].token = n, ![t].todo = q] /\ tokenfile' = n
  BY <1>4 DEF Generate, Rest
<1>6. q \in Seq(Steps) /\ Shape(q) /\ (q # <<>> => Head(q) \in Inner)
  BY <1>1, NextStep
<1> HIDE DEF q, n
<1>7. /\ task' \in [Task -> TaskState] /\ OthersStay(t) /\ task'[t].phase = task[t].phase
      /\ r = q /\ task'[t].cur = task[t].cur /\ task'[t].token = n
  BY <1>1, <1>2, <1>5, <1>6, TokenFields DEF CallsTyped
<1>8. Known(t)'
  BY <1>7, <1>1 DEF Known
<1> QED
  BY <1>2, <1>5, <1>6, <1>7, <1>8, OneCallTyped

\* The port is taken, or the start is over.
LEMMA BindEffect ==
  ASSUME CallsTyped, NEW t \in Task, Bind(t)
  PROVE  /\ CallsTyped' /\ OthersStay(t)
         /\ \/ task'[t] = Done
            \/ /\ task'[t].todo = <<"serve">> /\ task'[t].phase = task[t].phase
               /\ task'[t].token = task[t].token
<1>1. CASE \E u \in Task : Serving(u)
  <2>1. Throw(t)
    BY <1>1 DEF Bind
  <2>2. CallsTyped' /\ OthersStay(t) /\ task'[t] = Done
    BY <2>1, ThrowTyped
  <2> QED
    BY <2>2
<1>2. CASE ~\E u \in Task : Serving(u)
  <2>1. /\ task' \in [Task -> TaskState] /\ OthersStay(t) /\ task'[t].phase = task[t].phase
        /\ task'[t].todo = <<"serve">> /\ task'[t].token = task[t].token
    BY <1>2, ServeFields DEF Bind, CallsTyped
  <2> DEFINE s == <<"serve">>
  <2>2. Len(s) = 1 /\ Head(s) = "serve"
    OBVIOUS
  <2>3. Shape(s)
    BY <2>2 DEF Shape
  <2>4. Known(t)'
    BY <2>1, <2>2 DEF Known
  <2> QED
    BY <2>1, <2>3, <2>4, OneCallTyped
<1> QED
  BY <1>1, <1>2

LEMMA BeginEffect ==
  ASSUME CallsTyped, NEW t \in Task, NEW call \in Calls, NEW e \in scene.edits \cup {NoEdit},
         scene \in Scenario, Begin(t, call, e)
  PROVE  /\ CallsTyped' /\ OthersStay(t) /\ task'[t].phase = "go"
         /\ task'[t].todo # <<>> /\ Head(task'[t].todo) = "ensure"
         /\ scene.overlap \/ \A u \in Task : ~Busy(u)
<1>1. e \in Edit
  BY DoneFields DEF Scenario
<1>2. /\ task' \in [Task -> TaskState] /\ OthersStay(t) /\ task'[t].phase = "go"
      /\ task'[t].todo = Plan(call) /\ task'[t].cur = NoIdentity
  BY <1>1, BeginFields DEF CallsTyped
<1>3. Plan(call) # <<>> /\ Head(Plan(call)) = "ensure" /\ Shape(Plan(call))
  BY Plans
<1>4. Known(t)'
  BY <1>2, <1>3 DEF Known
<1> QED
  BY <1>2, <1>3, <1>4, OneCallTyped DEF Begin

LEMMA PostEffect ==
  ASSUME Typed, NEW t \in Task, Post(t)
  PROVE  /\ CallsTyped' /\ OthersStay(t) /\ task'[t].phase = "wait"
         /\ task'[t].todo = task[t].todo /\ task'[t].cur = task[t].cur
         /\ task'[t].token = task[t].token
         /\ posts' \subseteq Request /\ \A r \in posts' : r.did \in Did
         /\ UNCHANGED <<scene, file, torn, core, tokenfile, made, faults>>
<1>1. CallsTyped /\ posts \subseteq Request /\ \A r \in posts : r.did \in Did
  BY DEF Typed, RestTyped
<1>2. /\ task' \in [Task -> TaskState] /\ OthersStay(t) /\ task'[t].phase = "wait"
      /\ task'[t].todo = task[t].todo /\ task'[t].cur = task[t].cur
      /\ task'[t].token = task[t].token
  BY <1>1, PhaseFields DEF Post, CallsTyped
<1>3. CallsTyped'
  BY <1>1, <1>2, SameCallsTyped DEF OthersStay
<1> DEFINE r == [task |-> t, did |-> task[t].cur.did, doc |-> task[t].cur.doc, open |-> TRUE]
<1>4. task[t].cur \in AgentIdentity /\ task[t].cur.did \in Did
  BY <1>1, AtKnown DEF Post
<1>5. r \in Request /\ r.did \in Did
  BY <1>4 DEF Request, AgentIdentity
<1>6. posts' = posts \cup {r}
  BY DEF Post
<1> HIDE DEF r
<1> QED
  BY <1>1, <1>2, <1>3, <1>5, <1>6 DEF Post

LEMMA AbandonedFields ==
  ASSUME NEW rs, rs \subseteq Request, \A r \in rs : r.did \in Did
  PROVE  /\ Abandoned(rs) \subseteq Request
         /\ \A r \in Abandoned(rs) : r.did \in Did /\ ~r.open
         /\ ~scene.late => Abandoned(rs) = {}
<1>1. \A r \in rs : [r EXCEPT !.open = FALSE] \in Request
        /\ [r EXCEPT !.open = FALSE].did = r.did /\ ~[r EXCEPT !.open = FALSE].open
  BY DEF Request
<1> QED
  BY <1>1 DEF Abandoned

LEMMA AnswerEffect ==
  ASSUME Typed, NEW r \in posts, Apply(r) \/ Refuse(r) \/ Break(r)
  PROVE  /\ CallsTyped' /\ r.task \in Task /\ r.did \in Did /\ r.doc \in Document
         /\ r.open \in BOOLEAN
         /\ \A t \in Task : /\ task'[t].todo = task[t].todo /\ task'[t].cur = task[t].cur
                            /\ task'[t].token = task[t].token
         /\ r.open => OthersStay(r.task)
         /\ r.open => task'[r.task].phase = IF Apply(r) THEN "ok" ELSE "failed"
         /\ ~r.open => task' = task
         /\ posts' \subseteq Request /\ \A q \in posts' : q.did \in Did
         /\ ~scene.late => posts' \subseteq posts \ {r}
         /\ core' = IF Apply(r) THEN [core EXCEPT ![r.did] = r.doc] ELSE core
         /\ faults' \in Nat
         /\ UNCHANGED <<scene, file, torn, tokenfile, made>>
<1>1. /\ CallsTyped /\ posts \subseteq Request /\ (\A q \in posts : q.did \in Did)
      /\ faults \in Nat
  BY DEF Typed, RestTyped
<1>2. r.task \in Task /\ r.did \in Did /\ r.doc \in Document /\ r.open \in BOOLEAN
  BY <1>1 DEF Request
<1>3. PICK phase \in {"ok", "failed"} : Told(r, phase) /\ phase = IF Apply(r) THEN "ok" ELSE "failed"
  <2>1. CASE Apply(r)
    BY <2>1 DEF Apply
  <2>2. CASE ~Apply(r)
    BY <2>2 DEF Refuse, Break
  <2> QED
    BY <2>1, <2>2
<1>4. /\ task' \in [Task -> TaskState]
      /\ \A t \in Task : /\ task'[t].todo = task[t].todo /\ task'[t].cur = task[t].cur
                         /\ task'[t].token = task[t].token
      /\ r.open => OthersStay(r.task) /\ task'[r.task].phase = phase
      /\ ~r.open => task' = task
  BY <1>1, <1>2, <1>3, ToldFields DEF CallsTyped
<1>5. CallsTyped'
  BY <1>1, <1>4, SameCallsTyped
<1>6. /\ Abandoned({r}) \subseteq Request /\ (\A q \in Abandoned({r}) : q.did \in Did)
      /\ ~scene.late => Abandoned({r}) = {}
  BY <1>1, AbandonedFields
<1>7. posts' = posts \ {r} \/ posts' = (posts \ {r}) \cup Abandoned({r})
  BY DEF Apply, Refuse, Break
<1>8. core' = IF Apply(r) THEN [core EXCEPT ![r.did] = r.doc] ELSE core
  BY DEF Apply, Refuse, Break
<1>9. faults' \in Nat /\ UNCHANGED <<scene, file, torn, tokenfile, made>>
  BY <1>1 DEF Apply, Refuse, Break, Fault
<1> QED
  BY <1>1, <1>2, <1>3, <1>4, <1>5, <1>6, <1>7, <1>8, <1>9

LEMMA DieEffect ==
  ASSUME Typed, NEW t \in Task, Die(t)
  PROVE  /\ CallsTyped' /\ OthersStay(t) /\ task'[t] = Done /\ Busy(t)
         /\ posts' \subseteq Request /\ \A q \in posts' : q.did \in Did
         /\ ~scene.late => \A q \in posts' : q \in posts /\ (q.open => q.task # t)
         /\ torn' \in BOOLEAN /\ (torn => torn') /\ faults' \in Nat
         /\ UNCHANGED <<scene, file, core, tokenfile, made>>
<1> DEFINE mine == {r \in posts : r.task = t /\ r.open}
<1>1. /\ CallsTyped /\ posts \subseteq Request /\ (\A q \in posts : q.did \in Did)
      /\ faults \in Nat /\ torn \in BOOLEAN
  BY DEF Typed, RestTyped
<1>2. CallsTyped' /\ OthersStay(t) /\ task'[t] = Done
  BY <1>1, ThrowTyped DEF Die
<1>3. posts' = (posts \ mine) \cup Abandoned(mine)
  BY DEF Die
<1>4. /\ Abandoned(mine) \subseteq Request /\ (\A q \in Abandoned(mine) : q.did \in Did)
      /\ ~scene.late => Abandoned(mine) = {}
  BY <1>1, AbandonedFields
<1>5. torn' \in BOOLEAN /\ (torn => torn')
  BY <1>1 DEF Die, Saves
<1>6. Busy(t) /\ faults' \in Nat /\ UNCHANGED <<scene, file, core, tokenfile, made>>
  BY <1>1 DEF Die, Fault
<1> QED
  BY <1>1, <1>2, <1>3, <1>4, <1>5, <1>6

-----------------------------------------------------------------------------

\* The steps of one call.
Moves(t) ==
  \/ EnsureFromEnv(t) \/ EnsureStored(t) \/ EnsureMissing(t)
  \/ Create(t) \/ Declare(t) \/ SaveOutcome(t) \/ Continues(t) \/ Post(t)
  \/ ReadToken(t) \/ Generate(t) \/ Bind(t) \/ Ends(t) \/ Die(t)

LEMMA NextCases ==
  ASSUME Next
  PROVE  \/ \E t \in Task : Moves(t)
         \/ \E t \in Task, call \in Calls, e \in scene.edits \cup {NoEdit} : Begin(t, call, e)
         \/ \E r \in posts : Apply(r) \/ Refuse(r) \/ Break(r)
<1>1. ASSUME NEW t \in Task, Runs(t) \/ ConnectFails(t) \/ Stop(t) \/ Die(t)
      PROVE  Moves(t)
  BY <1>1 DEF Runs, Moves, Continues, Ends
<1> QED
  BY <1>1 DEF Next, Answers

LEMMA TypesHoldAtFirst == Init => Typed
<1> SUFFICES ASSUME Init
             PROVE  Typed
  OBVIOUS
<1>1. scene \in Scenario /\ 2 \in Did /\ EnvDid \in Did
  BY IdentityAssumption DEF Init, Did, EnvDid
<1>2. file \in AgentIdentity
  BY <1>1, Locals, Outcomes, Documents DEF Init
<1>3. core \in [Did -> Document] /\ made \in Did
  BY <1>1, Documents DEF Init
<1>4. task \in [Task -> TaskState] /\ \A t \in Task : task[t] = Done
  BY DoneFields DEF Init
<1>5. \A t \in Task : Shape(task[t].todo) /\ Known(t)
  <2>1. Len(<<>>) = 0
    OBVIOUS
  <2> QED
    BY <1>4, <2>1, DoneFields DEF Shape, Known
<1> QED
  BY <1>1, <1>2, <1>3, <1>4, <1>5 DEF Init, Typed, CallsTyped, RestTyped

LEMMA MoveTyped ==
  ASSUME Typed, NEW t \in Task, Moves(t)
  PROVE  Typed'
<1>1. CallsTyped /\ RestTyped
  BY DEF Typed
<1>2. CASE EnsureFromEnv(t)
  BY <1>1, <1>2, EnsuredEffect DEF MovesOn, EnsureFromEnv, Typed, RestTyped
<1>3. CASE EnsureStored(t)
  BY <1>1, <1>3, EnsuredEffect DEF MovesOn, EnsureStored, Typed, RestTyped
<1>4. CASE EnsureMissing(t)
  BY <1>1, <1>4, EnsuredEffect DEF EnsureMissing, Typed, RestTyped
<1>5. CASE Create(t)
  <2>1. made \in Did /\ made' = made + 1 /\ UNCHANGED <<scene, core, posts, tokenfile, faults>>
    BY <1>1, <1>5 DEF RestTyped, Create
  <2> QED
    BY <1>1, <1>5, <2>1, CreateEffect DEF MovesOn, Typed, RestTyped
<1>6. CASE Declare(t)
  <2>1. UNCHANGED <<scene, core, posts, tokenfile, made, faults>>
    BY <1>6 DEF Declare
  <2> QED
    BY <1>1, <1>6, <2>1, DeclareEffect DEF MovesOn, Typed, RestTyped
<1>7. CASE SaveOutcome(t)
  <2>1. UNCHANGED <<scene, core, posts, tokenfile, made, faults>>
    BY <1>7 DEF SaveOutcome
  <2> QED
    BY <1>1, <1>7, <2>1, SaveOutcomeEffect DEF MovesOn, Typed, RestTyped
<1>8. CASE Continues(t)
  BY <1>1, <1>8, ContinuesEffect DEF MovesOn, Typed, RestTyped
<1>9. CASE Post(t)
  BY <1>1, <1>9, PostEffect DEF Typed, RestTyped
<1>10. CASE ReadToken(t)
  <2>1. UNCHANGED <<scene, file, torn, core, posts, tokenfile, made, faults>>
    BY <1>10 DEF ReadToken
  <2>2. CallsTyped'
    BY <1>1, <1>10, ReadTokenEffect DEF RestTyped
  <2> QED
    BY <1>1, <2>1, <2>2 DEF Typed, RestTyped
<1>11. CASE Generate(t)
  <2>1. UNCHANGED <<scene, file, torn, core, posts, made, faults>>
    BY <1>11 DEF Generate
  <2>2. CallsTyped' /\ tokenfile' \in Nat
    BY <1>1, <1>11, GenerateEffect DEF RestTyped
  <2> QED
    BY <1>1, <2>1, <2>2 DEF Typed, RestTyped
<1>12. CASE Bind(t)
  BY <1>1, <1>12, BindEffect DEF Bind, Typed, RestTyped
<1>13. CASE Ends(t)
  BY <1>1, <1>13, EndsEffect DEF Typed, RestTyped
<1>14. CASE Die(t)
  BY <1>1, <1>14, DieEffect DEF Typed, RestTyped
<1> QED
  BY <1>2, <1>3, <1>4, <1>5, <1>6, <1>7, <1>8, <1>9, <1>10, <1>11, <1>12, <1>13, <1>14 DEF Moves

LEMMA TypesKept == Typed /\ [Next]_vars => Typed'
<1> SUFFICES ASSUME Typed, [Next]_vars
             PROVE  Typed'
  OBVIOUS
<1>1. CASE Next
  <2>1. ASSUME NEW t \in Task, Moves(t)
        PROVE  Typed'
    BY <2>1, MoveTyped
  <2>2. ASSUME NEW t \in Task, NEW call \in Calls, NEW e \in scene.edits \cup {NoEdit},
               Begin(t, call, e)
        PROVE  Typed'
    <3>1. scene \in Scenario /\ CallsTyped
      BY DEF Typed, RestTyped
    <3>2. CallsTyped'
      BY <2>2, <3>1, BeginEffect
    <3> QED
      BY <2>2, <3>2 DEF Begin, Typed, RestTyped
  <2>3. ASSUME NEW r \in posts, Apply(r) \/ Refuse(r) \/ Break(r)
        PROVE  Typed'
    <3>1. /\ CallsTyped' /\ r.did \in Did /\ r.doc \in Document
          /\ posts' \subseteq Request /\ (\A q \in posts' : q.did \in Did)
          /\ core' = (IF Apply(r) THEN [core EXCEPT ![r.did] = r.doc] ELSE core)
          /\ faults' \in Nat
          /\ UNCHANGED <<scene, file, torn, tokenfile, made>>
      BY <2>3, AnswerEffect
    <3>2. core' \in [Did -> Document]
      BY <3>1 DEF Typed, RestTyped
    <3> QED
      BY <3>1, <3>2 DEF Typed, RestTyped
  <2> QED
    BY <1>1, <2>1, <2>2, <2>3, NextCases
<1>2. CASE UNCHANGED vars
  BY <1>2 DEF vars, Typed, RestTyped, CallsTyped, Known
<1> QED
  BY <1>1, <1>2

\* The types of the variables of the identity.
THEOREM IdentityTypes == Spec => []TypeOK
<1>1. Init => Typed
  BY TypesHoldAtFirst
<1>2. Typed /\ [Next]_vars => Typed'
  BY TypesKept
<1>3. Typed => TypeOK
  BY TypedIsTypeOK
<1> QED
  BY <1>1, <1>2, <1>3, PTL DEF Spec

-----------------------------------------------------------------------------
(* Without overlap, one call runs at a time.                               *)

Alone == ~scene.overlap => \A t, u \in Task : Busy(t) /\ Busy(u) => t = u

LEMMA AtIsBusy ==
  ASSUME NEW t \in Task, NEW step, At(t, step), step # "serve"
  PROVE  Busy(t) /\ ~Serving(t)
<1>1. Head(<<"serve">>) = "serve"
  OBVIOUS
<1> QED
  BY <1>1 DEF At, Busy, Serving

LEMMA DoneIsQuiet ==
  ASSUME NEW t \in Task, task'[t] = Done
  PROVE  ~Busy(t)' /\ ~Serving(t)' /\ task'[t].phase = "go" /\ \A step : ~At(t, step)'
<1>1. <<>> # <<"serve">>
  OBVIOUS
<1> QED
  BY <1>1, DoneFields DEF Busy, Serving, At

\* Every step of a call is that of a busy one, but for the end of a sidecar.
LEMMA MovesAreBusy ==
  ASSUME Typed, NEW t \in Task, Moves(t)
  PROVE  /\ OthersStay(t) /\ scene' = scene
         /\ Busy(t) \/ (Stop(t) /\ task'[t] = Done)
<1>1. CallsTyped /\ RestTyped
  BY DEF Typed
<1>2. CASE \E step \in {"ensure", "create", "edit", "route", "config", "default", "resync",
                       "connect", "sync", "token", "generate", "bind"} : At(t, step)
  <2>1. Busy(t)
    BY <1>2, AtIsBusy
  <2>2. OthersStay(t) /\ scene' = scene
    BY <1>1, EnsuredEffect, CreateEffect, DeclareEffect, SaveOutcomeEffect, ContinuesEffect,
       PostEffect, ReadTokenEffect, GenerateEffect, BindEffect, EndsEffect, DieEffect
       DEF Moves, MovesOn, RestTyped, EnsureFromEnv, EnsureStored, EnsureMissing, Create, Declare,
           SaveOutcome, ReadToken, Generate, Bind
  <2> QED
    BY <2>1, <2>2
<1>3. CASE Stop(t) \/ Die(t)
  BY <1>1, <1>3, EndsEffect, DieEffect DEF Ends, RestTyped
<1>4. Stop(t) \/ Die(t) \/
      \E step \in {"ensure", "create", "edit", "route", "config", "default", "resync",
                   "connect", "sync", "token", "generate", "bind"} : At(t, step)
  BY DEF Moves, EnsureFromEnv, EnsureStored, EnsureMissing, Create, Declare, SaveOutcome,
         Continues, DefaultRoute, Resync, Connect, Post, ReadToken, Generate, Bind, Ends,
         EnsureTorn, DeclareInvalid, ConnectFails, AtEdit
<1> QED
  BY <1>2, <1>3, <1>4

LEMMA AloneKept == Typed /\ Alone /\ [Next]_vars => Alone'
<1> SUFFICES ASSUME Typed, Alone, [Next]_vars
             PROVE  Alone'
  OBVIOUS
<1>1. ASSUME NEW t \in Task, Moves(t)
      PROVE  Alone'
  <2>1. /\ OthersStay(t) /\ scene' = scene
        /\ Busy(t) \/ (Stop(t) /\ task'[t] = Done)
    BY <1>1, MovesAreBusy
  <2>2. ASSUME NEW u \in Task, Busy(u)'
        PROVE  Busy(u)
    <3>1. CASE u = t
      BY <2>1, <2>2, <3>1, DoneIsQuiet
    <3>2. CASE u # t
      BY <2>1, <2>2, <3>2 DEF OthersStay, Busy, Serving
    <3> QED
      BY <3>1, <3>2
  <2> QED
    BY <2>1, <2>2 DEF Alone
<1>2. ASSUME NEW t \in Task, NEW call \in Calls, NEW e \in scene.edits \cup {NoEdit},
             Begin(t, call, e)
      PROVE  Alone'
  <2>1. OthersStay(t) /\ (scene.overlap \/ \A u \in Task : ~Busy(u))
    BY <1>2, BeginEffect DEF Typed, RestTyped
  <2>2. scene' = scene
    BY <1>2 DEF Begin
  <2>3. \A u \in Task : u # t /\ Busy(u)' => Busy(u)
    BY <2>1 DEF OthersStay, Busy, Serving
  <2> QED
    BY <2>1, <2>2, <2>3 DEF Alone
<1>3. ASSUME NEW r \in posts, Apply(r) \/ Refuse(r) \/ Break(r)
      PROVE  Alone'
  <2>1. (\A t \in Task : task'[t].todo = task[t].todo) /\ scene' = scene
    BY <1>3, AnswerEffect
  <2> QED
    BY <2>1 DEF Alone, Busy, Serving
<1>4. CASE UNCHANGED vars
  BY <1>4 DEF vars, Alone, Busy, Serving
<1> QED
  BY <1>1, <1>2, <1>3, <1>4, NextCases

-----------------------------------------------------------------------------
(* The file, Core and the call under way, used as the SDK is meant to be.  *)

\* The call has the identity of the file in hand, or is about to make one.
InHand(t) ==
  Busy(t) => \/ At(t, "ensure")
             \/ ~torn /\ At(t, "create") /\ file.did = 0
             \/ ~torn /\ ~At(t, "create") /\ file.did # 0 /\ task[t].cur = file

\* An answer that was taken is what Core publishes now.
Confirmed(t) ==
  task[t].phase = "ok" =>
    At(t, "sync") /\ core[task[t].cur.did] = task[t].cur.doc

\* A request on its way is that of the call that waits for it.
OnItsWay(r) ==
  /\ r.open /\ At(r.task, "sync") /\ task[r.task].phase = "wait"
  /\ r.did = task[r.task].cur.did /\ r.doc = task[r.task].cur.doc

\* What the file says of its registration holds.
Settled ==
  file.did # 0 => /\ HasRoute(file.doc)
                  /\ ~torn => file.pending \/ core[file.did] = file.doc

Kept == ~torn => \A d \in Did : core[d] # NoDocument => file.did = d

InOrder ==
  Orderly => /\ \A t \in Task : InHand(t) /\ Confirmed(t)
             /\ \A r \in posts : OnItsWay(r)
             /\ Settled /\ Kept

OrderInv == Typed /\ Alone /\ InOrder

LEMMA OrderGivesProperties == OrderInv => AgreesOrPending /\ KeysKept
BY DEF OrderInv, InOrder, Settled, Kept, AgreesOrPending, KeysKept, InStep

\* Nobody but the busy call matters.
LEMMA Lone ==
  ASSUME OrderInv, Orderly, NEW t \in Task, Busy(t)
  PROVE  /\ \A u \in Task : u # t => ~Busy(u) /\ task[u].phase # "ok"
         /\ \A r \in posts : r.task = t /\ At(t, "sync") /\ task[t].phase = "wait"
         /\ InHand(t) /\ Confirmed(t) /\ Settled /\ Kept
<1>1. \A u \in Task : u # t => ~Busy(u)
  BY DEF OrderInv, Alone, Orderly
<1>2. ASSUME NEW u \in Task, u # t
      PROVE  task[u].phase # "ok"
  <2>1. ~At(u, "sync")
    BY <1>1, <1>2, AtIsBusy
  <2> QED
    BY <2>1 DEF OrderInv, InOrder, Confirmed
<1>3. ASSUME NEW r \in posts
      PROVE  r.task = t /\ At(t, "sync") /\ task[t].phase = "wait"
  <2>1. r.task \in Task
    BY DEF OrderInv, Typed, RestTyped, Request
  <2>2. At(r.task, "sync") /\ task[r.task].phase = "wait"
    BY DEF OrderInv, InOrder, OnItsWay
  <2>3. Busy(r.task)
    BY <2>1, <2>2, AtIsBusy
  <2> QED
    BY <1>1, <2>1, <2>2, <2>3
<1> QED
  BY <1>1, <1>2, <1>3 DEF OrderInv, InOrder

\* After a step of the busy call, only what that call left is to be seen to.
LEMMA LoneStep ==
  ASSUME OrderInv, Orderly, NEW t \in Task, Busy(t), OthersStay(t), scene' = scene,
         InHand(t)', Confirmed(t)', Settled', Kept', \A r \in posts' : OnItsWay(r)'
  PROVE  InOrder'
<1>1. ASSUME NEW u \in Task, u # t
      PROVE  InHand(u)' /\ Confirmed(u)'
  <2>1. ~Busy(u) /\ task[u].phase # "ok" /\ task'[u] = task[u]
    BY <1>1, Lone DEF OthersStay
  <2> QED
    BY <2>1 DEF InHand, Confirmed, Busy, Serving
<1>2. Orderly'
  BY DEF Orderly
<1> QED
  BY <1>1, <1>2 DEF InOrder

\* A call that moves on with the identity of the file is in order.
LEMMA MovesOnInOrder ==
  ASSUME OrderInv, Orderly, NEW t \in Task, Busy(t), NEW c, MovesOn(t, c), scene' = scene,
         file' = c, c.did # 0, ~torn', posts' = posts, Settled', Kept',
         ~At(t, "sync") \/ task[t].phase # "wait"
  PROVE  InOrder'
<1>1. posts' = {}
  BY Lone
<1>2. OthersStay(t) /\ task'[t].cur = c /\ task'[t].phase = "go"
  BY DEF MovesOn
<1>3. ~At(t, "create")'
  BY DEF MovesOn, At, Inner
<1>4. InHand(t)' /\ Confirmed(t)'
  BY <1>2, <1>3 DEF InHand, Confirmed
<1> QED
  BY <1>1, <1>2, <1>4, LoneStep

LEMMA EnsureInOrder ==
  ASSUME OrderInv, Orderly, NEW t \in Task,
         EnsureFromEnv(t) \/ EnsureStored(t) \/ EnsureMissing(t)
  PROVE  InOrder'
<1>1. /\ At(t, "ensure") /\ Busy(t) /\ ~At(t, "sync") /\ ~scene.env
      /\ CallsTyped /\ file \in AgentIdentity
      /\ UNCHANGED <<scene, file, torn, core, posts, tokenfile, made, faults>>
  BY AtIsBusy DEF EnsureFromEnv, EnsureStored, EnsureMissing, OrderInv, Typed, RestTyped, At, Orderly
<1>2. Settled /\ Kept /\ posts = {}
  BY <1>1, Lone
<1>3. Settled' /\ Kept' /\ posts' = {}
  BY <1>1, <1>2 DEF Settled, Kept
<1>4. CASE EnsureStored(t)
  <2>1. MovesOn(t, file) /\ ~torn' /\ file.did # 0
    BY <1>1, <1>4, EnsuredEffect DEF EnsureStored
  <2> QED
    BY <1>1, <1>3, <2>1, MovesOnInOrder
<1>5. CASE EnsureMissing(t)
  <2>1. /\ OthersStay(t) /\ task'[t].phase = "go" /\ At(t, "create")' /\ ~torn' /\ file'.did = 0
    BY <1>1, <1>5, EnsuredEffect DEF EnsureMissing, At
  <2>2. InHand(t)' /\ Confirmed(t)'
    BY <2>1 DEF InHand, Confirmed
  <2> QED
    BY <1>1, <1>3, <2>1, <2>2, LoneStep
<1> QED
  BY <1>1, <1>4, <1>5 DEF EnsureFromEnv

\* A new identity is saved only when there was none.
LEMMA CreateInOrder ==
  ASSUME OrderInv, Orderly, NEW t \in Task, Create(t)
  PROVE  InOrder' /\ file.did = 0
<1>1. /\ At(t, "create") /\ Busy(t) /\ ~At(t, "sync") /\ ~At(t, "ensure")
      /\ CallsTyped /\ made \in Did /\ UNCHANGED <<scene, core, posts>>
  BY AtIsBusy DEF Create, OrderInv, Typed, RestTyped, At
<1>2. InHand(t) /\ Kept
  BY <1>1, Lone
<1>3. ~torn /\ file.did = 0
  BY <1>1, <1>2 DEF InHand
<1>4. /\ MovesOn(t, file') /\ torn' = FALSE /\ file'.did \in Did
      /\ file'.doc = Default /\ file'.pending
  BY <1>1, CreateEffect
<1>5. Settled'
  BY <1>4, Documents DEF Settled
<1>6. Kept'
  <2>1. \A d \in Did : core[d] = NoDocument
    BY <1>2, <1>3, Documents DEF Kept
  <2> QED
    BY <1>1, <2>1 DEF Kept
<1>7. file'.did # 0
  BY <1>4, Documents
<1> QED
  BY <1>1, <1>3, <1>4, <1>5, <1>6, <1>7, MovesOnInOrder

LEMMA DeclareInOrder ==
  ASSUME OrderInv, Orderly, NEW t \in Task, Declare(t)
  PROVE  /\ InOrder' /\ task[t].cur = file /\ Asked(t) \in Edit
         /\ file'.doc = Applied(file.doc, Asked(t))
<1>1. /\ Busy(t) /\ ~At(t, "sync") /\ ~At(t, "ensure") /\ ~At(t, "create")
      /\ CallsTyped /\ file \in AgentIdentity /\ UNCHANGED <<scene, core, posts>>
  BY AtIsBusy DEF Declare, AtEdit, OrderInv, Typed, RestTyped, At
<1>2. InHand(t) /\ Kept /\ Settled
  BY <1>1, Lone
<1>3. ~torn /\ file.did # 0 /\ task[t].cur = file
  BY <1>1, <1>2 DEF InHand
<1>4. /\ MovesOn(t, file') /\ torn' = FALSE /\ file'.did = file.did
      /\ file'.doc = Applied(file.doc, Asked(t)) /\ file'.pending /\ Asked(t) \in Edit
  BY <1>1, <1>3, DeclareEffect
<1>5. Settled'
  <2>1. HasRoute(file.doc) /\ file.doc \in Document
    BY <1>1, <1>2, <1>3 DEF Settled, AgentIdentity
  <2>2. HasRoute(Applied(file.doc, Asked(t)))
    BY <1>4, <2>1, AppliedKeeps
  <2> QED
    BY <1>4, <2>2 DEF Settled
<1>6. Kept'
  BY <1>1, <1>2, <1>3, <1>4 DEF Kept
<1> QED
  BY <1>1, <1>3, <1>4, <1>5, <1>6, MovesOnInOrder

LEMMA SaveOutcomeInOrder ==
  ASSUME OrderInv, Orderly, NEW t \in Task, SaveOutcome(t)
  PROVE  InOrder' /\ task[t].cur = file /\ file'.doc = file.doc
<1>1. /\ Busy(t) /\ ~At(t, "ensure") /\ ~At(t, "create") /\ task[t].phase # "wait"
      /\ CallsTyped /\ file \in AgentIdentity /\ UNCHANGED <<scene, core, posts>>
  BY AtIsBusy DEF SaveOutcome, OrderInv, Typed, RestTyped, At
<1>2. InHand(t) /\ Kept /\ Settled /\ Confirmed(t)
  BY <1>1, Lone
<1>3. ~torn /\ file.did # 0 /\ task[t].cur = file
  BY <1>1, <1>2 DEF InHand
<1>4. /\ MovesOn(t, file') /\ torn' = FALSE /\ file'.did = file.did
      /\ file'.doc = file.doc /\ (~file'.pending => task[t].phase = "ok")
  BY <1>1, <1>3, SaveOutcomeEffect
<1>5. Settled'
  BY <1>1, <1>2, <1>3, <1>4 DEF Settled, Confirmed
<1>6. Kept'
  BY <1>1, <1>2, <1>3, <1>4 DEF Kept
<1> QED
  BY <1>1, <1>3, <1>4, <1>5, <1>6, MovesOnInOrder

LEMMA ContinuesInOrder ==
  ASSUME OrderInv, Orderly, NEW t \in Task, Continues(t)
  PROVE  InOrder'
<1>1. /\ MovesOn(t, task[t].cur) /\ Busy(t) /\ ~At(t, "ensure") /\ ~At(t, "create")
      /\ ~At(t, "sync") /\ UNCHANGED <<scene, file, torn, core, posts>>
  BY ContinuesEffect, AtIsBusy DEF OrderInv, Typed, At
<1>2. InHand(t) /\ Kept /\ Settled
  BY <1>1, Lone
<1>3. ~torn /\ file.did # 0 /\ task[t].cur = file
  BY <1>1, <1>2 DEF InHand
<1>4. Settled' /\ Kept'
  BY <1>1, <1>2 DEF Settled, Kept
<1> QED
  BY <1>1, <1>3, <1>4, MovesOnInOrder

\* The steps that leave the file alone and registration aside.
LEMMA TokenInOrder ==
  ASSUME OrderInv, Orderly, NEW t \in Task, ReadToken(t) \/ Generate(t) \/ Bind(t)
  PROVE  InOrder'
<1>1. /\ Busy(t) /\ ~At(t, "ensure") /\ ~At(t, "create") /\ ~At(t, "sync")
      /\ CallsTyped /\ tokenfile \in Nat /\ UNCHANGED <<scene, file, torn, core, posts>>
  BY AtIsBusy DEF ReadToken, Generate, Bind, OrderInv, Typed, RestTyped, At
<1>2. InHand(t) /\ Kept /\ Settled /\ Confirmed(t) /\ posts = {}
  BY <1>1, Lone
<1>3. Settled' /\ Kept' /\ posts' = {} /\ task[t].phase # "ok"
  BY <1>1, <1>2 DEF Settled, Kept, Confirmed
<1>4. ~torn /\ file.did # 0 /\ task[t].cur = file
  BY <1>1, <1>2 DEF InHand
<1>5. CASE ReadToken(t) \/ Generate(t)
  <2>1. /\ OthersStay(t) /\ task'[t].cur = task[t].cur /\ task'[t].phase = task[t].phase
        /\ task'[t].todo # <<>> => Head(task'[t].todo) # "create"
    BY <1>1, <1>5, ReadTokenEffect, GenerateEffect DEF Inner
  <2>2. InHand(t)' /\ Confirmed(t)'
    BY <1>1, <1>3, <1>4, <2>1 DEF InHand, Confirmed, At
  <2> QED
    BY <1>1, <1>3, <2>1, <2>2, LoneStep
<1>6. CASE Bind(t)
  <2>1. OthersStay(t) /\ ~Busy(t)' /\ task'[t].phase # "ok"
    BY <1>1, <1>3, <1>6, BindEffect, DoneIsQuiet DEF Busy, Serving
  <2>2. InHand(t)' /\ Confirmed(t)'
    BY <2>1 DEF InHand, Confirmed
  <2> QED
    BY <1>1, <1>3, <2>1, <2>2, LoneStep
<1> QED
  BY <1>5, <1>6

LEMMA PostInOrder ==
  ASSUME OrderInv, Orderly, NEW t \in Task, Post(t)
  PROVE  InOrder'
<1>1. /\ Busy(t) /\ At(t, "sync") /\ ~At(t, "ensure") /\ ~At(t, "create")
      /\ task[t].phase = "go" /\ Typed
  BY AtIsBusy DEF Post, OrderInv, At
<1>2. InHand(t) /\ Kept /\ Settled /\ posts = {}
  BY <1>1, Lone
<1>3. /\ OthersStay(t) /\ task'[t].phase = "wait" /\ task'[t].todo = task[t].todo
      /\ task'[t].cur = task[t].cur /\ UNCHANGED <<scene, file, torn, core>>
  BY <1>1, PostEffect
<1>4. InHand(t)' /\ Confirmed(t)'
  BY <1>1, <1>2, <1>3 DEF InHand, Confirmed, At, Busy, Serving
<1>5. ASSUME NEW r \in posts'
      PROVE  OnItsWay(r)'
  <2>1. r = [task |-> t, did |-> task[t].cur.did, doc |-> task[t].cur.doc, open |-> TRUE]
    BY <1>2, <1>5 DEF Post
  <2>2. r.task = t /\ r.did = task[t].cur.did /\ r.doc = task[t].cur.doc /\ r.open
    BY <2>1
  <2>3. At(t, "sync")'
    BY <1>1, <1>3 DEF At
  <2> QED
    BY <1>3, <2>2, <2>3 DEF OnItsWay
<1>6. Settled' /\ Kept'
  BY <1>2, <1>3 DEF Settled, Kept
<1> QED
  BY <1>1, <1>3, <1>4, <1>5, <1>6, LoneStep

\* A call that ends has no request under way.
LEMMA EndsInOrder ==
  ASSUME OrderInv, Orderly, NEW t \in Task, Ends(t)
  PROVE  InOrder'
<1>1. /\ OthersStay(t) /\ task'[t] = Done /\ CallsTyped
      /\ (\E step \in {"ensure", "edit", "route", "config", "connect"} : At(t, step)) \/ Serving(t)
      /\ UNCHANGED <<scene, file, torn, core, posts>>
  BY EndsEffect DEF OrderInv, Typed, RestTyped
<1>2. ~At(t, "sync")
  BY <1>1, AtIsBusy DEF At
<1>3. ASSUME NEW r \in posts'
      PROVE  OnItsWay(r)'
  <2>1. OnItsWay(r) /\ r.task \in Task
    BY <1>1, <1>3 DEF OrderInv, InOrder, Typed, RestTyped, Request
  <2>2. r.task # t /\ task'[r.task] = task[r.task]
    BY <1>1, <1>2, <2>1 DEF OnItsWay, OthersStay
  <2> QED
    BY <2>1, <2>2 DEF OnItsWay, At
<1>4. ASSUME NEW u \in Task
      PROVE  InHand(u)' /\ Confirmed(u)'
  <2>1. InHand(u) /\ Confirmed(u)
    BY DEF OrderInv, InOrder
  <2>2. CASE u = t
    BY <1>1, <2>2, DoneIsQuiet DEF InHand, Confirmed
  <2>3. CASE u # t
    <3>1. task'[u] = task[u]
      BY <1>1, <2>3 DEF OthersStay
    <3> QED
      BY <1>1, <2>1, <3>1 DEF InHand, Confirmed, At, Busy, Serving
  <2> QED
    BY <2>2, <2>3
<1>5. Settled' /\ Kept'
  BY <1>1 DEF OrderInv, InOrder, Settled, Kept
<1> QED
  BY <1>1, <1>3, <1>4, <1>5 DEF InOrder, Orderly

LEMMA DieInOrder ==
  ASSUME OrderInv, Orderly, NEW t \in Task, Die(t)
  PROVE  InOrder'
<1>1. /\ OthersStay(t) /\ task'[t] = Done /\ Busy(t) /\ torn \in BOOLEAN
      /\ ~scene.late => \A q \in posts' : q \in posts /\ (q.open => q.task # t)
      /\ (torn => torn') /\ UNCHANGED <<scene, file, core>>
  BY DieEffect DEF OrderInv, Typed, RestTyped
<1>2. posts' = {}
  <2>1. \A q \in posts : q.open /\ q.task = t
    BY <1>1, Lone DEF OrderInv, InOrder, OnItsWay
  <2> QED
    BY <1>1, <2>1 DEF Orderly
<1>3. InHand(t)' /\ Confirmed(t)'
  BY <1>1, DoneIsQuiet DEF InHand, Confirmed
<1>4. Settled' /\ Kept'
  BY <1>1 DEF OrderInv, InOrder, Settled, Kept
<1> QED
  BY <1>1, <1>2, <1>3, <1>4, LoneStep

LEMMA AnswerInOrder ==
  ASSUME OrderInv, Orderly, NEW r \in posts, Apply(r) \/ Refuse(r) \/ Break(r)
  PROVE  InOrder'
<1> DEFINE t == r.task
<1>1. /\ r.task \in Task /\ r.did \in Did /\ r.doc \in Document
      /\ \A u \in Task : task'[u].todo = task[u].todo /\ task'[u].cur = task[u].cur
      /\ r.open => OthersStay(r.task)
      /\ r.open => task'[r.task].phase = IF Apply(r) THEN "ok" ELSE "failed"
      /\ posts' \subseteq posts \ {r}
      /\ core' = IF Apply(r) THEN [core EXCEPT ![r.did] = r.doc] ELSE core
      /\ UNCHANGED <<scene, file, torn>>
  BY AnswerEffect DEF OrderInv, Orderly
<1>2. OnItsWay(r) /\ Typed
  BY DEF OrderInv, InOrder
<1>3. /\ t \in Task /\ At(t, "sync") /\ Busy(t) /\ r.open /\ r.did = task[t].cur.did
      /\ r.doc = task[t].cur.doc /\ ~At(t, "ensure") /\ ~At(t, "create")
  BY <1>1, <1>2, AtIsBusy DEF OnItsWay, At
<1>4. posts' = {}
  <2>1. ASSUME NEW q \in posts
        PROVE  q = r
    <3>1. q.task = t /\ OnItsWay(q) /\ q \in Request /\ r \in Request
      BY <1>3, Lone DEF OrderInv, InOrder, Typed, RestTyped
    <3>2. q.task = r.task /\ q.did = r.did /\ q.doc = r.doc /\ q.open = r.open
      BY <1>3, <3>1 DEF OnItsWay, Request
    <3> QED
      BY <3>1, <3>2 DEF Request
  <2> QED
    BY <1>1, <2>1
<1>5. InHand(t) /\ Kept /\ Settled
  BY <1>3, Lone
<1>6. ~torn /\ file.did # 0 /\ task[t].cur = file /\ r.did = file.did /\ r.doc = file.doc
  BY <1>3, <1>5 DEF InHand
<1>7. InHand(t)'
  BY <1>1, <1>3, <1>5 DEF InHand, At, Busy, Serving
<1>8. core \in [Did -> Document]
  BY <1>2 DEF Typed, RestTyped
<1>9. /\ Apply(r) => core'[file.did] = file.doc
      /\ ~Apply(r) => core' = core
      /\ \A d \in Did : d # file.did => core'[d] = core[d]
  BY <1>1, <1>6, <1>8
<1>10. Confirmed(t)'
  <2>1. At(t, "sync")' /\ task'[t].cur = file
    BY <1>1, <1>3, <1>6 DEF At
  <2>2. task'[t].phase = "ok" => Apply(r)
    BY <1>1, <1>3
  <2> QED
    BY <1>9, <2>1, <2>2 DEF Confirmed
<1>11. Settled'
  BY <1>1, <1>5, <1>9 DEF Settled
<1>12. Kept'
  BY <1>1, <1>5, <1>9 DEF Kept
<1> QED
  BY <1>1, <1>3, <1>4, <1>7, <1>10, <1>11, <1>12, LoneStep

LEMMA BeginInOrder ==
  ASSUME OrderInv, Orderly, NEW t \in Task, NEW call \in Calls,
         NEW e \in scene.edits \cup {NoEdit}, Begin(t, call, e)
  PROVE  InOrder'
<1>1. /\ OthersStay(t) /\ task'[t].phase = "go" /\ At(t, "ensure")'
      /\ \A u \in Task : ~Busy(u)
  BY BeginEffect DEF OrderInv, Typed, RestTyped, Orderly, At
<1>2. UNCHANGED <<scene, file, torn, core, posts>>
  BY DEF Begin
<1>3. posts = {}
  <2>1. \A r \in posts : r.task \in Task /\ At(r.task, "sync")
    BY DEF OrderInv, InOrder, OnItsWay, Typed, RestTyped, Request
  <2> QED
    BY <1>1, <2>1, AtIsBusy
<1>4. ASSUME NEW u \in Task
      PROVE  InHand(u)' /\ Confirmed(u)'
  <2>1. InHand(u) /\ Confirmed(u)
    BY DEF OrderInv, InOrder
  <2>2. CASE u = t
    BY <1>1, <2>2 DEF InHand, Confirmed
  <2>3. CASE u # t
    <3>1. task'[u] = task[u] /\ ~Busy(u)
      BY <1>1, <2>3 DEF OthersStay
    <3> QED
      BY <1>2, <2>1, <3>1 DEF InHand, Confirmed, At, Busy, Serving
  <2> QED
    BY <2>2, <2>3
<1>5. Settled' /\ Kept'
  BY <1>2 DEF OrderInv, InOrder, Settled, Kept
<1> QED
  BY <1>2, <1>3, <1>4, <1>5 DEF InOrder, Orderly

LEMMA OrderHoldsAtFirst == Init => OrderInv
<1> SUFFICES ASSUME Init
             PROVE  OrderInv
  OBVIOUS
<1>1. Typed
  BY TypesHoldAtFirst
<1>2. \A t \in Task : task[t] = Done /\ ~Busy(t) /\ task[t].phase = "go"
  BY DoneFields DEF Init, Busy
<1>3. Alone /\ \A t \in Task : InHand(t) /\ Confirmed(t)
  BY <1>2 DEF Alone, InHand, Confirmed
<1>4. Settled /\ Kept
  <2>1. 2 \in Did /\ scene.stored \in BOOLEAN
    BY IdentityAssumption DEF Init, Did, Scenario
  <2>2. CASE scene.stored
    <3>1. file.did = 2 /\ file.doc = Default /\ core[2] = Default
          /\ \A d \in Did : d # 2 => core[d] = NoDocument
      BY <2>1, <2>2, Locals, Outcomes DEF Init
    <3> QED
      BY <3>1, Documents DEF Settled, Kept
  <2>3. CASE ~scene.stored
    <3>1. file.did = 0 /\ \A d \in Did : core[d] = NoDocument
      BY <2>3, Documents DEF Init
    <3> QED
      BY <3>1 DEF Settled, Kept
  <2> QED
    BY <2>1, <2>2, <2>3
<1> QED
  BY <1>1, <1>3, <1>4 DEF OrderInv, InOrder, Init

LEMMA OrderKept == OrderInv /\ [Next]_vars => OrderInv'
<1> SUFFICES ASSUME OrderInv, [Next]_vars
             PROVE  OrderInv'
  OBVIOUS
<1>1. Typed' /\ Alone'
  BY TypesKept, AloneKept DEF OrderInv
<1>2. ASSUME Orderly'
      PROVE  InOrder'
  <2>1. CASE UNCHANGED vars
    BY <2>1 DEF vars, OrderInv, InOrder, Orderly, InHand, Confirmed, OnItsWay, Settled, Kept,
                At, Busy, Serving
  <2>2. CASE Next
    <3>1. scene' = scene
      <4>1. ASSUME NEW t \in Task, Moves(t)
            PROVE  scene' = scene
        BY <4>1, MovesAreBusy DEF OrderInv
      <4>2. ASSUME NEW r \in posts, Apply(r) \/ Refuse(r) \/ Break(r)
            PROVE  scene' = scene
        BY <4>2, AnswerEffect DEF OrderInv
      <4> QED
        BY <2>2, <4>1, <4>2, NextCases DEF Begin
    <3>2. Orderly
      BY <1>2, <3>1 DEF Orderly
    <3>3. ASSUME NEW t \in Task, Moves(t)
          PROVE  InOrder'
      BY <3>2, <3>3, EnsureInOrder, CreateInOrder, DeclareInOrder, SaveOutcomeInOrder,
         ContinuesInOrder, PostInOrder, TokenInOrder, EndsInOrder, DieInOrder DEF Moves
    <3> QED
      BY <2>2, <3>2, <3>3, BeginInOrder, AnswerInOrder, NextCases
  <2> QED
    BY <2>1, <2>2
<1> QED
  BY <1>1, <1>2 DEF OrderInv, InOrder

\* Whatever fails between saving and registering a change, identity.json says
\* that a registration is pending or Core publishes exactly its document, as
\* long as calls do not overlap and Core acts on no registration late.
THEOREM PendingOrPublished == Spec => []AgreesOrPending
<1>1. Init => OrderInv
  BY OrderHoldsAtFirst
<1>2. OrderInv /\ [Next]_vars => OrderInv'
  BY OrderKept
<1>3. OrderInv => AgreesOrPending
  BY OrderGivesProperties
<1> QED
  BY <1>1, <1>2, <1>3, PTL DEF Spec

\* The keys of a DID that Core publishes stay in identity.json, wherever the
\* process that made them died.
THEOREM PublishedKeysKept == Spec => []KeysKept
<1>1. Init => OrderInv
  BY OrderHoldsAtFirst
<1>2. OrderInv /\ [Next]_vars => OrderInv'
  BY OrderKept
<1>3. OrderInv => KeysKept
  BY OrderGivesProperties
<1> QED
  BY <1>1, <1>2, <1>3, PTL DEF Spec

\* What one step does to the document of the file.
LEMMA ChangesAreAsked ==
  ASSUME OrderInv, [Next]_vars, Orderly, file.did # 0
  PROVE  /\ \A c \in file.doc.caps \ file'.doc.caps :
              \E t \in Task : AtEdit(t) /\ Drops(Asked(t), c)
         /\ file'.doc.price # file.doc.price =>
              \E t \in Task : AtEdit(t) /\ Prices(Asked(t))
<1>1. CASE file' = file
  BY <1>1
<1>2. ASSUME NEW t \in Task, Create(t)
      PROVE  FALSE
  BY <1>2, CreateInOrder
<1>3. ASSUME NEW t \in Task, SaveOutcome(t)
      PROVE  file'.doc = file.doc
  BY <1>3, SaveOutcomeInOrder
<1>4. ASSUME NEW t \in Task, Declare(t)
      PROVE  /\ AtEdit(t)
             /\ \A c \in file.doc.caps \ file'.doc.caps : Drops(Asked(t), c)
             /\ ~Prices(Asked(t)) => file'.doc.price = file.doc.price
  <2>1. Asked(t) \in Edit /\ file'.doc = Applied(file.doc, Asked(t)) /\ AtEdit(t)
    BY <1>4, DeclareInOrder DEF Declare
  <2>2. file.doc \in Document /\ HasRoute(file.doc)
    BY DEF OrderInv, InOrder, Settled, Typed, RestTyped, AgentIdentity
  <2> QED
    BY <2>1, <2>2, AppliedKeeps
<1>5. \/ file' = file
      \/ \E t \in Task : Create(t) \/ SaveOutcome(t) \/ Declare(t)
  <2>1. CASE UNCHANGED vars
    BY <2>1 DEF vars
  <2>2. ASSUME NEW t \in Task, Moves(t)
        PROVE  file' = file \/ Create(t) \/ SaveOutcome(t) \/ Declare(t)
    <3>1. CASE Continues(t) \/ Ends(t) \/ Die(t) \/ Post(t)
      BY <3>1, ContinuesEffect, EndsEffect, DieEffect, PostEffect DEF OrderInv, Typed, RestTyped
    <3> QED
      BY <2>2, <3>1 DEF Moves, EnsureFromEnv, EnsureStored, EnsureMissing, ReadToken, Generate, Bind
  <2>3. ASSUME NEW r \in posts, Apply(r) \/ Refuse(r) \/ Break(r)
        PROVE  file' = file
    BY <2>3, AnswerEffect DEF OrderInv
  <2> QED
    BY <2>1, <2>2, <2>3, NextCases DEF Begin
<1> QED
  BY <1>1, <1>2, <1>3, <1>4, <1>5

\* Without overlap, what removes a capability is a declaration that replaces what
\* there is or gives the route's capabilities, an empty list included, and does not
\* name it; what changes the price is one that resets the route or names a price.  A
\* registration, a retry or a declaration of something else does neither
\* (declareRoute, declareCapabilities, syncIdentityWithCore).
THEOREM ChangesOnlyAsAsked == Spec => OnlyAskedForChanges
<1>1. Init => OrderInv
  BY OrderHoldsAtFirst
<1>2. OrderInv /\ [Next]_vars => OrderInv'
  BY OrderKept
<1>3. OrderInv /\ [Next]_vars =>
        [Orderly /\ file.did # 0 =>
          /\ \A c \in file.doc.caps \ file'.doc.caps :
               \E t \in Task : AtEdit(t) /\ Drops(Asked(t), c)
          /\ file'.doc.price # file.doc.price =>
               \E t \in Task : AtEdit(t) /\ Prices(Asked(t))]_file
  BY ChangesAreAsked
<1> QED
  BY <1>1, <1>2, <1>3, PTL DEF Spec, OnlyAskedForChanges

\* A call that meets a truncated file is at the point of reading it.
LEMMA TornIsRead ==
  ASSUME OrderInv, Orderly, torn, NEW t \in Task, Busy(t)
  PROVE  At(t, "ensure") /\ posts = {}
<1>1. At(t, "ensure")
  BY Lone DEF InHand
<1>2. ~At(t, "sync")
  BY <1>1 DEF At
<1> QED
  BY <1>1, <1>2, Lone

LEMMA TornStays ==
  ASSUME OrderInv, [Next]_vars, Orderly, torn
  PROVE  torn' /\ UNCHANGED <<file, core, made>>
<1>1. CASE UNCHANGED vars
  BY <1>1 DEF vars
<1>2. ASSUME NEW t \in Task, Moves(t)
      PROVE  torn' /\ UNCHANGED <<file, core, made>>
  <2>1. CASE Stop(t) \/ Die(t)
    BY <2>1, EndsEffect, DieEffect DEF Ends, OrderInv, Typed, RestTyped
  <2>2. CASE ~Stop(t) /\ ~Die(t)
    <3>1. At(t, "ensure")
      BY <1>2, <2>2, MovesAreBusy, TornIsRead DEF OrderInv
    <3>2. CASE Ends(t)
      BY <3>2, EndsEffect DEF OrderInv, Typed, RestTyped
    <3>3. CASE Continues(t)
      BY <3>3, ContinuesEffect DEF OrderInv, Typed
    <3>4. ~scene.env
      BY DEF Orderly
    <3> QED
      BY <1>2, <2>2, <3>1, <3>2, <3>3, <3>4
         DEF Moves, EnsureFromEnv, EnsureStored, EnsureMissing, Create, Declare, AtEdit,
             SaveOutcome, Post, ReadToken, Generate, Bind, At
  <2> QED
    BY <2>1, <2>2
<1>3. ASSUME NEW r \in posts, Apply(r) \/ Refuse(r) \/ Break(r)
      PROVE  FALSE
  <2>1. r.task \in Task /\ At(r.task, "sync")
    BY DEF OrderInv, InOrder, OnItsWay, Typed, RestTyped, Request
  <2> QED
    BY <2>1, AtIsBusy, TornIsRead
<1> QED
  BY <1>1, <1>2, <1>3, NextCases DEF Begin

\* Once a death truncated identity.json, calls that do not overlap neither repair
\* it nor make another identity, and Core keeps what it has (loadIdentity).
THEOREM TornFileStays == Spec => TornIsNotReplaced
<1>1. Init => OrderInv
  BY OrderHoldsAtFirst
<1>2. OrderInv /\ [Next]_vars => OrderInv'
  BY OrderKept
<1>3. OrderInv /\ [Next]_vars =>
        [Orderly /\ torn => torn' /\ UNCHANGED <<file, core, made>>]_vars
  BY TornStays
<1> QED
  BY <1>1, <1>2, <1>3, PTL DEF Spec, TornIsNotReplaced

-----------------------------------------------------------------------------
(* The token of the sidecar that listens.                                  *)

TokenHeld(t) ==
  /\ Serving(t) \/ At(t, "bind") => tokenfile # 0 /\ task[t].token = tokenfile
  /\ At(t, "generate") => tokenfile = 0

TokenInv == Typed /\ Alone /\ (~scene.overlap => \A t \in Task : TokenHeld(t))

LEMMA OthersHold ==
  ASSUME NEW u \in Task, TokenHeld(u), task'[u] = task[u], tokenfile' = tokenfile
  PROVE  TokenHeld(u)'
BY DEF TokenHeld, Serving, At

LEMMA MoveHoldsToken ==
  ASSUME TokenInv, ~scene.overlap, NEW t \in Task, Moves(t)
  PROVE  \A u \in Task : TokenHeld(u)'
<1>1. CallsTyped /\ RestTyped /\ Typed /\ TokenHeld(t) /\ OthersStay(t)
  BY MovesAreBusy DEF TokenInv, Typed
<1>2. CASE Generate(t)
  <2>1. /\ task'[t].token = tokenfile' /\ tokenfile' # 0
        /\ task'[t].todo # <<>> => Head(task'[t].todo) \in Inner
    BY <1>1, <1>2, GenerateEffect DEF RestTyped
  <2>2. TokenHeld(t)'
    BY <2>1 DEF TokenHeld, At, Inner
  <2>3. ASSUME NEW u \in Task, u # t
        PROVE  TokenHeld(u)'
    <3>1. At(t, "generate") /\ Busy(t) /\ tokenfile = 0
      BY <1>1, <1>2, AtIsBusy DEF Generate, TokenHeld
    <3>2. ~Busy(u) /\ TokenHeld(u) /\ task'[u] = task[u]
      BY <1>1, <2>3, <3>1 DEF TokenInv, Alone, OthersStay
    <3>3. ~Serving(u) /\ ~At(u, "generate") /\ ~At(u, "bind")
      BY <3>1, <3>2, AtIsBusy DEF TokenHeld
    <3> QED
      BY <3>2, <3>3 DEF TokenHeld, Serving, At
  <2> QED
    BY <2>2, <2>3
<1>3. CASE ~Generate(t)
  <2>1. tokenfile' = tokenfile
    <3>1. CASE Continues(t) \/ Ends(t) \/ Die(t) \/ Post(t)
      BY <1>1, <3>1, ContinuesEffect, EndsEffect, DieEffect, PostEffect DEF RestTyped
    <3> QED
      BY <1>3, <3>1 DEF Moves, EnsureFromEnv, EnsureStored, EnsureMissing, Create, Declare,
                        SaveOutcome, ReadToken, Bind
  <2>2. CASE \E c : MovesOn(t, c)
    <3>1. task'[t].todo # <<>> => Head(task'[t].todo) \in Inner \ {"bind"}
      BY <2>2 DEF MovesOn
    <3>2. ~Serving(t)'
      <4>1. <<"serve">> # <<>> /\ Head(<<"serve">>) = "serve"
        OBVIOUS
      <4> QED
        BY <3>1, <4>1 DEF Serving, Inner
    <3>3. TokenHeld(t)'
      BY <3>1, <3>2 DEF TokenHeld, At, Inner
    <3> QED
      BY <1>1, <2>1, <3>3, OthersHold DEF TokenInv, OthersStay
  <2>3. CASE EnsureMissing(t) \/ Post(t) \/ ReadToken(t) \/ Bind(t) \/ Ends(t) \/ Die(t)
    <3>1. CASE EnsureMissing(t)
      <4>1. task'[t].todo # <<>> /\ Head(task'[t].todo) = "create"
        BY <1>1, <3>1, EnsuredEffect DEF RestTyped
      <4>2. At(t, "create")'
        BY <4>1 DEF At
      <4>3. ~Serving(t)' /\ ~At(t, "bind")' /\ ~At(t, "generate")'
        BY <4>2, AtIsBusy, <4>1 DEF At, Serving
      <4>4. TokenHeld(t)'
        BY <4>3 DEF TokenHeld
      <4> QED
        BY <1>1, <2>1, <4>4, OthersHold DEF TokenInv, OthersStay
    <3>2. CASE Post(t)
      <4>1. task'[t].todo = task[t].todo /\ task'[t].token = task[t].token
        BY <1>1, <3>2, PostEffect
      <4>2. TokenHeld(t)'
        BY <1>1, <2>1, <4>1 DEF TokenHeld, Serving, At
      <4> QED
        BY <1>1, <2>1, <4>2, OthersHold DEF TokenInv, OthersStay
    <3>3. CASE ReadToken(t)
      <4>1. /\ task'[t].token = tokenfile
            /\ tokenfile = 0 => task'[t].todo # <<>> /\ Head(task'[t].todo) = "generate"
            /\ tokenfile # 0 => (task'[t].todo # <<>> => Head(task'[t].todo) \in Inner)
        BY <1>1, <3>3, ReadTokenEffect DEF RestTyped
      <4>2. CASE tokenfile = 0
        <5>1. Head(<<"serve">>) = "serve"
          OBVIOUS
        <5>2. TokenHeld(t)'
          BY <2>1, <4>1, <4>2, <5>1 DEF TokenHeld, At, Serving
        <5> QED
          BY <1>1, <2>1, <5>2, OthersHold DEF TokenInv, OthersStay
      <4>3. CASE tokenfile # 0
        <5>1. TokenHeld(t)'
          BY <2>1, <4>1, <4>3 DEF TokenHeld, At, Inner
        <5> QED
          BY <1>1, <2>1, <5>1, OthersHold DEF TokenInv, OthersStay
      <4> QED
        BY <4>2, <4>3
    <3>4. CASE Bind(t)
      <4>1. /\ \/ task'[t] = Done
               \/ task'[t].todo = <<"serve">> /\ task'[t].token = task[t].token
            /\ At(t, "bind")
        BY <1>1, <3>4, BindEffect DEF Bind
      <4>2. Head(<<"serve">>) = "serve"
        OBVIOUS
      <4>3. TokenHeld(t)'
        <5>1. CASE task'[t] = Done
          BY <5>1, DoneIsQuiet DEF TokenHeld
        <5>2. CASE task'[t].todo = <<"serve">> /\ task'[t].token = task[t].token
          BY <1>1, <2>1, <4>1, <4>2, <5>2 DEF TokenHeld, At
        <5> QED
          BY <4>1, <5>1, <5>2
      <4> QED
        BY <1>1, <2>1, <4>3, OthersHold DEF TokenInv, OthersStay
    <3>5. CASE Ends(t) \/ Die(t)
      <4>1. task'[t] = Done
        BY <1>1, <3>5, EndsEffect, DieEffect DEF RestTyped
      <4>2. TokenHeld(t)'
        BY <4>1, DoneIsQuiet DEF TokenHeld
      <4> QED
        BY <1>1, <2>1, <4>2, OthersHold DEF TokenInv, OthersStay
    <3> QED
      BY <2>3, <3>1, <3>2, <3>3, <3>4, <3>5
  <2>4. (\E c : MovesOn(t, c)) \/ EnsureMissing(t) \/ Post(t) \/ ReadToken(t) \/ Bind(t) \/ Ends(t) \/ Die(t)
    <3>1. (EnsureFromEnv(t) \/ EnsureStored(t)) => \E c : MovesOn(t, c)
      BY <1>1, EnsuredEffect DEF RestTyped
    <3>2. Create(t) => \E c : MovesOn(t, c)
      BY <1>1, CreateEffect DEF RestTyped
    <3>3. Declare(t) => \E c : MovesOn(t, c)
      BY <1>1, DeclareEffect
    <3>4. SaveOutcome(t) => \E c : MovesOn(t, c)
      BY <1>1, SaveOutcomeEffect
    <3>5. Continues(t) => \E c : MovesOn(t, c)
      BY <1>1, ContinuesEffect
    <3> QED
      BY <1>3, <3>1, <3>2, <3>3, <3>4, <3>5 DEF Moves
  <2> QED
    BY <2>2, <2>3, <2>4
<1> QED
  BY <1>2, <1>3

LEMMA TokenKept == TokenInv /\ [Next]_vars => TokenInv'
<1> SUFFICES ASSUME TokenInv, [Next]_vars
             PROVE  TokenInv'
  OBVIOUS
<1>1. Typed' /\ Alone' /\ Typed
  BY TypesKept, AloneKept DEF TokenInv
<1>2. ASSUME NEW t \in Task, Moves(t)
      PROVE  TokenInv'
  <2>1. scene' = scene
    BY <1>1, <1>2, MovesAreBusy
  <2> QED
    BY <1>1, <1>2, <2>1, MoveHoldsToken DEF TokenInv
<1>3. ASSUME NEW t \in Task, NEW call \in Calls, NEW e \in scene.edits \cup {NoEdit},
             Begin(t, call, e)
      PROVE  TokenInv'
  <2>1. /\ OthersStay(t) /\ task'[t].todo # <<>> /\ Head(task'[t].todo) = "ensure"
        /\ UNCHANGED <<scene, tokenfile>>
    BY <1>1, <1>3, BeginEffect DEF Typed, RestTyped, Begin
  <2>2. Head(<<"serve">>) = "serve"
    OBVIOUS
  <2>3. TokenHeld(t)'
    BY <2>1, <2>2 DEF TokenHeld, At, Serving
  <2> QED
    BY <1>1, <2>1, <2>3, OthersHold DEF TokenInv, OthersStay
<1>4. ASSUME NEW r \in posts, Apply(r) \/ Refuse(r) \/ Break(r)
      PROVE  TokenInv'
  <2>1. /\ \A t \in Task : task'[t].todo = task[t].todo /\ task'[t].token = task[t].token
        /\ UNCHANGED <<scene, tokenfile>>
    BY <1>1, <1>4, AnswerEffect
  <2> QED
    BY <1>1, <2>1 DEF TokenInv, TokenHeld, At, Serving
<1>5. CASE UNCHANGED vars
  BY <1>1, <1>5 DEF vars, TokenInv, TokenHeld, At, Serving
<1> QED
  BY <1>2, <1>3, <1>4, <1>5, NextCases

\* Clients that read sidecar-token reach the sidecar that listens, after any
\* number of restarts, as long as starts do not overlap.
THEOREM TokenReachesTheSidecar == Spec => []TokenServes
<1>1. Init => TokenInv
  <2> SUFFICES ASSUME Init
               PROVE  TokenInv
    OBVIOUS
  <2>1. \A t \in Task : task[t] = Done
    BY DEF Init
  <2>2. <<>> # <<"serve">>
    OBVIOUS
  <2> QED
    BY <2>1, <2>2, TypesHoldAtFirst, DoneFields DEF TokenInv, Alone, Busy, TokenHeld, Serving, At
<1>2. TokenInv /\ [Next]_vars => TokenInv'
  BY TokenKept
<1>3. TokenInv => TokenServes
  BY DEF TokenInv, TokenHeld, TokenServes
<1> QED
  BY <1>1, <1>2, <1>3, PTL DEF Spec
=============================================================================
