----------------------------- MODULE MCMcpServer -----------------------------
(* McpServer for TLC: calls that share the connection and the buffer, the      *)
(* search for a key in every state of its sources, and purchases.              *)
EXTENDS McpServer

World(tools, created, above) ==
  [tools : {tools}, created : {created}, above : {above}, field : {"receivedAt"},
   receipts : {{}}, skew : {0}, given : {"none"}, registry : {"none"},
   web : {"none"}, relay : {"good"}]

\* A message of a sender whose clock is ahead, and one whose clock is behind.
Created == [m \in Message |-> IF m = 1 THEN 3 ELSE 1]

\* Messages without created_at, which receipts are too.
Uncreated == [m \in Message |-> 0]

Sources ==
  {[s EXCEPT !.registry = registry, !.web = web, !.relay = relay] :
     s \in World({"send"}, Uncreated, {}),
     registry \in {"none", "bad", "down", "other", "good"},
     web \in {"none", "down", "other", "good"},
     relay \in {"down", "other", "good"}}

Malformed ==
  {[s EXCEPT !.registry = registry, !.web = "malformed"] :
     s \in World({"send"}, Uncreated, {}), registry \in {"none", "good"}}

\* Polls by received_at, of one receipt and one message.
Documented(skew) ==
  {[s EXCEPT !.field = "received_at", !.receipts = {1}, !.skew = skew] :
     s \in World({"receive"}, [m \in Message |-> IF m = 1 THEN 0 ELSE 1], {})}

MCScenarios ==
  World({"receive"}, Created, {})
    \cup World({"receive", "balance"}, Uncreated, {1})
    \cup World({"purchase", "fetch"}, Uncreated, {})
    \cup Documented(0) \cup Documented(1)
    \cup Sources \cup Malformed
    \cup {[s EXCEPT !.given = g] : g \in {"bad", "down", "other", "good"},
             s \in World({"send"}, Uncreated, {})}

Skewed == Documented(1)
=============================================================================
