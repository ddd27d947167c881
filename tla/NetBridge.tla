----------------------------- MODULE NetBridge -----------------------------
(***************************************************************************)
(* The engine's side of the bridge, BibNetBridge.cpp: the registry of      *)
(* clients that wait for a request's events, and the two ordered message   *)
(* channels between an engine (a Worker) and the page's Bridge             *)
(* (src/ext/engine-link.mjs, src/ext/engine-worker.js: postMessage, FIFO   *)
(* in both directions).  client[r] is what the client, a BibResourceLoad   *)
(* or BibPingLoad, has been told of request r.                             *)
(***************************************************************************)
EXTENDS Requests

VARIABLES
  registered,  \* requests with a client in netClientRegistry
  client,      \* [Req -> ClientState]
  got,         \* [Req -> bytes of body the client has consumed]
  toBridge,    \* [Tab -> Seq] engine -> page
  toEngine     \* [Tab -> Seq] page -> engine

engineVars == <<registered, client, got>>
channelVars == <<toBridge, toEngine>>

ClientState ==
  {"new", "open", "responded", "done", "failed", "redirected", "cancelled"}
Ended == {"done", "failed", "redirected", "cancelled"}

EngineMsg == [op : {"begin", "cancel", "ack"}, id : Req, len : Nat]
FailKind == {"guard", "network", "timeout", "too-large", "cancelled", "protocol"}
BridgeMsg ==
  [op : {"response", "data", "done", "redirect"}, id : Req, len : Nat]
    \cup [op : {"fail"}, id : Req, kind : FailKind]

NetTypeOK ==
  /\ registered \subseteq Req
  /\ client \in [Req -> ClientState]
  /\ got \in [Req -> Nat]
  /\ toBridge \in [Tab -> Seq(EngineMsg)]
  /\ toEngine \in [Tab -> Seq(BridgeMsg)]

NetInit ==
  /\ registered = {}
  /\ client = [r \in Req |-> "new"]
  /\ got = [r \in Req |-> 0]
  /\ toBridge = [t \in Tab |-> <<>>]
  /\ toEngine = [t \in Tab |-> <<>>]

Signal(op, r, n) == [op |-> op, id |-> r, len |-> n]
Failure(r, k) == [op |-> "fail", id |-> r, kind |-> k]

\* The engine posts to the page, and the page to the engine.
PostToBridge(t, m) == toBridge' = [toBridge EXCEPT ![t] = Append(@, m)]
PostToEngine(t, m) == toEngine' = [toEngine EXCEPT ![t] = Append(@, m)]

\* netBridgeStart: register the client, emit the request.
NetBridgeStart(r) ==
  /\ client[r] = "new"
  /\ registered' = registered \cup {r}
  /\ client' = [client EXCEPT ![r] = "open"]
  /\ PostToBridge(TabOf[r], Signal("begin", r, 0))
  /\ UNCHANGED <<got, toEngine>>

\* netBridgeCancel: only a registered request is cancelled at the bridge; its
\* client hears nothing more.  BibResourceLoad::cancel may do this at any time,
\* BibPingLoad does it as soon as it has the response.
NetBridgeCancel(r) ==
  /\ r \in registered
  /\ registered' = registered \ {r}
  /\ client' = [client EXCEPT ![r] = "cancelled"]
  /\ PostToBridge(TabOf[r], Signal("cancel", r, 0))
  /\ UNCHANGED <<got, toEngine>>

\* bib_net_response: the registry is asked, not emptied.
NetResponse(r) ==
  /\ client' = [client EXCEPT ![r] = IF r \in registered THEN "responded" ELSE @]
  /\ UNCHANGED <<registered, got, toBridge>>

\* A faulty variant: bib_net_data acks only what it did not consume: credit is lost.
NetDataNoAck(r, t, n) ==
  /\ got' = [got EXCEPT ![r] = IF r \in registered THEN @ + n ELSE @]
  /\ UNCHANGED <<registered, client, toBridge>>

\* bib_net_data: the client consumes the bytes, and the engine acks them.
NetData(r, t, n) ==
  /\ IF r \in registered
       THEN /\ got' = [got EXCEPT ![r] = @ + n]
            /\ PostToBridge(t, Signal("ack", r, n))
       ELSE UNCHANGED <<got, toBridge>>
  /\ UNCHANGED <<registered, client>>

\* A faulty variant: a terminal export that asks the registry with get(), not take().
NetTerminalNoTake(r, how) ==
  /\ client' = [client EXCEPT ![r] = how]
  /\ UNCHANGED <<registered, got, toBridge>>

\* bib_net_done, bib_net_fail, bib_net_redirect: take() the client out of the
\* registry; without one the message is dropped.
NetTerminal(r, how) ==
  /\ registered' = registered \ {r}
  /\ client' = [client EXCEPT ![r] = IF r \in registered THEN how ELSE @]
  /\ UNCHANGED <<got, toBridge>>

\* The engine thread runs the oldest message of the page.
EngineReceive(t) ==
  /\ toEngine[t] # <<>>
  /\ toEngine' = [toEngine EXCEPT ![t] = Tail(@)]
  /\ LET m == Head(toEngine[t]) IN
       \/ m.op = "response" /\ NetResponse(m.id)
       \/ m.op = "data" /\ NetData(m.id, t, m.len)
       \/ m.op = "done" /\ NetTerminal(m.id, "done")
       \/ m.op = "fail" /\ NetTerminal(m.id, "failed")
       \/ m.op = "redirect" /\ NetTerminal(m.id, "redirected")
=============================================================================
