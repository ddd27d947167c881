------------------------------- MODULE Bridge -------------------------------
(***************************************************************************)
(* The fetch bridge of every viewer tab of a profile: src/shim/bridge.mjs, *)
(* with its redirect capture, its session rules and the engine at the      *)
(* other end of the link, and around them the browser: the network that    *)
(* answers fetch(), the webRequest events and the session-rule store,      *)
(* which all tabs share.                                                   *)
(*                                                                         *)
(* One action is one task of a tab's page, with the microtasks it resumes. *)
(* #begin and #stream are async functions: pc[r] is the await request r is *)
(* suspended at.  running[t] = r while the page of tab t is inside the     *)
(* slice loop of r: the engine, in its worker, and the browser may move    *)
(* then, but no other task of that page.                                   *)
(***************************************************************************)
EXTENDS RedirectCapture, SessionRules, NetBridge

CONSTANTS
  Http,        \* the http(s) URLs; evaluateRequest refuses every other one
  Window,      \* NET_WINDOW_BYTES
  Slice,       \* SLICE_BYTES
  MaxChunk,    \* the largest chunk the body reader hands out
  MaxResponse, \* CAPS.MAX_RESPONSE_BYTES
  Answers,     \* how the network may answer: a subset of Answer
  Cancels,     \* requests the engine may cancel
  Closable,    \* tabs that may be closed
  RulesFail,   \* may updateSessionRules reject for a reason of the browser's own?
  Prompt       \* are webRequest events delivered before an 800 ms take() gives up?

Answer == {"ok", "redirect", "synth", "error"}

ASSUME BridgeAssumption ==
  /\ Url \ Http \subseteq Denied
  /\ Window \in Nat \ {0} /\ Slice \in Nat \ {0}
  /\ MaxChunk \in Nat \ {0} /\ MaxResponse \in Nat
  /\ Answers \subseteq Answer /\ Cancels \subseteq Req /\ Closable \subseteq Tab
  /\ RulesFail \in BOOLEAN /\ Prompt \in BOOLEAN

VARIABLES
  up,        \* [Tab -> "closed", "starting" (Bridge.init) or "up"]
  running,   \* [Tab -> the request whose slice loop is on the page's stack]
  pc,        \* [Req -> Await]
  inflight,  \* requests in Bridge#inflight
  abort,     \* [Req -> reason its AbortController was aborted with, or "no"]
  ruleId,    \* [Req -> id of its session rule, 0 for null]
  fetched, took,            \* [Req -> BOOLEAN] the flags #finish reads
  unacked, bytes, rem,      \* [Req -> Nat] unacked; body so far; rest of the chunk
  idle,      \* [Req -> BOOLEAN] the idle timer is armed
  wire,      \* [Req -> Wire] where the browser is with the fetch
  answer,    \* [Req -> Answer] how the network answered
  carried,   \* [Req -> what the request carried when it hit the network]
  events     \* [Tab -> webRequest events not delivered to that page yet]

progressVars == <<pc, inflight, abort, ruleId, fetched, took>>
streamVars == <<unacked, bytes, rem, idle, running>>
netVars == <<wire, answer, carried>>
vars == <<up, progressVars, streamVars, netVars, events, captureVars, ruleVars,
          engineVars, channelVars>>

Await == {"new", "base", "add", "fetch", "takeErr", "takeOk", "read", "slice",
          "credit", "over"}
Wire == {"unsent", "queued", "sent", "answered", "settled"}
Carried == [rules : SUBSET Req, ua : UA \cup {Nobody}]

ProgressTypeOK ==
  /\ pc \in [Req -> Await]
  /\ inflight \in SUBSET Req
  /\ abort \in [Req -> {"no", "cancel", "idle", "too-large"}]
  /\ ruleId \in [Req -> RuleId \cup {0}]
  /\ fetched \in [Req -> BOOLEAN] /\ took \in [Req -> BOOLEAN]

StreamTypeOK ==
  /\ unacked \in [Req -> Int] /\ bytes \in [Req -> Nat] /\ rem \in [Req -> Nat]
  /\ idle \in [Req -> BOOLEAN]
  /\ running \in [Tab -> Req \cup {Nobody}]

BrowserTypeOK ==
  /\ up \in [Tab -> {"closed", "starting", "up"}]
  /\ wire \in [Req -> Wire] /\ answer \in [Req -> Answer]
  /\ carried \in [Req -> Carried]
  /\ events \in [Tab -> Seq(Entry)]

TypeOK ==
  /\ CaptureTypeOK /\ RulesTypeOK /\ NetTypeOK
  /\ ProgressTypeOK /\ StreamTypeOK /\ BrowserTypeOK

Init ==
  /\ CaptureInit /\ RulesInit /\ NetInit
  /\ up = [t \in Tab |-> "closed"]
  /\ running = [t \in Tab |-> Nobody]
  /\ pc = [r \in Req |-> "new"]
  /\ inflight = {}
  /\ abort = [r \in Req |-> "no"]
  /\ ruleId = [r \in Req |-> 0]
  /\ fetched = [r \in Req |-> FALSE] /\ took = [r \in Req |-> FALSE]
  /\ unacked = [r \in Req |-> 0] /\ bytes = [r \in Req |-> 0]
  /\ rem = [r \in Req |-> 0]
  /\ idle = [r \in Req |-> FALSE]
  /\ wire = [r \in Req |-> "unsent"] /\ answer = [r \in Req |-> "ok"]
  /\ carried = [r \in Req |-> [rules |-> {}, ua |-> Nobody]]
  /\ events = [t \in Tab |-> <<>>]

-----------------------------------------------------------------------------
(* The engine of a tab.                                                    *)

EngineStart(r) ==
  /\ up[TabOf[r]] = "up"
  /\ NetBridgeStart(r)
  /\ UNCHANGED <<up, progressVars, streamVars, netVars, events, captureVars, ruleVars>>

EngineCancel(r) ==
  /\ r \in Cancels
  /\ NetBridgeCancel(r)
  /\ UNCHANGED <<up, progressVars, streamVars, netVars, events, captureVars, ruleVars>>

EngineRun(t) ==
  /\ EngineReceive(t)
  /\ UNCHANGED <<up, progressVars, streamVars, netVars, events, captureVars, ruleVars>>

-----------------------------------------------------------------------------
(* The pieces #begin, #stream, #cancel and #ack are made of.               *)

\* r awaits a base install that has settled: its continuation is a microtask,
\* which no other task of the page comes before.
Due(r) == pc[r] = "base" /\ baseInstall[TabOf[r]] \in {"ok", "failed"}

PageIdle(t) == running[t] = Nobody /\ \A r \in Req : TabOf[r] = t => ~Due(r)

\* The head of the engine's messages is an op for r; the page takes it.
Receives(t, op, r) ==
  /\ PageIdle(t)
  /\ toBridge[t] # <<>>
  /\ Head(toBridge[t]).op = op
  /\ Head(toBridge[t]).id = r
  /\ toBridge' = [toBridge EXCEPT ![t] = Tail(@)]

\* #finish, all but its discard(): the request leaves #inflight, its timer and
\* its session rule go.
Finish(r) ==
  IF r \notin inflight THEN UNCHANGED <<inflight, idle, used, dnrOps>>
  ELSE
    /\ inflight' = inflight \ {r}
    /\ idle' = [idle EXCEPT ![r] = FALSE]
    /\ IF ruleId[r] = 0 THEN UNCHANGED <<used, dnrOps>>
       ELSE /\ used' = [used EXCEPT ![TabOf[r]] = @ \ {ruleId[r]}]
            /\ dnrOps' = [dnrOps EXCEPT ![TabOf[r]] = Append(@, RemoveOp(ruleId[r]))]

\* #fail: nothing for a request that has ended already.
Fail(r, kind) ==
  /\ Finish(r)
  /\ IF r \in inflight THEN PostToEngine(TabOf[r], Failure(r, kind))
     ELSE UNCHANGED toEngine

Goes(r, to) == pc' = [pc EXCEPT ![r] = to]

\* #begin calls fetch(): with an aborted signal it never reaches the network.
StartFetch(r) ==
  /\ fetched' = [fetched EXCEPT ![r] = TRUE]
  /\ Goes(r, "fetch")
  /\ wire' = [wire EXCEPT ![r] = IF abort[r] = "no" THEN "queued" ELSE "settled"]
  /\ UNCHANGED <<answer, carried>>

\* A faulty variant: the idle timer is armed by the first chunk only.
RespondUnarmed(r) ==
  /\ PostToEngine(TabOf[r], Signal("response", r, 0))
  /\ Goes(r, "read")
  /\ UNCHANGED <<idle, inflight, used, dnrOps>>

\* #begin hands the response over, and #stream starts with its idle timer.
Respond(r) ==
  /\ PostToEngine(TabOf[r], Signal("response", r, 0))
  /\ idle' = [idle EXCEPT ![r] = TRUE]
  /\ Goes(r, "read")
  /\ UNCHANGED <<inflight, used, dnrOps>>

\* #begin resumes with what capture.take() gave it (seenRedirect: an entry that
\* isRedirectEntry), after a fetch that resolved or rejected.  The rejected
\* path reports a redirect without asking whether the request is in flight.
ResumeTake(r, resolved, seenRedirect) ==
  /\ took' = [took EXCEPT ![r] = TRUE]
  /\ \/ /\ seenRedirect
        /\ resolved => r \in inflight
        /\ PostToEngine(TabOf[r], Signal("redirect", r, 0))
        /\ Finish(r)
        /\ Goes(r, "over")
     \/ /\ ~resolved /\ ~seenRedirect
        /\ Fail(r, "network")
        /\ Goes(r, "over")
     \/ /\ resolved /\ r \notin inflight
        /\ Goes(r, "over")
        /\ UNCHANGED <<toEngine, inflight, idle, used, dnrOps>>
     \/ resolved /\ ~seenRedirect /\ r \in inflight /\ Respond(r)
  /\ UNCHANGED <<abort, ruleId, fetched, unacked, bytes, rem, running, userAgent,
                 adopted, baseInstall, nextRuleId, dnr, baseUA>>

-----------------------------------------------------------------------------
(* #begin, up to the fetch.                                                *)

\* A top-level request the policy hands to the real tab, or one the guard list
\* refuses: it fails at once.
Refuse(t, r) ==
  /\ Receives(t, "begin", r)
  /\ \/ IsMain[r] /\ UrlOf[r] \in Http /\ PostToEngine(t, Failure(r, "cancelled"))
     \/ UrlOf[r] \in Denied /\ PostToEngine(t, Failure(r, "guard"))
  /\ Goes(r, "over")
  /\ UNCHANGED <<up, inflight, abort, ruleId, fetched, took, streamVars, netVars,
                 events, captureVars, ruleVars, engineVars>>

\* A request that goes ahead: adopt its UA if it is the first, take a rule id if
\* it has headers of its own, and await the base rule or the request's own.
Begin(t, r) ==
  LET ua == UAOf[r]
      own == HasHeaders[r] \/ ~RidesBase(t, ua)
  IN
  /\ Receives(t, "begin", r)
  /\ UrlOf[r] \notin Denied
  /\ inflight' = inflight \cup {r}
  /\ userAgent' = [userAgent EXCEPT ![t] = IF Adopts(t, ua) THEN ua ELSE @]
  /\ adopted' = [adopted EXCEPT ![t] = @ \/ Adopts(t, ua)]
  /\ baseInstall' = [baseInstall EXCEPT ![t] = IF Adopts(t, ua) THEN "pending" ELSE @]
  /\ \E id \in 0 .. MaxRuleId :
       /\ IF own THEN AllocRuleId(t, id) ELSE id = 0 /\ UNCHANGED <<nextRuleId, used>>
       /\ ruleId' = [ruleId EXCEPT ![r] = id]
       /\ Goes(r, IF RidesBase(t, ua) THEN "base" ELSE "add")
       /\ dnrOps' = [dnrOps EXCEPT ![t] =
            IF Adopts(t, ua) THEN Append(@, BaseOp(ua))
            ELSE IF RidesBase(t, ua) THEN @ ELSE Append(@, AddOp(id, r, ua))]
  /\ UNCHANGED <<up, abort, fetched, took, streamVars, netVars, events, captureVars,
                 dnr, baseUA, engineVars, toEngine>>

\* A faulty variant: the fetch goes out without the request's own rule.
BaseInstalledNoRule(r) ==
  /\ running[TabOf[r]] = Nobody
  /\ Due(r) /\ baseInstall[TabOf[r]] = "ok"
  /\ StartFetch(r)
  /\ UNCHANGED <<up, inflight, abort, ruleId, took, streamVars, events, captureVars,
                 ruleVars, engineVars, channelVars>>

\* The base rule is in: now the request's own, if it has one, else the fetch.
\* Nothing here asks whether the request is still in flight.
BaseInstalled(r) ==
  LET t == TabOf[r] IN
  /\ running[t] = Nobody
  /\ Due(r) /\ baseInstall[t] = "ok"
  /\ \/ /\ ruleId[r] # 0
        /\ dnrOps' = [dnrOps EXCEPT ![t] = Append(@, AddOp(ruleId[r], r, Nobody))]
        /\ Goes(r, "add")
        /\ UNCHANGED <<fetched, netVars>>
     \/ ruleId[r] = 0 /\ StartFetch(r) /\ UNCHANGED dnrOps
  /\ UNCHANGED <<up, inflight, abort, ruleId, took, streamVars, events, captureVars,
                 tabRuleVars, dnr, baseUA, engineVars, channelVars>>

\* The base install was rejected: so is every request that awaits it, now or
\* later, as the promise stays where it is.
BaseRejected(r) ==
  /\ running[TabOf[r]] = Nobody
  /\ Due(r) /\ baseInstall[TabOf[r]] = "failed"
  /\ Fail(r, "protocol")
  /\ Goes(r, "over")
  /\ UNCHANGED <<up, abort, ruleId, fetched, took, unacked, bytes, rem, running,
                 netVars, events, captureVars, userAgent, adopted, baseInstall,
                 nextRuleId, dnr, baseUA, engineVars, toBridge>>

-----------------------------------------------------------------------------
(* The browser executes the oldest updateSessionRules call of a tab, and   *)
(* the page resumes whoever awaits it.                                     *)

NextOp(t) == Head(dnrOps[t])

Executes(t, op) ==
  /\ PageIdle(t)
  /\ dnrOps[t] # <<>>
  /\ NextOp(t).op = op

\* The base rule: Bridge.init's, without a UA (the page then boots its engine),
\* or #adoptUA's.  A page that starts makes no call after init's, so init's is
\* the last; those before it are of the page before.
DnrBase(t) ==
  /\ Executes(t, "base")
  /\ dnrOps' = [dnrOps EXCEPT ![t] = Tail(@)]
  /\ \/ /\ baseUA' = NextOp(t).ua
        /\ baseInstall' = [baseInstall EXCEPT ![t] = IF @ = "pending" THEN "ok" ELSE @]
        /\ up' = [up EXCEPT ![t] = IF @ = "starting" /\ Tail(dnrOps[t]) = <<>> THEN "up" ELSE @]
     \/ /\ RulesFail /\ up[t] = "up"
        /\ baseInstall' = [baseInstall EXCEPT ![t] = "failed"]
        /\ UNCHANGED <<baseUA, up>>
  /\ UNCHANGED <<progressVars, streamVars, netVars, events, captureVars, userAgent,
                 adopted, nextRuleId, used, dnr, engineVars, channelVars>>

\* The rule of a request: accepted if its id is free, and the fetch begins.
DnrAdd(t) ==
  LET rule == NextOp(t).rule  r == rule.req IN
  /\ Executes(t, "add")
  /\ \A x \in dnr : x.id # rule.id
  /\ dnr' = dnr \cup {rule}
  /\ dnrOps' = [dnrOps EXCEPT ![t] = Tail(@)]
  /\ IF pc[r] = "add" THEN StartFetch(r) ELSE UNCHANGED <<fetched, pc, netVars>>
  /\ UNCHANGED <<up, inflight, abort, ruleId, took, streamVars, events, captureVars,
                 tabRuleVars, baseUA, engineVars, channelVars>>

\* A rule whose id is taken, by any tab, is rejected: the request fails, and
\* #finish asks for the removal of the id.
DnrReject(t) ==
  LET rule == NextOp(t).rule  r == rule.req IN
  /\ Executes(t, "add")
  /\ RulesFail \/ \E x \in dnr : x.id = rule.id
  /\ IF pc[r] = "add" /\ r \in inflight
       THEN /\ inflight' = inflight \ {r}
            /\ used' = [used EXCEPT ![t] = @ \ {ruleId[r]}]
            /\ dnrOps' = [dnrOps EXCEPT ![t] = Append(Tail(@), RemoveOp(ruleId[r]))]
            /\ PostToEngine(t, Failure(r, "protocol"))
       ELSE /\ dnrOps' = [dnrOps EXCEPT ![t] = Tail(@)]
            /\ UNCHANGED <<inflight, used, toEngine>>
  /\ pc' = [pc EXCEPT ![r] = IF @ = "add" THEN "over" ELSE @]
  /\ UNCHANGED <<up, abort, ruleId, fetched, took, streamVars, netVars, events,
                 captureVars, userAgent, adopted, baseInstall, nextRuleId, dnr, baseUA,
                 engineVars, toBridge>>

\* A removal takes the rule of that id away, whoever added it.
DnrRemove(t) ==
  /\ Executes(t, "remove")
  /\ dnr' = {x \in dnr : x.id # NextOp(t).id}
  /\ dnrOps' = [dnrOps EXCEPT ![t] = Tail(@)]
  /\ UNCHANGED <<up, progressVars, streamVars, netVars, events, captureVars,
                 tabRuleVars, baseUA, engineVars, channelVars>>

-----------------------------------------------------------------------------
(* The network behind fetch().                                             *)

\* The request leaves the browser with the headers the rules in force give it.
NetSend(r) ==
  /\ wire[r] = "queued"
  /\ wire' = [wire EXCEPT ![r] = "sent"]
  /\ \E ua \in UA \cup {Nobody} :
       /\ MayCarryUA(r, ua)
       /\ carried' = [carried EXCEPT ![r] = [rules |-> {x.req : x \in Matching(r)}, ua |-> ua]]
  /\ UNCHANGED <<up, progressVars, streamVars, answer, events, captureVars, ruleVars,
                 engineVars, channelVars>>

\* An answer comes.  webRequest tells every open viewer page of the extension:
\* "ok" a response, "redirect" a 3xx (fetch will reject), "synth" a redirect the
\* browser follows itself inside the same fetch (Firefox; fetch will resolve).
\* "error" has no headers and no event.  An aborted fetch may still be answered.
NetAnswer(r) ==
  /\ wire[r] = "sent"
  /\ wire' = [wire EXCEPT ![r] = "answered"]
  /\ \E a \in Answers :
       /\ answer' = [answer EXCEPT ![r] = a]
       /\ LET e == [req |-> r, redirect |-> a # "ok"] IN
          events' = [t \in Tab |-> IF a # "error" /\ up[t] # "closed"
                                     THEN Append(events[t], e) ELSE events[t]]
  /\ UNCHANGED <<up, progressVars, streamVars, carried, captureVars, ruleVars,
                 engineVars, channelVars>>

\* The browser gives up on a fetch that was aborted.
NetDrop(r) ==
  /\ wire[r] \in {"queued", "sent"}
  /\ abort[r] # "no"
  /\ wire' = [wire EXCEPT ![r] = "settled"]
  /\ UNCHANGED <<up, progressVars, streamVars, answer, carried, events, captureVars,
                 ruleVars, engineVars, channelVars>>

\* fetch() settles and #begin goes to the capture for its entry.
FetchSettles(r) ==
  LET t == TabOf[r]  u == UrlOf[r]  resolved == answer[r] \in {"ok", "synth"} IN
  /\ PageIdle(t)
  /\ pc[r] = "fetch"
  /\ wire[r] = "answered" /\ abort[r] = "no"
  /\ wire' = [wire EXCEPT ![r] = "settled"]
  /\ \/ /\ Captured(t, u)
        /\ TakeCaptured(t, u)
        /\ ResumeTake(r, resolved, Head(queues[t][u]).redirect)
     \/ /\ ~Captured(t, u)
        /\ Wait(t, u, r)
        /\ Goes(r, IF resolved THEN "takeOk" ELSE "takeErr")
        /\ UNCHANGED <<inflight, abort, ruleId, fetched, took, streamVars, ruleVars, toEngine>>
  /\ UNCHANGED <<up, answer, carried, events, engineVars, toBridge>>

\* The rejection an aborted fetch ends with finds the request gone.
FetchAborted(r) ==
  /\ PageIdle(TabOf[r])
  /\ pc[r] = "fetch" /\ abort[r] # "no"
  /\ Goes(r, "over")
  /\ wire' = [wire EXCEPT ![r] = "settled"]
  /\ UNCHANGED <<up, inflight, abort, ruleId, fetched, took, streamVars, answer, carried,
                 events, captureVars, ruleVars, engineVars, channelVars>>

-----------------------------------------------------------------------------
(* The capture's own tasks.                                                *)

\* Entries old enough for the sweep: their request ended, or is another tab's.
Stale(t, e) == e.req \notin inflight \/ TabOf[e.req] # t

Cuts(t) ==
  {cut \in [Url -> 0 .. Cardinality(Req)] :
     \A u \in Url : /\ cut[u] <= Len(queues[t][u])
                    /\ \A i \in 1 .. cut[u] : Stale(t, queues[t][u][i])}

\* onHeadersReceived / onBeforeRedirect: push the entry; a request it was
\* waiting for resumes.
EntryArrives(t) ==
  LET e == Head(events[t])  u == UrlOf[e.req]  w == Head(waiters[t][u]) IN
  /\ PageIdle(t)
  /\ events[t] # <<>>
  /\ events' = [events EXCEPT ![t] = Tail(@)]
  /\ \E cut \in Cuts(t) : Push(t, u, e, cut)
  /\ IF waiters[t][u] # <<>> /\ w # Nobody
       THEN ResumeTake(w, pc[w] = "takeOk", e.redirect)
       ELSE UNCHANGED <<progressVars, streamVars, ruleVars, toEngine>>
  /\ UNCHANGED <<up, netVars, engineVars, toBridge>>

\* An event for URL u may still reach tab t: one is on its way, or an aborted
\* fetch of the tab may yet be answered.
EntryMayCome(t, u) ==
  \/ \E i \in DOMAIN events[t] : UrlOf[events[t][i].req] = u
  \/ \E r \in Req : /\ TabOf[r] = t /\ UrlOf[r] = u /\ abort[r] # "no"
                    /\ wire[r] \in {"queued", "sent"}

TakeTimesOut(t, u) ==
  LET w == Head(waiters[t][u]) IN
  /\ PageIdle(t)
  /\ GiveUp(t, u)
  /\ Prompt => ~EntryMayCome(t, u)
  /\ IF w # Nobody THEN ResumeTake(w, pc[w] = "takeOk", FALSE)
     ELSE UNCHANGED <<progressVars, streamVars, ruleVars, toEngine>>
  /\ UNCHANGED <<up, netVars, events, engineVars, toBridge>>

-----------------------------------------------------------------------------
(* #stream.                                                                *)

\* A faulty variant: a chunk too many fails the request, and is delivered.
ReadChunkGoesOn(r) ==
  /\ PageIdle(TabOf[r])
  /\ pc[r] = "read" /\ abort[r] = "no"
  /\ \E n \in 1 .. MaxChunk :
       /\ bytes' = [bytes EXCEPT ![r] = @ + n]
       /\ rem' = [rem EXCEPT ![r] = n]
       /\ Goes(r, "slice")
       /\ running' = [running EXCEPT ![TabOf[r]] = r]
       /\ IF bytes[r] + n > MaxResponse
            THEN abort' = [abort EXCEPT ![r] = "too-large"] /\ Fail(r, "too-large")
            ELSE /\ idle' = [idle EXCEPT ![r] = TRUE]
                 /\ UNCHANGED <<abort, inflight, used, dnrOps, toEngine>>
  /\ UNCHANGED <<up, ruleId, fetched, took, unacked, netVars, events, captureVars,
                 userAgent, adopted, baseInstall, nextRuleId, dnr, baseUA, engineVars,
                 toBridge>>

\* read() gives a chunk: re-arm the idle timer, then deliver it in slices.
ReadChunk(r) ==
  /\ PageIdle(TabOf[r])
  /\ pc[r] = "read" /\ abort[r] = "no"
  /\ \E n \in 1 .. MaxChunk :
       /\ bytes' = [bytes EXCEPT ![r] = @ + n]
       /\ \/ /\ bytes[r] + n > MaxResponse
             /\ abort' = [abort EXCEPT ![r] = "too-large"]
             /\ Fail(r, "too-large")
             /\ Goes(r, "over")
             /\ UNCHANGED <<rem, running>>
          \/ /\ bytes[r] + n <= MaxResponse
             /\ idle' = [idle EXCEPT ![r] = TRUE]
             /\ rem' = [rem EXCEPT ![r] = n]
             /\ Goes(r, "slice")
             /\ running' = [running EXCEPT ![TabOf[r]] = r]
             /\ UNCHANGED <<abort, inflight, used, dnrOps, toEngine>>
  /\ UNCHANGED <<up, ruleId, fetched, took, unacked, netVars, events, captureVars,
                 userAgent, adopted, baseInstall, nextRuleId, dnr, baseUA, engineVars,
                 toBridge>>

\* A faulty variant: the window is asked once for a chunk, not before each slice.
DeliverSliceUnchecked(r) ==
  LET t == TabOf[r]  n == rem[r] IN
  /\ running[t] = r
  /\ PostToEngine(t, Signal("data", r, n))
  /\ unacked' = [unacked EXCEPT ![r] = @ + n]
  /\ rem' = [rem EXCEPT ![r] = 0]
  /\ Goes(r, "read")
  /\ running' = [running EXCEPT ![t] = Nobody]
  /\ UNCHANGED <<up, inflight, abort, ruleId, fetched, took, bytes, idle, netVars,
                 events, captureVars, ruleVars, engineVars, toBridge>>

\* One turn of the slice loop, the window permitting.
DeliverSlice(r) ==
  LET t == TabOf[r]  n == IF rem[r] < Slice THEN rem[r] ELSE Slice IN
  /\ running[t] = r
  /\ unacked[r] < Window
  /\ PostToEngine(t, Signal("data", r, n))
  /\ unacked' = [unacked EXCEPT ![r] = @ + n]
  /\ rem' = [rem EXCEPT ![r] = @ - n]
  /\ Goes(r, IF rem[r] = n THEN "read" ELSE "slice")
  /\ running' = [running EXCEPT ![t] = IF rem[r] = n THEN Nobody ELSE r]
  /\ UNCHANGED <<up, inflight, abort, ruleId, fetched, took, bytes, idle, netVars,
                 events, captureVars, ruleVars, engineVars, toBridge>>

\* The window is full: the loop awaits an ack.
AwaitCredit(r) ==
  /\ running[TabOf[r]] = r
  /\ unacked[r] >= Window
  /\ Goes(r, "credit")
  /\ running' = [running EXCEPT ![TabOf[r]] = Nobody]
  /\ UNCHANGED <<up, inflight, abort, ruleId, fetched, took, unacked, bytes, rem, idle,
                 netVars, events, captureVars, ruleVars, engineVars, channelVars>>

ReadEnd(r) ==
  /\ PageIdle(TabOf[r])
  /\ pc[r] = "read" /\ abort[r] = "no"
  /\ PostToEngine(TabOf[r], Signal("done", r, 0))
  /\ Finish(r)
  /\ Goes(r, "over")
  /\ UNCHANGED <<up, abort, ruleId, fetched, took, unacked, bytes, rem, running, netVars,
                 events, captureVars, userAgent, adopted, baseInstall, nextRuleId, dnr,
                 baseUA, engineVars, toBridge>>

\* read() rejects: the network broke off, the idle timer or a cancel aborted it.
ReadFails(r) ==
  /\ PageIdle(TabOf[r])
  /\ pc[r] = "read"
  /\ Fail(r, IF abort[r] = "idle" THEN "timeout"
             ELSE IF abort[r] # "no" THEN "cancelled" ELSE "network")
  /\ Goes(r, "over")
  /\ UNCHANGED <<up, abort, ruleId, fetched, took, unacked, bytes, rem, running, netVars,
                 events, captureVars, userAgent, adopted, baseInstall, nextRuleId, dnr,
                 baseUA, engineVars, toBridge>>

IdleTimerFires(r) ==
  /\ PageIdle(TabOf[r])
  /\ idle[r]
  /\ idle' = [idle EXCEPT ![r] = FALSE]
  /\ abort' = [abort EXCEPT ![r] = IF @ = "no" THEN "idle" ELSE @]
  /\ UNCHANGED <<up, pc, inflight, ruleId, fetched, took, unacked, bytes, rem, running,
                 netVars, events, captureVars, ruleVars, engineVars, channelVars>>

-----------------------------------------------------------------------------
(* The engine's cancels and acks reach the page.                           *)

\* #cancel: abort the fetch and fail the request; #finish discards the entry of
\* a fetch that has not claimed one, and wakes a stream that awaits credit.
ReceiveCancel(t, r) ==
  /\ Receives(t, "cancel", r)
  /\ abort' = [abort EXCEPT ![r] = IF r \in inflight /\ @ = "no" THEN "cancel" ELSE @]
  /\ Fail(r, "cancelled")
  /\ IF r \in inflight /\ fetched[r] /\ ~took[r] THEN Discard(t, UrlOf[r])
     ELSE UNCHANGED captureVars
  /\ pc' = [pc EXCEPT ![r] = IF @ = "credit" THEN "over" ELSE @]
  /\ UNCHANGED <<up, ruleId, fetched, took, unacked, bytes, rem, running, netVars, events,
                 userAgent, adopted, baseInstall, nextRuleId, dnr, baseUA, engineVars>>

\* A faulty variant: the stream an ack wakes reads on, the rest of its chunk lost.
ReceiveAckDropsRest(t, r) ==
  /\ Receives(t, "ack", r)
  /\ unacked' = [unacked EXCEPT ![r] =
                   IF r \in inflight THEN @ - Head(toBridge[t]).len ELSE @]
  /\ pc' = [pc EXCEPT ![r] = IF @ = "credit" THEN "read" ELSE @]
  /\ UNCHANGED <<up, inflight, abort, ruleId, fetched, took, bytes, rem, idle, running,
                 netVars, events, captureVars, ruleVars, engineVars, toEngine>>

\* A faulty variant: #ack forgets to wake the stream that awaits credit.
ReceiveAckNoWake(t, r) ==
  /\ Receives(t, "ack", r)
  /\ unacked' = [unacked EXCEPT ![r] =
                   IF r \in inflight THEN @ - Head(toBridge[t]).len ELSE @]
  /\ UNCHANGED <<up, progressVars, bytes, rem, idle, running, netVars, events,
                 captureVars, ruleVars, engineVars, toEngine>>

\* #ack: give the credit back; below the window, the slice loop goes on.
ReceiveAck(t, r) ==
  LET left == unacked[r] - Head(toBridge[t]).len
      wakes == r \in inflight /\ pc[r] = "credit" /\ left < Window
  IN
  /\ Receives(t, "ack", r)
  /\ unacked' = [unacked EXCEPT ![r] = IF r \in inflight THEN left ELSE @]
  /\ pc' = [pc EXCEPT ![r] = IF wakes THEN "slice" ELSE @]
  /\ running' = [running EXCEPT ![t] = IF wakes THEN r ELSE @]
  /\ UNCHANGED <<up, inflight, abort, ruleId, fetched, took, bytes, rem, idle, netVars,
                 events, captureVars, ruleVars, engineVars, toEngine>>

-----------------------------------------------------------------------------
(* Tabs come and go.                                                       *)

\* bootEngine: start the capture and reinstall the base rule, which knows no UA
\* yet; the engine boots when that is done.  What the page before asked of the
\* browser may still be on its way.
OpenTab(t) ==
  /\ up[t] = "closed"
  /\ up' = [up EXCEPT ![t] = "starting"]
  /\ dnrOps' = [dnrOps EXCEPT ![t] = Append(@, BaseOp(Nobody))]
  /\ UNCHANGED <<progressVars, streamVars, netVars, events, captureVars, tabRuleVars,
                 dnr, baseUA, engineVars, channelVars>>

\* The page goes (closed, reloaded, crashed): everything in it is gone, and
\* nothing is told to the browser but what was already on its way.
CloseTab(t) ==
  LET mine == {r \in Req : TabOf[r] = t /\ client[r] # "new"} IN
  /\ t \in Closable /\ up[t] = "up"
  /\ up' = [up EXCEPT ![t] = "closed"]
  /\ running' = [running EXCEPT ![t] = Nobody]
  /\ inflight' = inflight \ mine
  /\ pc' = [r \in Req |-> IF r \in mine THEN "over" ELSE pc[r]]
  /\ abort' = [r \in Req |-> IF r \in mine /\ abort[r] = "no" THEN "cancel" ELSE abort[r]]
  /\ idle' = [r \in Req |-> idle[r] /\ r \notin mine]
  /\ registered' = registered \ mine
  /\ client' = [r \in Req |-> IF r \in mine /\ client[r] \notin Ended THEN "cancelled"
                              ELSE client[r]]
  /\ toBridge' = [toBridge EXCEPT ![t] = <<>>]
  /\ toEngine' = [toEngine EXCEPT ![t] = <<>>]
  /\ events' = [events EXCEPT ![t] = <<>>]
  /\ CaptureReset(t)
  /\ userAgent' = [userAgent EXCEPT ![t] = Nobody]
  /\ adopted' = [adopted EXCEPT ![t] = FALSE]
  /\ baseInstall' = [baseInstall EXCEPT ![t] = "none"]
  /\ nextRuleId' = [nextRuleId EXCEPT ![t] = MinRuleId]
  /\ used' = [used EXCEPT ![t] = {}]
  /\ wire' = [r \in Req |-> IF r \in mine /\ wire[r] = "queued" THEN "settled"
                            ELSE wire[r]]
  /\ UNCHANGED <<ruleId, fetched, took, unacked, bytes, rem, answer, carried, dnrOps, dnr,
                 baseUA, got>>

-----------------------------------------------------------------------------
PageTask(t) ==
  \/ EntryArrives(t)
  \/ \E u \in Url : TakeTimesOut(t, u)
  \/ \E r \in Req : \/ Refuse(t, r) \/ Begin(t, r)
                    \/ ReceiveCancel(t, r) \/ ReceiveAck(t, r)

RequestTask(r) ==
  \/ BaseInstalled(r) \/ BaseRejected(r)
  \/ FetchSettles(r) \/ FetchAborted(r)
  \/ ReadChunk(r) \/ ReadEnd(r) \/ ReadFails(r) \/ IdleTimerFires(r)
  \/ DeliverSlice(r) \/ AwaitCredit(r)

BrowserTask(t) == DnrBase(t) \/ DnrAdd(t) \/ DnrReject(t) \/ DnrRemove(t)

Network(r) == NetSend(r) \/ NetAnswer(r) \/ NetDrop(r)

Next ==
  \/ \E t \in Tab : \/ PageTask(t) \/ BrowserTask(t) \/ EngineRun(t)
                    \/ OpenTab(t) \/ CloseTab(t)
  \/ \E r \in Req : \/ EngineStart(r) \/ EngineCancel(r)
                    \/ RequestTask(r) \/ Network(r)

Spec == Init /\ [][Next]_vars

\* The page's event loop, the engine's and the browser's run what is ready, and
\* timers fire.  Nothing is asked of the engine's own requests and cancels, of
\* the servers (a fetch may stay unanswered, a body may stall or never end), nor
\* of the user who opens and closes tabs.
Fairness ==
  /\ \A t \in Tab :
       /\ WF_vars(EntryArrives(t))
       /\ \A u \in Url : WF_vars(TakeTimesOut(t, u))
       /\ WF_vars(\E r \in Req : \/ Refuse(t, r) \/ Begin(t, r)
                                 \/ ReceiveCancel(t, r) \/ ReceiveAck(t, r))
       /\ WF_vars(BrowserTask(t))
       /\ WF_vars(EngineRun(t))
  /\ \A r \in Req :
       /\ WF_vars(BaseInstalled(r)) /\ WF_vars(BaseRejected(r))
       /\ WF_vars(NetSend(r)) /\ WF_vars(FetchSettles(r)) /\ WF_vars(FetchAborted(r))
       /\ WF_vars(DeliverSlice(r)) /\ WF_vars(AwaitCredit(r))
       /\ WF_vars(IdleTimerFires(r))
       /\ WF_vars(abort[r] # "no" /\ ReadFails(r))

FairSpec == Spec /\ Fairness

-----------------------------------------------------------------------------
(* The response stream.                                                    *)

\* The bytes of one response the engine has not acknowledged never exceed the
\* window by a whole slice, however large the chunks the reader hands out and
\* however late the acks (#stream's "can't overshoot it").
WindowRespected == \A r \in Req : unacked[r] < Window + Slice

\* A client that was told "done" has consumed every byte the bridge read: no
\* slice is dropped or overtaken, through any wait for credit.
DeliveredInFull == \A r \in Req : client[r] = "done" => got[r] = bytes[r]

Terminal == {"done", "fail", "redirect"}

\* Messages i and j of tab t's channel to the engine are both about request r.
AboutBoth(r, i, j) == toEngine[TabOf[r]][i].id = r /\ toEngine[TabOf[r]][j].id = r

\* A client gets one terminal event, and nothing after it: of the messages about
\* a request the engine still waits for only the last may be terminal, and none
\* is left for one whose terminal event was delivered (BibNetBridge.h, "one request
\* id maps to exactly one terminal callback").
OneTerminalEvent ==
  \A r \in Req : LET channel == toEngine[TabOf[r]] IN
    /\ r \in registered =>
         \A i, j \in DOMAIN channel :
           AboutBoth(r, i, j) /\ channel[i].op \in Terminal => j <= i
    /\ client[r] \in {"done", "failed", "redirected"} =>
         \A i \in DOMAIN channel : channel[i].id # r

\* What a client hears of its request follows the load protocol: a response, at
\* most once, then the end; a redirect only instead of a response; nothing at
\* all once it has ended or was cancelled.
ClientProtocol ==
  [][\A r \in Req : client'[r] # client[r] =>
       \/ client[r] = "new" /\ client'[r] = "open"
       \/ client[r] = "open" /\ client'[r] \in {"responded"} \cup (Ended \ {"done"})
       \/ client[r] = "responded" /\ client'[r] \in Ended \ {"redirected"}]_vars

\* A request the engine waits for ends, unless the server never answers it: no
\* lost wake-up of a stream that awaits credit, no rule, take() or stalled body
\* (the idle timer) leaves it hanging.
RequestsEnd == \A r \in Req : <>[](r \in registered => wire[r] = "sent")

-----------------------------------------------------------------------------
(* Redirect capture.                                                       *)

\* An entry is never left in a queue while somebody waits for one of its URL.
QueueOrWaiters == \A t \in Tab, u \in Url : queues[t][u] = <<>> \/ waiters[t][u] = <<>>

\* Every captured entry is claimed or discarded: a queue never holds more
\* entries than there are fetches of its URL that will go and take one (the
\* sweep, "the backstop for whatever we didn't think of", has nothing to do).
NoOrphans ==
  \A t \in Tab, u \in Url :
    Len(queues[t][u])
      <= Cardinality({r \in Req : TabOf[r] = t /\ UrlOf[r] = u
                                /\ pc[r] = "fetch" /\ abort[r] = "no"})

\* A redirect is reported to the engine only for a request the browser really
\* saw redirected ("a 3xx was observed iff it was a redirect", bridge.mjs).
RedirectsAreReal ==
  \A r \in Req : client[r] = "redirected" => answer[r] \in {"redirect", "synth"}

-----------------------------------------------------------------------------
(* Session rules.                                                          *)

\* The rule ids a tab holds are those of its requests in flight, and no two of
\* these share one ("collisions guarded by the bridge's in-flight set").
RuleIdsMatch ==
  /\ \A t \in Tab : used[t] = {ruleId[r] : r \in {x \in inflight : TabOf[x] = t}} \ {0}
  /\ \A r, s \in inflight :
       r # s /\ TabOf[r] = TabOf[s] /\ ruleId[r] = ruleId[s] => ruleId[r] = 0

\* Requests that reached the network and were not aborted.  (An aborted fetch may
\* lose its rule before the browser has dropped it; nobody reads its answer.)
OnTheWire == {r \in Req : wire[r] \in {"sent", "answered"} /\ abort[r] = "no"}

\* A request never leaves without the headers the engine put on it: its own
\* rule is in force when it does ("the bridge fails the request rather than
\* fetch without its headers", bridge-rules.mjs).
OwnHeadersRide == \A r \in OnTheWire : HasHeaders[r] => r \in carried[r].rules

\* The User-Agent on the wire is the one the engine sent ("the wire must agree
\* with what guest JS reads from navigator.userAgent", bridge-rules.mjs).
UserAgentAgrees == \A r \in OnTheWire : carried[r].ua = UAOf[r]

\* A rule is "removed after its terminal event": one that outlives its request
\* has its removal on the way, after any addition still to come.
RulesRemoved ==
  \A x \in dnr :
    \/ x.req \in inflight
    \/ \E i \in DOMAIN dnrOps[TabOf[x.req]] :
         dnrOps[TabOf[x.req]][i] = RemoveOp(x.id)
=============================================================================
