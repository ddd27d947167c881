# Browsception: a verification project

Browsception is a browser extension that runs web pages inside a second browser
engine: WebKit, compiled to WebAssembly, in a worker of an extension page (the
*viewer*). The engine has no network, no disk and no screen of its own. A request
becomes a `fetch()` of the viewer page, a frame becomes a transferred buffer, the
engine's cookies become a file of the extension's origin, and its history becomes
the tab's. What can go wrong is between the parts: three event loops (page, worker,
browser), asynchronous browser APIs that are shared by every tab, and state kept on
both sides of a message channel.

This directory holds TLA+ models of those parts, translated from the source, what
TLC finds about small instances of them, and proofs of what holds for every instance.
Paths below are relative to the repository's root; `bridge.mjs` is
`src/shim/bridge.mjs`, and so on, where the name is unambiguous.

## 1. The system's parts

| part | source | state | operations |
| --- | --- | --- | --- |
| Fetch bridge | `src/shim/bridge.mjs` | requests in flight with their abort controller, rule id, unacknowledged bytes and idle timer | begin, stream, cancel, ack, fail, redirect, finish |
| Redirect capture | `src/shim/redirect-capture.mjs` | queues of captured responses and of waiters, by URL | webRequest events, take, discard, sweep |
| Session rules | `src/ext/bridge-rules.mjs`, `bridge.mjs` | base rule, per-request rules, ids in use, adopted User-Agent | install, adopt, add, remove |
| Engine net bridge | `engine/.../BibNetBridge.cpp` | registry of clients by request id | start, cancel, response, data, done, fail, redirect |
| Engine link | `src/ext/engine-link.mjs`, `engine-worker.js` | two FIFO channels, dead flag | post, receive, terminate |
| Resource loading | `engine/.../EmbedderStrategies.cpp` | per load: request id, queued buffers, pending completion | start, cancel, redirect hop, finish |
| Tab-history mirror | `src/ext/viewer.mjs`, `BibBackForward.h` | mirrored entry, wanted entry, hop in flight; the engine's list | url signal, popstate, drive, load |
| Rule reconciliation | `src/ext/sw.mjs`, `dnr-rules.mjs` | stored lists, dynamic rules, escape grants, badges | apply, sweep, grant, revoke |
| Popup and options | `src/ext/popup.mjs`, `options.mjs` | a copy of the stored lists | edit, save |
| Persistence | `viewer.mjs`, `main.cpp`, `BibStorage.h` | last blob posted, pending blob, file | check, post, write, retry, seed |
| Frame pipeline | `main.cpp`, `engine-worker.js`, `engine-link.mjs` | damage, frame in flight, band buffer | render, push, present, return, resize |
| Input forwarding | `viewer.mjs`, `keys.mjs` | coalesced move and wheel | move, wheel, button, key, tick |
| Engine lifecycle | `viewer.mjs`, `engine-link.mjs`, `engine-pre.js` | phase, dead; wake-up channel, armed timeout | boot, ready, pump, abort, kill |
| Viewer URL codec | `viewer-url.mjs`, `viewer.mjs` | the tab's address | read, write, normalise |
| Request guard | `src/shim/guard.mjs` | none | evaluate |
| Development transport | `engine/.../web/bib-net.js`, `tools/dev-server.mjs` | requests in flight | begin, cancel, proxy |
| Media stub | `engine/.../web/media-stub.js` | load token, error, listeners | load, subscribe, dispatch |
| Guest wasm polyfill | `engine/.../web/wasm-polyfill.js` | cursor, count | scan, compile, validate |
| Staging and release | `scripts/stage-engine.mjs`, `release.mjs`, `build-engine.sh` | build output, snapshots with their hashes; staged files and their record | hash, compile, stamp, prune; stage, retry, release |
| Bench harness | `scripts/bench/` | expected colours, watch | rep, click, type |

How they interact on the network path:

    engine worker                      page of the tab                 browser (shared by all tabs)
    BibResourceLoad                    Bridge                          session rules (declarativeNetRequest)
      netBridgeStart   -- begin -->      #begin  -- updateSessionRules -->   base rule, per-request rules
      netBridgeCancel  -- cancel ->      #cancel -- fetch() ---------->   network
      netBridgeAck     -- ack ---->      #ack    <- promise settles ---
      bib_net_*        <- response, data, done, fail, redirect -- #stream
                                       RedirectCapture <- webRequest events -- (to every viewer page)

The other parts meet at the same two channels: input and history go to the engine as
export calls, frames, profile dumps and history signals come back; the viewer's tab, its
file and its policy are shared, through the browser, with the other tabs, the popup, the
options page and the background script.

The hard behaviours are the `hazards` of `PROJECT.json`, each with its line and the
properties that cover it. In short:

- *bridge*: a request is suspended at up to five awaits, and may be cancelled at each
  of them; what it checked before is stale after. It must end once, with one event.
- *flow control*: chunks larger than the window; a loop suspended in the middle of one.
- *capture*: events and promises of one fetch settle in either order, and fetches of
  one URL are told apart only by order.
- *rules*: asynchronous, shared by tabs that do not know of each other, and left behind
  by a page that goes away.
- *history*: two histories, each moved by its own user or page, with stale indices.
- *reconciliation*: a sweep over tabs that change under it; grants against closing tabs.
- *persistence*: a change detector ahead of a write that can fail; one file, many tabs.
- *frames*: one buffer that travels; damage that must survive back-pressure and failed paints.
- *input*: coalesced moves and deltas against buttons; pastes that are packed meanwhile.
- *lifecycle*: an engine that runs only when pumped; wake-ups lost to exceptions; deaths nobody sees.
- *tools*: sources edited under a build, snapshots pruned under a staging, answers after a cancel,
  frames of an earlier input.

What makes each part correct:

- Bridge: one terminal event a request, nothing after it; what completes is complete;
  every request ends unless the server never answers.
- Flow control: credit is conserved; the window bounds what is in flight; no deadlock.
- Capture: an entry meets its fetch; nothing stays behind; a redirect is reported
  exactly for what was redirected.
- Session rules: what leaves carries what the engine asked for; an id has one owner;
  rules end with their request.
- History: the tab's entry and the engine's page agree once both are quiet.
- Reconciliation: tabs end up where the last state sends them; a grant dies with its tab.
- Persistence: once quiet, the file holds what the engine has; no tab undoes another's.
- Frames: what the page shows becomes what the engine painted; the pipeline never stops.
- Input: what precedes a button reaches the engine before it; every delta once.
- Lifecycle: ready work has its wake-up coming; a dead engine is shown to the user.
- URL codec: whoever reads a tab's address reads what was written.
- Staging: the record names what the staged files were built from.

## 2. The modules

| module | models | builds on |
| --- | --- | --- |
| `Requests` | tabs, requests and what each asks for (constants) | |
| `RedirectCapture` | `redirect-capture.mjs`: `queues`, `waiters` | `Requests` |
| `SessionRules` | rule ids, UA adoption, the browser's rule store and the calls on their way to it | `Requests` |
| `NetBridge` | `BibNetBridge.cpp` and the two message channels | `Requests` |
| `Bridge` | `bridge.mjs`, the browser around it, tabs that open and close; composes the three above | all of them |
| `FlowControl` | abstract specification: the credit protocol of one response | |
| `BridgeChecks` | properties that count channel contents; `Bridge` implements `FlowControl` for every request | `Bridge`, `FlowControl` |
| `MCBridge` | values of the constants for TLC | `BridgeChecks` |
| `Reconcile`, `MCReconcile` | `sw.mjs`, `dnr-rules.mjs`, `list-match.mjs`, `popup.mjs`, `options.mjs`: stored state, rules, grants, tabs, every await a step | |
| `TabHistory` | `viewer.mjs:285-387` against `BibBackForward.h` and the url signals | |
| `Frames` | damage, paint, the transfer buffer, resize, readback | |
| `Persist` | seeding, change detection, write loop | |
| `Input` | the input section of `viewer.mjs`, `keys.mjs` | |
| `Pump` | `engine-pre.js`'s hooks, `bib_pump`, boot, abort and the crash strip | |
| `ViewerUrl` | `viewer-url.mjs` and its users | |
| `DevNet`, `MediaStub`, `WasmScan` | `bib-net.js`, `media-stub.js`, `wasm-polyfill.js` | |
| `Staging`, `Bench` | `stage-engine.mjs`, `release.mjs` and the build's bookkeeping; the bench's input kind | |
| `Parts` | the eleven modules from `TabHistory` to `Bench`, side by side, with values for TLC | those eleven |
| `FlowControlProofs`, `ReconcileProofs`, `FramesProofs`, `PersistProofs` | theorems | the module each is named for |
| `BridgeProofs`, `StreamProofs`, `WireProofs` | theorems about `Bridge`: types, window, capture queues and rule ids; the response streams; what a request carries and what the capture keeps, with one tab | `Bridge`, `BridgeChecks` |
| `PartsProofs` | theorems about `TabHistory`, `Input`, `Pump`, `DevNet`, `MediaStub`, `Staging`, `ViewerUrl`, `Bench` and `WasmScan`, a section each | those nine |

### Bridge: how the state corresponds to the code

`pc[r]` is the await at which `#begin` or `#stream` of request `r` is suspended:

| `pc[r]` | `bridge.mjs` |
| --- | --- |
| `new` | `#begin` not called |
| `base` | :238, awaits the base rule's install |
| `add` | :239, awaits its own rule |
| `fetch` | :251, awaits `fetch()` |
| `takeErr`, `takeOk` | :266, :273, awaits `capture.take()` after a fetch that rejected, resolved |
| `read` | :312, awaits the reader |
| `slice` | :326, inside the slice loop |
| `credit` | :328, awaits credit |
| `over` | returned |

`inflight`, `abort`, `ruleId`, `fetched`, `took`, `unacked`, `idle` are the fields of
`#inflight`'s entries; `bytes` and `rem` the locals of `#stream`. `registered` is
`netClientRegistry`; `client[r]` and `got[r]` are what the client has been told and
given. `toBridge[t]`, `toEngine[t]` are the worker's two message channels. `dnrOps[t]`
are the `updateSessionRules` calls of a page that the browser has not executed yet,
`dnr` and `baseUA` the rules in force, for all tabs. `wire`, `answer`, `carried`,
`events` are the browser: where a fetch is, how it was answered, what it carried, and
the webRequest events not delivered yet.

### Bridge: how the actions correspond

An action is one task of one thread, with the microtasks it resumes: JavaScript does not
interleave inside a task, so a handler is one step, from the message or settled promise
that starts it to the next await. Two consequences deserve a word.

- `running[t] = r`: a long task, the slice loop, is split into one step a slice, because
  the engine (in its worker) and the browser do run meanwhile; no other task of that page
  does (`PageIdle`).
- `Due(r)`: a request that awaits an install that has settled resumes as a microtask,
  before any other task of the page.

| actions | code |
| --- | --- |
| `EngineStart`, `EngineCancel`, `EngineRun` | `netBridgeStart`, `netBridgeCancel`; the `bib_net_*` exports in message order |
| `Refuse`, `Begin` | `#begin` up to its first await |
| `BaseInstalled`, `BaseRejected` | `#begin` after :238 |
| `DnrBase`, `DnrAdd`, `DnrReject`, `DnrRemove` | the browser executes a call; `#begin` after :239 |
| `NetSend`, `NetAnswer`, `NetDrop` | the browser: the request leaves, is answered (and every viewer page is told), is dropped |
| `FetchSettles`, `FetchAborted` | `#begin` after :251 |
| `EntryArrives`, `TakeTimesOut` | a webRequest event; the 800 ms timer; either may resume `#begin` after `take()` |
| `ReadChunk`, `DeliverSlice`, `AwaitCredit`, `ReadEnd`, `ReadFails`, `IdleTimerFires` | `#stream` |
| `ReceiveCancel`, `ReceiveAck` | `#cancel`, `#ack` |
| `OpenTab`, `CloseTab` | `bootEngine` up to `link.boot`; the page goes away |

Abstractions. A body is a number of bytes, a URL, a User-Agent and a header set are
values; the guard is the set `Denied`; the navigation policy may send any http(s)
document to the real tab. A response's several webRequest events of one hop are one
entry. A `Set-Cookie` of a rejected or discarded fetch is not followed. Chunks are never
empty. `NetData` posts its ack before a cancel its client may issue while consuming the
bytes (the code posts it after); the Bridge ignores either of the two in the second
position, so the order makes no difference. Nothing on the page throws.

### The other modules

`Reconcile`. `apply` is the running `doApply`, `apply.pc` the await it is at, `apply.last` how the
last one ended; `pending` counts the applies chained on `applying`, the running one included.
`hatch[t]` holds the open-natively handlers of a tab, by the call each awaits: the popup's button
stays until one answers, so they overlap, and each call is served in the order it was made.
`failed[t]` says which of their calls was rejected last, `cleanup` holds the two calls `onRemoved`
starts and awaits neither of. `popup` and `options` hold what those pages read when they were
rendered. `escapes` are the session rules, `grants` their mirror in `storage.session`. A host is
its sequence of labels, so that a list entry covers a host when it is a prefix; an address is one
label, which has no subdomains, and an `exact` entry ("=host") covers its host alone. `Apply` is one await of
`doApply`, `ApplyFails` any of its calls that rejects. `WorkerStops` is a background script that
ends at any await, unless it owes an answer; it is `asleep` then until an `Event` comes, whose
listener runs after the script's own last line, an apply. `Restart` is the browser's.

`TabHistory`. `tab` is the browser's session history, `viewer` the fields of `bs.state` and the
mirror's own variables, `engine` the list and the load in progress. `Popstate`, `Drive` and
`LoadEntry` are the functions of those names, `ReceiveUrl` is `syncTabHistory` and `drive` on a
url signal. What the guest does is any link, history call or rewrite; the list's entries have
identities, because `goToItem` looks for the item and not for its address. A load commits and
finishes (`Commit`, `Finish`), or ends before or after its commit: with a failure that is
signalled (`Fail`), or as a cancellation, of which `emitLoadFailed` says nothing (`Cancel`).

`Frames`. A screen is a column of bands, which can be a height and what the guest shows in
each; a rectangle is a set of bands, and what merging may add to one is a choice. `fb` is the
framebuffer, `canvas` the page's, `damage` and `upload` the two lists between them. `Tick` is
`bib_tick`: back-pressure, paint, hand over; `PaintFailed` is an exception of a rectangle's
paint. A paint may invalidate more (`late`).

`Persist`. A snapshot is a value for each site, with its writer and number; `profiles[t]` the
engine's side (seed, opened areas, last dump), `pages[t]` the page's (pending, timer, writing).
`Dump` is
`bibMaybePersist`, which sends nothing of a profile over 12 MB (`Oversized`), and nothing when
it has no memory for the copy, after its detector has moved on (`DumpLost`).
`basis`, `touched` and `unsent` are history variables of the properties.

`Input`. An event is its number, a call the set of events it carries: a summed delta carries
all it sums. `Pump`. `wakeup` is the message channel of `engine-pre.js`, `timeout` the one armed
timeout, `loop` WebCore's run loop; a cycle may end, throw, or abort the engine. Of the ways `Boots`
may go, `MainExits` is main()'s `exit(1)`, which calls no `onAbort`. `ViewerUrl`
takes an address as the words the regular expressions tell apart, each encoded or not.
`Staging` has one action for each step of `stageOnce` that another checkout can interleave, and
for each of a build's that does: `Hashed` (:276, and the fast path), `Compile` (the long one, of the
sources as they are by then), `SnapshotOnly`, `StoreSnapshot` (compare, stamp, prune). `bin` is what the
last compile left, by link mode, `Compiled` says which bits a source hash compiles to (some hashes
to the same, which is what `also_source_hashes` is for), and `guessed` remembers, for the properties, the
hashes a snapshot was stamped with although it was not built from them.
`Bench` has the harness, the fixture, and one frame in flight. `WasmScan` reads the bytes of
modules built from sections.

`Parts` composes the eleven by choosing one in the initial state: that part runs and the
others keep their initial states, so that one run explores the sum of their state spaces and
not the product. They share no variable. Its properties are those of the parts; the liveness
ones are restated for the behaviours in which their part runs.

## 3. The runs

Deadlock is not checked: every run has a finite number of requests, or of acts of its users
and guests, after which the system is idle for good.

| run | instance | shows |
| --- | --- | --- |
| `bridge_stream` | one tab, two requests of two URLs; window 1, slice 2, chunks of 1-3 bytes, responses of at most 3; `r1` may be cancelled | flow control and the life of a request, safety and liveness |
| `bridge_capture` | one tab, three requests of one URL, every kind of answer, `r1` may be cancelled, installs may be rejected; empty bodies | the capture |
| `bridge_rules` | one tab that may close and reopen, four requests of four URLs (`r4` refused, `r3` with a UA of its own, `r1` may be cancelled), two rule ids; every fetch ends in an error | the rules |
| `reconcile` | two tabs, a site and its subdomain, an entry each and an exact one, five acts | rules, sweep, grants and edits, safety and liveness |
| `parts` | the eleven parts, bounds below | each part, safety and liveness |
| `two_tabs_headers`, `two_tabs_user_agent`, `two_tabs_redirect`, `cancel_leaks_rule`, `gestures_overshoot`, `two_tabs_profile`, `escape_revoked` | one or two tabs; two requests, three or five acts | the findings below |

Why the bounds of the bridge are enough. A window of 1 with slices of 2 makes every first slice
overshoot, so that a stream must wait for credit between the slices of one chunk; a
chunk of 3 takes two slices, the second one shorter; a response limit of 3 is exceeded by
a second chunk. Two streams suffice for one to run while the other waits. Three fetches
of one URL are a cancelled one, one that waits and one that arrives while both are
pending. Two rule ids and three requests that need one make ids wrap and be reused, while
one is free at any time for two concurrent holders; a third holder would make
`#allocRuleId` loop forever, which 90 000 ids keep away from the code and the guard of
`FreshRuleId` from the model (the third request then waits in its channel). Bounds:
`Window`, `Slice`, `MaxChunk`, `MaxResponse` (bytes), `MinRuleId`, `MaxRuleId`,
`Answers`, `Cancels`, `Closable`, `RulesFail` (what may happen).

`Prompt = TRUE` says that a webRequest event is delivered before a `take()` of its URL
gives up after 800 ms. The code has no other defence than the sweep there, and
`NoOrphans` does not hold without the assumption.

The bounds of the others. Acts of users, guests and faults are counted (`MaxActs`,
`MaxHistoryActs`, `MaxFrameActs`, `MaxProfileActs`, `MaxMediaActs`, `MaxInputs`, `MaxTasks`,
`MaxThrows`, `MaxBuilds`, `MaxGuesses`, `MaxStagings`, `MaxReps`, `MaxCalls`, `MaxChunks`); what code does in answer is not, except where time or
numbers are (`MaxNow`, `MaxSignals`).

- `reconcile`: five acts are enough to open a tab, edit the lists, open the hatch, twice too, and close,
  stop or fail something in between; a host and a subdomain tell covering from equality, an exact entry from both.
- history: a list of two entries, so that the third navigation drops the oldest; two signals on
  their way while others act; three acts. `gestures_overshoot` has three addresses and three
  entries.
- frames: three bands, so that a scroll has exposed, moved and unmoved ones and damage can have a
  gap; two contents tell stale from fresh; two acts, each with the whole pipeline's answer.
- persistence: two sites, one seeded and not visited; one tab in `parts`, whose file is its
  own, two in `two_tabs_profile`; five acts reopen the viewer after a failed write; one of the two
  values makes a profile too large to send.
- input: three events and two modifiers: a delta, another with other modifiers, a button.
- pump: three instants, three functions or timers, two exceptions, a burst of two (eight in the
  code), so that a timeout can be re-armed earlier and a burst can disarm the pump.
- transport: two requests, two chunks. Media: two listeners, five calls.
- staging: two source hashes, two compiles, one snapshot kept, of which another checkout's build takes the
  place; one snapshot with a guessed hash; two runs of the script (by hand, by a hook or by a release).
- URL: addresses with queries and fragments that contain `url=` themselves, or are empty, parameters with every
  delimiter. Bench: two clicks, ten keys, two reps: the burst's sum wraps at 256. Scan: sizes and
  table counts of one and of two bytes, padded numbers, truncated files, payloads full of section
  ids.

What the properties say:

- `WindowRespected`: unacknowledged bytes stay below window plus slice. (Not below the
  window: `bib_abi.h`'s "keeps at most BIB_NET_WINDOW_BYTES unacked in flight" is exceeded
  by up to a slice, as the window is asked before a slice and not for it.)
- `DeliveredInFull`: a client told "done" has consumed every byte the bridge read.
- `OneTerminalEvent`, `ClientProtocol`: of the messages on their way about a request the engine
  still waits for only the last is terminal, and none is left for one that has heard its end; what
  a client hears is a response at most once and then one end. Of a request it
  has cancelled the engine may be sent two ends, and drops both.
- `CreditIsComing`: a stream that waits for credit has some on its way.
- `StreamsFlow`: every stream, while both ends know the request, is a behaviour of
  `FlowControl`: a refinement with one mapping for each request.
- `RequestsEnd` (liveness): a request the engine waits for ends, unless the server never
  answers it.
- `QueueOrWaiters`, `NoOrphans`: an entry and a waiter of one URL never miss each other;
  a queue never holds more entries than there are fetches that will claim one.
- `RuleIdsMatch`: the ids a tab holds are those of its requests in flight, each one's own.
- `OwnHeadersRide`, `UserAgentAgrees`: what leaves the browser carries the request's own
  rule and the engine's User-Agent.
- `NativeIsAllowed`: after the last apply no tab is native that the lists sandbox, except by a
  live hatch (a tab whose handler is between its rule and its navigation, or failed there, is
  excepted). `GrantMirrorsRule`: the grant the sweep reads is what the rule enforces, unless the
  mirror is on its way or was rejected. `Reconciled` (liveness): every change ends up applied, unless
  the code gives up: the last apply failed, and nothing repeats it (`sw.mjs:34`), or the script was stopped and no
  event has come since (`sw.mjs:157`).
- `TabTellsTheTruth`: once everything in flight has arrived, the tab's entry has the address and
  the index of the page on screen. Three exceptions: the strip (failed load, crash), a `pushState` the browser
  refused, and a load that was cancelled last, which ends without the signal that would have
  corrected the commit's index. `HistoryComesToRest` (liveness): the two histories do not
  chase each other.
- `OneBuffer`: the transfer buffer is carried by one message while a frame is in flight, else by
  none. `NothingForgotten`: a band that is not what it should be is damage or upload.
  `FramesCatchUp`, `FramesFollowViewport` (liveness): the canvas shows the page in the end, at
  the size it was left with.
- `NewestIsWritten`, `WritesInOrder`, `UnvisitedSurvive`, `StoresReachFile` (liveness): a page at
  rest has written the newest snapshot its engine sent; never an older over a newer; a site not
  visited keeps what the file had for it; what was stored reaches the file, once the profile is at most 12 MB,
  and a change comes after a dump that was lost for want of memory.
- `ScrollLandsFirst`, `EveryDeltaOnce`: before a button come all moves and deltas, each delta once.
  `PlainIsAsked`: a paste is plain exactly when the last key or paste before it was Ctrl+Shift+V.
  `InputReachesEngine` (liveness).
- `WakeupIsComing`: what the run loop waits for has a message or a timeout coming;
  `PumpRunsWork` (liveness): it is run. Both except an engine whose last cycle threw (`stalled`) and one
  whose pump was disarmed by a burst. `DeathIsShown` (liveness): the user is told of an engine that is gone,
  except one whose main() exited.
- `CancelIsFinal`: a cancelled development request hears nothing more. `ErrorIsCurrent`: an
  element's error is of the source it has.
- `BitsAreAttributed`: staged files are of one snapshot, the one their record names, or copies of
  bin/, maybe of two builds, which the record attributes to no sources. `ReleaseIsAttributed`: a release that
  does not warn packs an engine of one snapshot whose bits are what the sources it names compile to; not so for a
  hash that was guessed (`--snapshot-only`, or sources edited between :276 and :401).
- `ReadersAgree`: the page, the sweep and the popup read one target from a tab's address; of a bare "#" at its
  end, which `location.hash` does not show, only the page loses it.
  `LatencyIsOwn`: a bench sample is of a frame that shows the input it timed.
  `TablesAreCounted`: the scan counts the tables a whole module defines.

Every property of a passing run has a mutant of the code (`...Unchecked`, `...NoWake`,
`...DropsRest` and so on, next to the definition each one replaces) that breaks it.

Fairness. An event loop runs what is ready, so every action of the page, of the engine
receiving messages and of the browser executing calls is weakly fair, and so are timers and
the delivery of an abort to a suspended read (`Bridge!Fairness`). In the other modules the same: promises
the browser resolves (`Reconcile!Fairness`), ports and `requestAnimationFrame` of a visible
page, timers and file writes, and the worker's loads, which commit or fail (`PartsFairness`; each
conjunct names its part). Nothing is assumed of requests, cancels, servers (a fetch may stay
unanswered, a body may stall or never end; the idle timer ends it), guests, users or faults.
Weak fairness is enough because nothing disables a ready task but the task itself or the end of
what it belongs to. `StoresReachFile` excludes writes that fail for ever by the bound on faults, as
`FramesCatchUp` does with paints.

## 4. Findings

Each is a behaviour TLC exhibits in a violation run. The first three and the sixth need two
viewer tabs.

1. `two_tabs_headers`. Rule ids are allocated by each tab (`bridge.mjs:184-191`) for rules
   that all tabs share. The second tab's add is rejected, and the clean-up after the
   failure removes the first tab's rule: its request leaves without Cookie and fetch
   metadata. `bridge-rules.mjs:33-34` says "collisions guarded by the bridge's in-flight
   set", and :111-112 that the bridge "fails the request rather than fetch without its
   headers".
2. `two_tabs_user_agent`. A tab that boots reinstalls the shared base rule without a
   User-Agent (`bridge.mjs:113-125`), and the other tab's requests carry the host's until
   the new engine sends its first request. `bridge-rules.mjs:7-10`: "the wire must agree
   with what guest JS reads from navigator.userAgent".
3. `two_tabs_redirect`. A tab's capture keeps the events of the other tabs' fetches
   (`redirect-capture.mjs:92-96`); a redirect another tab saw is claimed by a later fetch
   of that URL here, whatever its own answer. `bridge.mjs:264-265`: "a 3xx was observed iff
   it was a redirect".
4. `cancel_leaks_rule`. A request cancelled while it awaits the base rule has its own rule
   removed before it is added (`bridge.mjs:237-239` does not ask again whether the request
   is in flight), and the rule stays. `bridge-rules.mjs:16-18`: "removed after its terminal
   event; never static".

5. `gestures_overshoot`. The signal of a commit carries the index of the page before. A back
   gesture made while it is on its way is turned into a hop from that stale index
   (`viewer.mjs:343-355`); the engine, one entry further, lands on the very index the hop was
   issued from, which `drive` takes for "hop in flight" and waits for ever. :338-340: "the next only
   after the engine actually moved, so a burst of popstates converges".
6. `two_tabs_profile`. Every tab writes its engine's whole profile over the one file
   (`viewer.mjs:132`), so a tab opened before another tab's guest logged in removes that login
   with its next change. `README.md:47-48`: "cookies and logins persist".
7. `escape_revoked`. `doApply` reads the grants before it queries the tabs (`sw.mjs:57`, :66). A
   hatch that stores its grant and navigates its tab in between is swept back into the viewer.
   `dnr-rules.mjs:104-106`: "the sweep must too, or the next reconcile silently revokes the
   escape hatch".

Observed while modelling, without a run:

- bridge: after `take()` of a rejected fetch a redirect is reported even if the request was
  cancelled meanwhile (`bridge.mjs:266-268`), a second terminal event that the engine's registry
  drops; a base install that rejects once fails all later requests of its tab; a request has no
  timeout before its response;
- reconciliation: a popup's edit of a list it read earlier overwrites an edit made meanwhile; a
  grant can outlive its tab when the tab closes during its handler (tab ids are not used again,
  so nobody reads it); the model's hosts have neither a trailing dot nor a port, which
  `normalizeEntry` treats on their own; a rejected apply is not repeated, and the lists disagree with
  the rules until the next event;
- history: a load the guest stops after its commit leaves the tab's entry with the index of the
  page before, from which the next gesture computes its hop;
- lifecycle: a main() that fails (`main.cpp:2267`, :2287, :2336, :2346, :2356) exits with status 1, and the page
  goes on saying "booting"; persistence: over 12 MB it stops without a word to the user;
- staging: a script killed between the links and the record leaves a record that lies, and a
  release after it would say the engine matches (both properties exempt it); `--if-stale`
  returns silently when the newest, not matching, snapshot is already staged;
- bench: after a failed rep the harness' clicks and sum may run ahead of the guest's, so later reps on
  that page may fail too; no burst of ten keys sums to 0 modulo 256, so a burst always changes its
  colour;
- table scan: a truncated module returns a count or 0, where `wasm-polyfill.js:119` says "-1 on
  any parse uncertainty"; `validate` then answers from a count of nothing;
- development proxy: `m_redirectCount++ > maxRedirects` in the engine follows one redirect more
  than the limit.

## 5. The proofs

Checked with TLAPS, for every value of the constants that satisfies the named assumptions of
their module (`RequestsAssumption`, `RuleIdAssumption`, `BridgeAssumption`; `NoneAssumption`;
`HeightAssumption`, `ContentsAssumption`; `NothingAssumption`, `SnapshotAssumption`;
`PumpAssumption`; `MediaAssumption`; `DevNetAssumption`; `CapacityAssumption`, `UrlAssumption`,
`NullAssumption`; `ModsAssumption`; `EntriesAssumption`; `StagingAssumption`; `PagesAssumption`; `BenchAssumption`;
`WasmAssumption`), which TLC evaluates in the runs; the theorems of `FlowControlProofs` assume
only that `Window` and `Slice` are positive.
Bounds on acts are constants too: a theorem holds for every bound.

The bridge:

- `FlowControlProofs`: `FlowIsConserved` (`FlowInv`, which is inductive as it stands: what
  the sender counts is what is on its way, and less than window plus slice) and
  `BlockedHasCredit` (a full window implies data or credit on its way).
- `BridgeProofs`: `TypeCorrect`, the type invariant, one lemma for each handler. It is where
  a rule id is shown to be in range. `WindowIsRespected` follows from one step lemma, `DeliverSlice` being the
  only action that raises a count and `ReceiveAck` lowering it; `EntriesMeetWaiters` from
  one lemma for each capture operation (a push, a take, a wait, a timer), the sweep leaving
  empty queues empty.
- `BridgeProofs` also proves `RuleIdsAreExclusive`. `RuleIdsMatch` is not inductive: its id is
  set in `Begin`, and a second `Begin` of a request in flight would overwrite it, leaving an
  id in `used` that nobody holds. The inductive invariant is `RuleInv`: `Started` (whatever is
  in flight, in a slice loop or in a waiter list has begun, and nothing begins that the
  engine has not asked for), `BeginsOnce` (a "begin" on its way is the only one of its
  request, and that request has not begun), `AddsAreOwn` (a tab adds rules for its own
  requests only, which `DnrReject` relies on when it gives an id back) and `RuleIdsMatch`.
  One lemma for each conjunct and each way a step can disturb it: `ChannelStep` and
  `KeptBegins` for what a step may do to the engine's messages, `FinishMatches`,
  `BeginMatches` and `CloseMatches` for the ids.
- `StreamProofs`: everything about the response streams from one inductive invariant,
  `StreamInv`, on top of `TypeOK` and `RuleInv` (`StreamsAreSound`). It says who may be resumed
  (`WaitersWait`: whoever is in a waiter list awaits its `take()`, once; `RunnersSlice`: the
  request a tab runs is in its slice loop), how the channels and the engine's registry hang together (`Told`, `Asked`, `Known`,
  `Unheard`), and, for each request, that the messages on their way to its client are in protocol
  order and agree with the fetch's program counter and with what the client has heard (`Speaks`), and that
  every byte is somewhere (`Counts`: read from the body, it is in the rest of the chunk, on its
  way or consumed, and what the sender counts as unacknowledged is the data and the credit
  in the two channels). Each task of the page or the browser is first shown to be one of
  a few moves of one request that leaves the others alone (`TaskConcerns`), and then there is one
  lemma per move. From it follow
  `ClientsHearInOrder` (`ClientProtocol`, an action property), `BodiesAreWhole`
  (`DeliveredInFull`), `WaitingStreamsAreOwed` (`CreditIsComing`), `EndsComeOnce`
  (`OneTerminalEvent`) and `StreamsKeepCredit`, the refinement: every step of `Bridge` is, for
  each stream, a step of `FlowControl` or a stutter.
- `WireProofs`: what a request carries when it leaves the browser. Rules belong to the profile
  and match by URL, so these theorems have a hypothesis, `SingleTab`; the runs `two_tabs_headers`
  and `two_tabs_user_agent` show that they are false without it, `bridge_rules` and `bridge_capture`
  have one tab.
  - `HeadersRide` (`OwnHeadersRide`). A request's rule is added by a call that is still in the
    queue when it asks for it, its id may have belonged to another request, and that one's
    removal may be in the queue too. `RideInv` says that every request in flight with an id
    `KeepsRule`: no call after its "add" removes its id (`Guarded`), and from its fetch on the rule
    is in force and no call in the queue removes the id at all. An id is free only once
    its removal has been queued, and the calls of a tab run in their order, which is why an old
    removal comes before the new addition. The lemmas turn on one description of what any step
    does to a tab's calls (`Succeeds`: the oldest may go, one may come). Of the actions all but a few are
    shown to be `Light`, that is to leave the rules alone.
  - `UserAgentsAgree` (`UserAgentAgrees`) needs also that the requests of one URL have one UA
    (`OneUAPerUrl`): a rule that sets a UA matches whatever asks for that URL, and TLC finds the
    disagreement with two requests of one URL and two UAs. `UAInv`: the base rule is what
    the tab adopted or is about to be (`BaseIsOwn`), a request in flight is `Dressed`, by its own
    rule or by the base rule once that is installed, and a page that does not run has no
    request under way (`Idle`). A page may be opened while calls of the page before are still queued; its own
    init comes after them (`EndsWithInit`).
  - `EntriesAreClaimed` (`NoOrphans`). The number of entries of a URL is not bounded by that of
    its fetches alone, as entries arrive while events are on their way and waiters leave.
    `ClaimInv` balances, for each tab and URL, what is queued or may come (`Coming`: a request's
    event is on its way, or it was aborted while the browser has it open) with who claims it (the
    waiters, and `Claiming`: the requests that were answered and will go to `take()`); `OneBalance`
    is the step that moves one of either. The hypotheses are `SingleTab`, `Prompt` and
    `Closable = {}`. TLC finds an orphan without `Prompt` (a `take()` gives up before its event), and
    with a page that is closed and opened again (the event of the old page's fetch, which the
    browser had open, comes to the new page's capture, which knows nothing of it).
- Of a channel's bytes, `Bytes` is a recursive function over a sequence. The library's induction
  theorems take an operator and cannot be instantiated; `NatMin` and `NatInd` restate induction
  on the naturals for a set, which follows from the well-foundedness of the finite
  subsets, and the lemmas about sums (`BytesSum`, `SumsNat`, `SumsAgree`) are proved with them.

The rest of the extension:

- `ReconcileProofs`: `ReconcileTypes`; `GrantsMirrorRules` from `MirrorInv`, which says of the tab's
  handlers, however many overlap, that the last entry on its way to the mirror is the rule's, and that
  a closed tab stays closed;
  `SweptIsAllowed` from `SweepInv`. `NativeIsAllowed` is far from inductive, since the sweep
  works on a snapshot while tabs move: a tab is `Covered` when it is `Allowed`, or is still
  where the snapshot saw it and yet to be swept. Whatever moves a tab meanwhile meets the
  new rules, which are in force before the snapshot is taken (`RulesCurrent`); `QuietStep`
  and `LandedAllowed` are that argument, `ApplySweeps` the apply's own steps.
- `FramesProofs`: `BufferIsOne` (inductive with the types) and `NothingIsForgotten`, whose
  strengthening `FramesInv` adds the types, so that bands stay within the framebuffer, and
  `OneBuffer`, so that `Arriving` is one frame. `PageShown` and `BufferShown` are the two halves,
  and there is a lemma for each action and half.
- `PersistProofs`: `RestMeansWritten` and `NeverAnOlderOne` from `PersistInv`: on its way to the
  file nothing overtakes (`Ordered`: the number written, the one in writing, the pending one, those
  in the channel, in this order), the last of them is the one sent last (`Newest`), and a closed
  viewer has nothing left. The page's three operations keep both (`BeginKeeps`, `QueuedKeeps`
  and those after them). `UnvisitedSitesSurvive` from `UnvisitedInv`: of an origin a session has not
  touched, every snapshot on its way (`OnTheWay`: pending, in writing, in the channel) holds what
  the session started from, and each of them is the tab's own.
- `PartsProofs` has a section for each of the smaller parts:
  - tab history, `TabsTellTheTruth` from `HistoryInv`: the types with the sanity of the
    engine's cursor (`HistoryTypes`), the mirror (`Mirroring`: the viewer's mirror is the tab's
    entry or empty), and two statements about what is in flight. `EngineHeard`: a load is under
    way, or was cut, or the last signal tells the engine's list as it is. `TabFollows`: something is in flight,
    or the entry shows what the viewer heard last, or a `bib_go` is about to move the engine there;
  - input, from `InputInv`: `ScrollsLandFirst`, `DeltasGoOnce` and `PlainPastesAreAsked`. `Made`
    relates the calls sent to the events they were made from, `Faithful` joins `LandsFirst`, `Once`
    (each wheel event is in one call, or in the accumulator) and `Pointed`; `PasteInv` follows the
    flag that turns a paste plain;
  - the pump, `NothingWaitsForAFrame` from `WakeupInv`, which extends `WakeupIsComing` to the
    boot, and `PumpTypes`, with the fact the argument turns on: whenever the pump takes a message
    for scheduled, one is on its way. `ArmedInTime` bounds the armed timeout by the earliest
    deadline and the tolerance;
  - the development transport, `CancelsAreFinal` (an action property) from its types and one
    lemma, `DevRequestStep`, of what a step of one request may tell of it and of the others;
  - the media stub, `ErrorsAreCurrent` from `QueueInv`: timeouts fire in the order of their loads
    and tokens grow with them, so the one that matches the element's token is the last;
  - staging, `StagedBitsAreAttributed` and `ReleasesAreAttributed` from `StagingInv`: `Copied`
    says, for each step of the script, how much of the source is in place, `Describes` that a
    complete engine is the record's, `ShipsWhat` the same of a release, and `Honest` that every hash of a
    snapshot that is not guessed compiles to its bits, as does the running build's of what it has
    compiled. Builds only add hashes (`Grown`), so what was true of a copy stays true;
  - the viewer's URL, `AllReadersAgree` from `UrlInv`: an address our code wrote is
    `ViewerURLFor` of the engine's URL and the page's own parameters, and these parameters are of
    the kind a written address gives back (`Returned`: no "#", no further url=). A bare "#" at the
    end of the target is all that is lost (`Trimmed`). The lemmas show
    that such an address splits at its first "#" and at its first url= exactly where it was put
    together. This one turns on the assumption that what our code writes starts with "https:",
    which is what `PagesAssumption` says of the pages;
  - the bench, `LatenciesAreOwn` from `BenchInv`, which holds until a watch times out (`UpToDate`): between two
    steps the guest has handled all that was fired (`AtRest`); in one it has the first k inputs of the
    step, and a frame on its way not more (`InStep`). The colour the harness watches is a total
    modulo 256, so a frame could hit early if the inputs it lacks added up to a multiple of 256. The
    hypothesis `Shown(Burst)` says that no tail of the burst does. `TenKeysShow` proves it of the ten
    keys every scenario uses (`scenarios.mjs:72`, `kinds.mjs:215`), hence `ScenariosAreMeasured`. The
    limit is real: TLC shows bursts of up to 22 keys to be fine, and with 23 the last 16 codes
    add up to a multiple of 256 and `LatencyIsOwn` fails;
  - the table scan, `ScansCountTables` from `WalkInv`: while it walks a complete module, the cursor
    stands where a section begins (`StandsAt`) and no table section is behind it, and a count is
    `TablesOf`. That a step gets from one section to the next is `SectionsAreRead`, and it rests on
    `NumbersAreRead`: a number that was written with any padding is read back, from wherever it
    is. `WasmAssumption` says what of the binary format this takes: one table section at most, and
    numbers that fit the bytes they are written in and stay below 2^31. Both `Digits` and `U32`
    are recursive functions; `Counting` and `Recursion` (a set with 0 that is closed under + 1 has
    every natural number; a recursive function over 0..n exists) stand in for the library's
    theorems of that kind, which take operators.

Every invariant and action property of the passing runs has a theorem. Only model-checked is

- liveness (`RequestsEnd`, `Reconciled`, `HistoryComesToRest`, `FramesCatchUp`,
  `FramesFollowViewport`, `StoresReachFile`, `InputReachesEngine`, `PumpRunsWork`, `DeathIsShown`):
  under fairness and through ENABLED it is out of the prover's reach.

## 6. Not modelled, and the plan

Not modelled, and why:

- resource loading (`EmbedderStrategies.cpp`) beyond its calls of the net bridge. Its queue of
  bytes that arrive while the response policy is pending is dead code in this embedder, whose
  `dispatchDecidePolicyForResponse` answers at once (`BibPageClients.h:574-576`), and
  `finishLoading` and `didFailInternal` tell the scheduler before anything could cancel the load;
- the guard's address parsing and the clipboard's conversions: string functions without state;
- the IndexedDB adapter, the media player and WebSocket stubs, the rest of the page clients: glue
  without a protocol of its own, or off in the extension's builds;
- badges, labels and rendering of the popup and options pages; GL presentation, of which only
  what reaches the canvas is in `Frames`;
- the bench's other kinds of reps, its statistics and the browser it drives; the staging's `--list`
  and host assets; build and probe scripts; tests.

What is left to do, in this order:

1. A second tab in `Bridge` and `Persist` with what the fixes of the findings would be, as
   specifications the code could be changed to meet.
