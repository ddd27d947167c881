----------------------------- MODULE TabHistory -----------------------------
(***************************************************************************)
(* The tab's session history mirrors the engine's back/forward list        *)
(* (src/ext/viewer.mjs).  The engine's url signals rewrite the tab's       *)
(* entries; the browser's back and forward move the engine (popstate ->    *)
(* bib_go).  Calls go to the engine and signals come back through two      *)
(* FIFO message ports, so each side acts on what it last heard.            *)
(***************************************************************************)
EXTENDS Integers, Sequences

CONSTANTS Urls,            \* http(s) addresses
          StartUrl,        \* the one the viewer was opened on
          NoUrl,           \* null
          Capacity,        \* kCapacity of the engine's list
          MaxHistoryActs,  \* bound: acts of the user, the guest and the network
          MaxSignals       \* bound: signals the viewer has not handled, while others act

ASSUME CapacityAssumption == Capacity \in Nat /\ Capacity > 1
ASSUME UrlAssumption == StartUrl \in Urls /\ NoUrl \notin Urls
\* null is no entry and no load
ASSUME NullAssumption ==
  /\ NoUrl \notin {"new", "replace", "traverse", "cut"}
  /\ NoUrl \notin [url : Urls, index : Int]
  /\ NoUrl \notin [kind : {"new", "replace", "traverse"}, url : Urls, id : Nat]

VARIABLES tab,         \* the browser's history of this tab: entries, position
          viewer,      \* the page's variables (bs.state and the mirror's own)
          engine,      \* back/forward list, provisional load, load still open
          calls,       \* export calls on their way to the engine
          signals,     \* chrome signals on their way to the viewer
          historyActs  \* acts so far

historyVars == <<tab, viewer, engine, calls, signals, historyActs>>

NoIndex == -1
GoCall(d) == [fn |-> "bib_go", arg |-> d]
LoadCall(u) == [fn |-> "bib_load_url", arg |-> u]

\* A page opened on the entry for u; stale: the last write of the tab's entry was refused
FreshPage(u) == [start |-> u, mirror |-> [url |-> NoUrl, index |-> NoIndex], forceReplace |-> FALSE,
            want |-> NoUrl, issuedFrom |-> NoIndex, url |-> NoUrl, index |-> NoIndex,
            length |-> 0, ready |-> FALSE, dead |-> FALSE, strip |-> FALSE, stale |-> FALSE]
FreshEngine == [list |-> <<>>, cur |-> -1, prov |-> NoUrl, open |-> NoUrl]

Here == tab.entries[tab.pos]
EngineUrl == IF engine.cur < 0 THEN NoUrl ELSE engine.list[engine.cur + 1].url

HistoryInit ==
    /\ tab = [entries |-> <<[url |-> StartUrl, index |-> NoIndex]>>, pos |-> 1]
    /\ viewer = FreshPage(StartUrl) /\ engine = FreshEngine
    /\ calls = <<>> /\ signals = <<>> /\ historyActs = 0

HistoryAct == /\ historyActs < MaxHistoryActs /\ Len(signals) < MaxSignals
              /\ historyActs' = historyActs + 1

-----------------------------------------------------------------------------
(* The viewer. *)

\* syncTabHistory: does this signal add an entry to the tab?
Pushes(v, s) == /\ s.kind = "new" /\ v.mirror.index # NoIndex
                /\ ~v.forceReplace /\ s.url # v.mirror.url

\* A faulty variant: a repeat is written only when the address changed.
RewritesOnUrl(v, s) == Pushes(v, s) \/ v.mirror.url # s.url

\* ... or at least rewrite it?
Rewrites(v, s) == Pushes(v, s) \/ v.mirror # [url |-> s.url, index |-> s.index]
Mirrored(t, e, push) ==
    [entries |-> Append(SubSeq(t.entries, 1, IF push THEN t.pos ELSE t.pos - 1), e)
                 \o (IF push THEN <<>> ELSE SubSeq(t.entries, t.pos + 1, Len(t.entries))),
     pos     |-> IF push THEN t.pos + 1 ELSE t.pos]

\* A faulty variant: the entry stays wanted.
StillWanted(v) == [v EXCEPT !.issuedFrom = NoIndex]

\* The entry is reached, or given to a load: nothing is wanted any more
Reached(v) == [v EXCEPT !.want = NoUrl, !.issuedFrom = NoIndex]
\* loadEntry: cold-load the entry the tab is on
LoadEntry(v) == [Reached(v) EXCEPT !.forceReplace = TRUE]

\* drive: the page's variables and the calls it makes
Drive(v) ==
    LET target == v.want
        stays  == [v |-> v, calls |-> <<>>]
        loads  == [v |-> LoadEntry(v), calls |-> <<LoadCall(target.url)>>]
    IN CASE v.want = NoUrl \/ ~v.ready \/ v.dead \/ v.index = NoIndex -> stays
         [] OTHER ->
              CASE v.index = target.index /\ target.url = v.url ->
                     [stays EXCEPT !.v = Reached(v)]
                [] v.index = target.index /\ target.url # v.url -> loads
                [] v.index # target.index /\ v.issuedFrom = v.index -> stays
                [] v.index # target.index /\ v.issuedFrom # v.index
                     /\ target.index \in 0..(v.length - 1) ->
                     [v |-> [v EXCEPT !.issuedFrom = v.index], calls |-> <<GoCall(target.index - v.index)>>]
                [] OTHER -> loads

Adopt(d) == viewer' = d.v /\ calls' = calls \o d.calls

\* onChrome("url").  The History API may refuse the write (rate limit).
ReceiveUrl ==
    /\ signals # <<>> /\ Head(signals).kind # "failed"
    /\ LET s == Head(signals)
           heard == [viewer EXCEPT !.url = s.url, !.index = s.index, !.length = s.length,
                                   !.forceReplace = FALSE, !.strip = FALSE, !.stale = FALSE]
           e == [url |-> s.url, index |-> s.index]
       IN \/ /\ tab' = IF Rewrites(viewer, s) THEN Mirrored(tab, e, Pushes(viewer, s)) ELSE tab
             /\ Adopt(Drive([heard EXCEPT !.mirror = e]))
             /\ UNCHANGED historyActs
          \/ /\ Rewrites(viewer, s) /\ historyActs < MaxHistoryActs /\ historyActs' = historyActs + 1
             /\ Adopt(Drive([heard EXCEPT !.stale = TRUE]))
             /\ UNCHANGED tab
    /\ signals' = Tail(signals)
    /\ UNCHANGED engine

\* onChrome("loadfailed"): the strip
ReceiveFailed ==
    /\ signals # <<>> /\ Head(signals).kind = "failed"
    /\ viewer' = [viewer EXCEPT !.strip = ~viewer.dead \/ @]
    /\ signals' = Tail(signals)
    /\ UNCHANGED <<tab, engine, calls, historyActs>>

\* location.reload(), or F5: the page and its engine start over on the entry
Reboot == /\ viewer' = FreshPage(Here.url)'
          /\ engine' = FreshEngine /\ calls' = <<>> /\ signals' = <<>>
Reload == HistoryAct /\ UNCHANGED tab /\ Reboot

\* popstate, on the entry e; a call to a worker still booting is lost or kills it
Popstate(e) ==
    LET v == [viewer EXCEPT !.mirror = e, !.issuedFrom = NoIndex,
                            !.want = IF e.index = NoIndex THEN NoUrl ELSE e]
        loads == e.index = NoIndex /\ e.url # v.url
    IN \/ viewer.dead /\ Reboot
       \/ /\ ~viewer.dead /\ UNCHANGED <<engine, signals>>
          /\ \/ e.index # NoIndex /\ Adopt(Drive(v))
             \/ e.index = NoIndex /\ ~loads /\ Adopt([v |-> v, calls |-> <<>>])
             \/ loads /\ v.ready /\ Adopt([v |-> LoadEntry(v), calls |-> <<LoadCall(e.url)>>])
             \/ /\ loads /\ ~v.ready
                /\ \E dies \in BOOLEAN :
                     Adopt([v |-> [LoadEntry(v) EXCEPT !.dead = dies], calls |-> <<>>])

\* The user's back, forward or a longer jump
Traverse(to) == /\ HistoryAct /\ to \in DOMAIN tab.entries /\ to # tab.pos
                /\ tab' = [tab EXCEPT !.pos = to]
                /\ Popstate(tab.entries[to])

\* The user edits the tab's address in place (its fragment): an entry without an index
EditAddress(u) == LET e == [url |-> u, index |-> NoIndex]
                  IN /\ HistoryAct /\ u # Here.url
                     /\ tab' = Mirrored(tab, e, TRUE)
                     /\ Popstate(e)

\* onReady: the wiring, and the load of the address the page was opened on
Ready == /\ ~viewer.ready /\ ~viewer.dead
         /\ viewer' = [viewer EXCEPT !.ready = TRUE]
         /\ calls' = Append(calls, LoadCall(viewer.start))
         /\ UNCHANGED <<tab, engine, signals, historyActs>>

\* The URL bar, or the strip's retry button: bs.navigate
Navigate(u) == /\ HistoryAct /\ viewer.ready /\ ~viewer.dead
               /\ calls' = Append(calls, LoadCall(u))
               /\ UNCHANGED <<tab, viewer, engine, signals>>

\* The engine dies: crashed() leaves a corpse until a reload
Crash == /\ HistoryAct /\ viewer.ready /\ ~viewer.dead
         /\ viewer' = [viewer EXCEPT !.dead = TRUE]
         /\ calls' = <<>> /\ signals' = <<>> /\ engine' = FreshEngine
         /\ UNCHANGED tab

-----------------------------------------------------------------------------
(* The engine: BibBackForwardList, and WebCore's loader as the embedder     *)
(* uses it.  A load is provisional until it commits; it stays open, its     *)
(* didFinishLoad due, until it ends or another load starts.  One that is    *)
(* cancelled leaves its mark, "cut", until the engine loads or signals.     *)

\* emitUrlSignal; backCount is 0 in an empty list
Signal(en, kind, url) == [kind |-> kind, url |-> url, index |-> IF en.cur < 0 THEN 0 ELSE en.cur,
                          length |-> IF en.cur < 0 THEN 1 ELSE Len(en.list)]

\* An item nobody holds: neither the list nor a traversal on its way
NewItem(en, u) ==
    LET held == {en.list[i].id : i \in DOMAIN en.list}
                \cup IF en.prov = NoUrl THEN {} ELSE {en.prov.id}
    IN [id |-> CHOOSE i \in 1..(Len(en.list) + 2) : i \notin held, url |-> u]

\* addItem: toss the forward list, drop the oldest at capacity
AddItem(en, u) ==
    LET kept == SubSeq(en.list, 1, en.cur + 1)
        full == Len(kept) = Capacity /\ en.cur > 0
        list == Append(IF full THEN Tail(kept) ELSE kept, NewItem(en, u))
    IN [en EXCEPT !.list = list, !.cur = Len(list) - 1]

\* goToItem: an item no longer in the list leaves the cursor alone
GoToItem(en, id) == IF \E i \in DOMAIN en.list : en.list[i].id = id
                    THEN [en EXCEPT !.cur = (CHOOSE i \in DOMAIN en.list : en.list[i].id = id) - 1]
                    ELSE en
OverwriteItem(en, u) == [en EXCEPT !.list[en.cur + 1].url = u]

\* bib_go -> goBackOrForward: past the list's end it goes to the end
StartGo(en, d) ==
    LET last   == Len(en.list) - 1
        to     == IF en.cur + d > last THEN last ELSE IF en.cur + d < 0 THEN 0 ELSE en.cur + d
        item   == en.list[to + 1]
    IN IF en.cur < 0 \/ to = en.cur THEN en
       ELSE [en EXCEPT !.prov = [kind |-> "traverse", url |-> item.url, id |-> item.id], !.open = NoUrl]
\* FrameLoader::load: the current address again is not a new entry
StartLoad(en, u) ==
    [en EXCEPT !.open = NoUrl,
               !.prov = [kind |-> IF en.cur >= 0 /\ u = en.list[en.cur + 1].url THEN "replace" ELSE "new",
                         url |-> u, id |-> 0]]

EngineCall == /\ calls # <<>> /\ viewer.ready /\ ~viewer.dead
              /\ engine' = IF Head(calls).fn = "bib_go" THEN StartGo(engine, Head(calls).arg)
                           ELSE StartLoad(engine, Head(calls).arg)
              /\ calls' = Tail(calls)
              /\ UNCHANGED <<tab, viewer, signals, historyActs>>

\* dispatchDidCommitLoad: a new load's signal leaves before its item is added
Commit ==
    /\ engine.prov # NoUrl
    /\ LET p == engine.prov
           idle == [engine EXCEPT !.prov = NoUrl, !.open = p.kind]
           done == CASE p.kind = "new"     -> AddItem(idle, p.url)
                     [] p.kind = "replace" -> OverwriteItem(idle, p.url)
                     [] OTHER              -> GoToItem(idle, p.id)
       IN /\ engine' = done
          /\ signals' = Append(signals, Signal(IF p.kind = "new" THEN idle ELSE done, p.kind, p.url))
    /\ UNCHANGED <<tab, viewer, calls, historyActs>>

Opened == engine.open \in {"new", "replace", "traverse"}
LoadUrl == IF engine.prov = NoUrl THEN EngineUrl ELSE engine.prov.url

\* dispatchDidFail(Provisional)Load: before the commit or after it, what is committed stays
Fail == /\ HistoryAct /\ (engine.prov # NoUrl \/ Opened)
        /\ engine' = [engine EXCEPT !.prov = NoUrl, !.open = NoUrl]
        /\ signals' = Append(signals, [Signal(engine, "failed", LoadUrl) EXCEPT !.index = NoIndex])
        /\ UNCHANGED <<tab, viewer, calls>>

\* The guest's window.stop(), or an answer with nothing to show: emitLoadFailed is silent
Cancel == /\ HistoryAct /\ (engine.prov # NoUrl \/ Opened)
          /\ engine' = [engine EXCEPT !.prov = NoUrl, !.open = "cut"]
          /\ UNCHANGED <<tab, viewer, calls, signals>>

\* dispatchDidFinishLoad: the load's kind again, with the list as it is now
Finish == /\ Opened
          /\ engine' = [engine EXCEPT !.open = NoUrl]
          /\ signals' = Append(signals, Signal(engine, engine.open, EngineUrl))
          /\ UNCHANGED <<tab, viewer, calls, historyActs>>

\* Its signal tells of the list as it is
Told(en) == [en EXCEPT !.open = IF @ = "cut" THEN NoUrl ELSE @]

\* The guest: a link, history.back() and forward(), pushState, replaceState
Guest ==
    /\ HistoryAct /\ engine.cur >= 0 /\ UNCHANGED <<tab, viewer, calls>>
    /\ \/ \E u \in Urls : engine' = StartLoad(engine, u) /\ UNCHANGED signals
       \/ \E d \in {-1, 1} : engine' = StartGo(engine, d) /\ engine' # engine /\ UNCHANGED signals
       \/ \E u \in Urls : /\ engine' = Told(AddItem(engine, u))
                        /\ signals' = Append(signals, Signal(engine', "new", u))
       \/ \E u \in Urls : /\ engine' = Told(OverwriteItem(engine, u))
                        /\ signals' = Append(signals, Signal(engine', "replace", u))

-----------------------------------------------------------------------------
EngineStep == EngineCall \/ Commit \/ Finish
ViewerStep == ReceiveUrl \/ ReceiveFailed \/ Ready
UserActs == \/ Reload \/ Crash
            \/ \E to \in DOMAIN tab.entries : Traverse(to)
            \/ \E u \in Urls : Navigate(u) \/ EditAddress(u)
HistoryNext == EngineStep \/ ViewerStep \/ UserActs \/ Guest \/ Fail \/ Cancel

\* The worker runs and the page's event loop turns; nobody has to act.
HistoryFairness ==
    /\ WF_historyVars(EngineCall) /\ WF_historyVars(Commit) /\ WF_historyVars(Finish)
    /\ WF_historyVars(ReceiveUrl) /\ WF_historyVars(ReceiveFailed) /\ WF_historyVars(Ready)
HistorySpec == HistoryInit /\ [][HistoryNext]_historyVars /\ HistoryFairness

-----------------------------------------------------------------------------
Settled == /\ viewer.ready /\ ~viewer.dead /\ calls = <<>> /\ signals = <<>>
           /\ engine.prov = NoUrl /\ ~Opened

\* Once everything in flight has arrived, the tab's entry is the page on screen: its address,
\* which the popup, the badge and the sweep read, and its index, which a commit's signal
\* carries one navigation late.  Unless the strip says the load failed, the browser refused
\* the last write, or the last load was cancelled: that ends without a signal, so the tab may
\* keep the late index of the commit, or the entry of a traversal that never happened.
TabTellsTheTruth ==
    Settled /\ ~viewer.strip /\ ~viewer.stale /\ engine.open # "cut" =>
        Here.url = EngineUrl /\ Here.index \in {NoIndex, engine.cur}

\* The two histories do not chase each other: once nobody acts, they come to rest.
ComesToRest == <>[](Settled \/ viewer.dead)

\* A burst of gestures converges: the entry the user chose is reached, or given up
\* because the engine cannot load it or the guest cancels the load.
Converges == viewer.want # NoUrl ~>
                (viewer.want = NoUrl \/ viewer.strip \/ viewer.dead \/ engine.open = "cut")
=============================================================================
