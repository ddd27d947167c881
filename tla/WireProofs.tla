----------------------------- MODULE WireProofs -----------------------------
(***************************************************************************)
(* What a request of the bridge carries when it leaves the browser, for    *)
(* any requests, headers, UAs and rule ids: the headers the engine put on  *)
(* it, and its User-Agent.  Then what the redirect capture keeps, when     *)
(* events come before a take() gives up and the page stays: each entry has *)
(* a request that claims it.  Session rules and events are the whole       *)
(* profile's, and two tabs disturb each other's, as runs show: here there  *)
(* is one tab.                                                             *)
(***************************************************************************)
EXTENDS StreamProofs

SingleTab == \A t, u \in Tab : t = u

-----------------------------------------------------------------------------
(* The updateSessionRules calls of a tab, in their order.                  *)

\* A call adds the rule of request r; it removes the rule of that id.
AddsFor(o, r) == o.op = "add" /\ o.rule.req = r
Removes(o, id) == o.op = "remove" /\ o.id = id

\* No call removes id; none does after the one that adds r's rule.
Clear(q, id) == \A i \in DOMAIN q : ~Removes(q[i], id)
Guarded(q, r, id) == \A i, j \in DOMAIN q : i < j /\ AddsFor(q[i], r) => ~Removes(q[j], id)

\* The calls p are the calls q, or all but the oldest, and then perhaps one of new.
Succeeds(p, q, new) ==
  \E d \in {0, 1} : \A i \in DOMAIN p :
    \/ i + d \in DOMAIN q /\ p[i] = q[i + d]
    \/ i = Len(p) /\ p[i] \in new

LEMMA OpsSucceed ==
  ASSUME NEW S, NEW q \in Seq(S), NEW o \in S
  PROVE  /\ \A new : Succeeds(q, q, new)
         /\ Succeeds(Append(q, o), q, {o})
         /\ q # <<>> => /\ \A new : Succeeds(Tail(q), q, new)
                        /\ Succeeds(Append(Tail(q), o), q, {o})
<1>1. ASSUME NEW new PROVE Succeeds(q, q, new)
  <2>1. \A i \in DOMAIN q : i + 0 \in DOMAIN q /\ q[i] = q[i + 0]
    OBVIOUS
  <2> QED BY <2>1 DEF Succeeds
<1>2. Succeeds(Append(q, o), q, {o})
  <2>1. \A i \in DOMAIN Append(q, o) :
          \/ i + 0 \in DOMAIN q /\ Append(q, o)[i] = q[i + 0]
          \/ i = Len(Append(q, o)) /\ Append(q, o)[i] \in {o}
    OBVIOUS
  <2> QED BY <2>1 DEF Succeeds
<1>3. ASSUME q # <<>> PROVE /\ \A new : Succeeds(Tail(q), q, new)
                            /\ Succeeds(Append(Tail(q), o), q, {o})
  <2>1. Tail(q) \in Seq(S)
    BY <1>3
  <2>2. \A i \in DOMAIN Tail(q) : i + 1 \in DOMAIN q /\ Tail(q)[i] = q[i + 1]
    BY <1>3, TailIndex
  <2> DEFINE p == Append(Tail(q), o)
  <2>3. \A i \in DOMAIN p : \/ i \in DOMAIN Tail(q) /\ p[i] = Tail(q)[i]
                            \/ i = Len(p) /\ p[i] \in {o}
    BY <2>1
  <2>4. \A i \in DOMAIN p : \/ i + 1 \in DOMAIN q /\ p[i] = q[i + 1]
                            \/ i = Len(p) /\ p[i] \in {o}
    BY <2>2, <2>3
  <2> HIDE DEF p
  <2>5. Succeeds(p, q, {o})
    BY <2>4 DEF Succeeds
  <2> QED BY <2>2, <2>5 DEF Succeeds, p
<1> QED BY <1>1, <1>2, <1>3

\* What a tab's calls keep.
LEMMA OpsKeep ==
  ASSUME NEW S, NEW q \in Seq(S), NEW p \in Seq(S), NEW new, Succeeds(p, q, new)
  PROVE  /\ \A i \in DOMAIN p : p[i] \in new \/ \E j \in DOMAIN q : p[i] = q[j]
         /\ \A r, id : (\A o \in new : ~Removes(o, id)) =>
              /\ Clear(q, id) => Clear(p, id)
              /\ Guarded(q, r, id) => Guarded(p, r, id)
<1>1. PICK d \in {0, 1} : \A i \in DOMAIN p :
        \/ i + d \in DOMAIN q /\ p[i] = q[i + d]
        \/ i = Len(p) /\ p[i] \in new
  BY DEF Succeeds
<1>2. ASSUME NEW r, NEW id, \A o \in new : ~Removes(o, id), Guarded(q, r, id),
             NEW i \in DOMAIN p, NEW j \in DOMAIN p, i < j, AddsFor(p[i], r)
      PROVE  ~Removes(p[j], id)
  <2>1. i # Len(p) /\ i \in Nat /\ j \in Nat
    BY <1>2
  <2>2. i + d \in DOMAIN q /\ p[i] = q[i + d]
    BY <1>1, <2>1
  <2>3. CASE j + d \in DOMAIN q /\ p[j] = q[j + d]
    BY <1>2, <2>1, <2>2, <2>3 DEF Guarded
  <2> QED BY <1>1, <1>2, <2>3
<1> QED BY <1>1, <1>2 DEF Clear, Guarded

\* When the oldest call adds r's rule, nothing removes it any more.
LEMMA OpsClear ==
  ASSUME NEW S, NEW q \in Seq(S), q # <<>>, NEW r, NEW id, Guarded(q, r, id),
         AddsFor(Head(q), r)
  PROVE  Clear(Tail(q), id)
<1>1. 1 \in DOMAIN q /\ Head(q) = q[1]
  OBVIOUS
<1>2. ASSUME NEW i \in DOMAIN Tail(q) PROVE ~Removes(Tail(q)[i], id)
  <2>1. i + 1 \in DOMAIN q /\ Tail(q)[i] = q[i + 1] /\ i \in Nat /\ i >= 1
    BY TailIndex
  <2> QED BY <1>1, <2>1 DEF Guarded
<1> QED BY <1>2 DEF Clear

\* A call that adds r's rule comes last when no other does.
LEMMA OpsAdd ==
  ASSUME NEW S, NEW q \in Seq(S), NEW o \in S, NEW r, NEW id,
         \A i \in DOMAIN q : ~AddsFor(q[i], r)
  PROVE  Guarded(q, r, id) /\ Guarded(Append(q, o), r, id)
<1>1. \A i \in DOMAIN Append(q, o) :
        \/ i \in DOMAIN q /\ Append(q, o)[i] = q[i]
        \/ i = Len(q) + 1
  OBVIOUS
<1>2. \A i, j \in DOMAIN Append(q, o) : i < j => i # Len(q) + 1
  OBVIOUS
<1> QED BY <1>1, <1>2 DEF Guarded

-----------------------------------------------------------------------------
(* Most steps touch the rules only by asking for the removal of the rule   *)
(* of a request that ends.                                                 *)

\* What such a step may do to r: a request in flight stays at the await of its
\* rule, and one leaves flight only when its fetch has not started or is over.
Mild(r) ==
  /\ abort[r] # "no" => abort'[r] # "no"
  /\ pc[r] \in {"base", "add"} => pc'[r] = pc[r] \/ r \notin inflight'
  /\ pc'[r] \in {"base", "add"} => pc'[r] = pc[r]
  /\ pc[r] \in {"new", "over"} => pc'[r] \in {"new", "over"}
  /\ wire'[r] \in {wire[r], "settled"} \/ (wire[r] = "sent" /\ wire'[r] = "answered")
  /\ pc[r] = "fetch" => pc'[r] = "fetch" \/ wire'[r] # "queued"
  /\ r \in inflight \ inflight' =>
       pc'[r] \notin {"base", "add", "fetch"} \/ abort'[r] # "no"

\* x leaves flight, and its rule is to be removed.
Drops(x) ==
  /\ x \in inflight \ inflight' /\ ruleId[x] # 0
  /\ dnrOps' = [dnrOps EXCEPT ![TabOf[x]] = Append(@, RemoveOp(ruleId[x]))]

Light ==
  /\ UNCHANGED <<ruleId, dnr, carried>>
  /\ inflight' \subseteq inflight
  /\ UNCHANGED dnrOps \/ \E x \in Req : Drops(x)
  /\ \A r \in Req : Mild(r)

\* The tabs and the base rule stay as they are, too.
BaseStays == UNCHANGED <<up, userAgent, adopted, baseInstall, baseUA>>

LEMMA StillIsLight ==
  ASSUME UNCHANGED <<pc, inflight, abort, ruleId, wire, carried, ruleVars, up>>
  PROVE  Light /\ BaseStays
<1>1. \A r \in Req : Mild(r)
  BY DEF Mild
<1> QED BY <1>1 DEF Light, BaseStays, ruleVars, tabRuleVars

\* A step about one request.
LEMMA OneIsLight ==
  ASSUME TypeOK, NEW x \in Req, UNCHANGED <<ruleId, dnr, carried>>,
         Finish(x) \/ UNCHANGED <<inflight, dnrOps>>, Mild(x),
         \A r \in Req \ {x} : pc'[r] = pc[r] /\ abort'[r] = abort[r] /\ wire'[r] = wire[r]
  PROVE  Light
<1>1. inflight' \subseteq inflight /\ \A r \in Req \ {x} : r \in inflight => r \in inflight'
  BY DEF Finish
<1>2. UNCHANGED dnrOps \/ Drops(x)
  BY DEF Finish, Drops
<1>3. \A r \in Req \ {x} : Mild(r)
  BY <1>1 DEF Mild
<1> QED BY <1>1, <1>2, <1>3 DEF Light

LEMMA EngineIsLight ==
  ASSUME \/ \E r \in Req : EngineStart(r) \/ EngineCancel(r)
         \/ \E t \in Tab : EngineRun(t)
  PROVE  Light /\ BaseStays
BY StillIsLight DEF EngineStart, EngineCancel, EngineRun, progressVars, netVars

LEMMA NetworkIsLight ==
  ASSUME TypeOK, NEW x \in Req, NetAnswer(x) \/ NetDrop(x)
  PROVE  Light /\ BaseStays
<1>1. /\ UNCHANGED <<pc, inflight, abort, ruleId, carried, dnr, dnrOps>> /\ BaseStays
  BY DEF NetAnswer, NetDrop, progressVars, ruleVars, tabRuleVars, BaseStays
<1>2. \A r \in Req \ {x} : wire'[r] = wire[r]
  BY DEF NetAnswer, NetDrop, TypeOK, BrowserTypeOK
<1>3. wire'[x] = "settled" \/ (wire[x] = "sent" /\ wire'[x] = "answered")
  BY DEF NetAnswer, NetDrop, TypeOK, BrowserTypeOK
<1>4. Mild(x)
  BY <1>1, <1>3 DEF Mild
<1> QED BY <1>1, <1>2, <1>4, OneIsLight

\* A request a take() has an answer for, before or after it waited.
LEMMA ResumeIsLight ==
  ASSUME TypeOK, NEW x \in Req, pc[x] \in {"fetch"} \cup Taking, NEW resolved, NEW seen,
         ResumeTake(x, resolved, seen), UNCHANGED <<carried, up>>,
         wire'[x] = "settled" \/ (wire'[x] = wire[x] /\ pc[x] # "fetch"),
         \A r \in Req \ {x} : wire'[r] = wire[r]
  PROVE  Light /\ BaseStays
<1>1. /\ UNCHANGED <<abort, ruleId, dnr>> /\ BaseStays
      /\ Finish(x) \/ UNCHANGED <<inflight, dnrOps>>
      /\ Goes(x, "over") \/ Goes(x, "read")
  BY DEF ResumeTake, Respond, Fail, BaseStays
<1>2. pc'[x] \in {"over", "read"} /\ \A r \in Req \ {x} : pc'[r] = pc[r]
  BY <1>1, GoesAlone
<1>3. Mild(x)
  BY <1>1, <1>2 DEF Mild, Taking
<1> QED BY <1>1, <1>2, <1>3, OneIsLight

LEMMA CaptureIsLight ==
  ASSUME TypeOK, WaitersWait, NEW t \in Tab, EntryArrives(t) \/ \E u \in Url : TakeTimesOut(t, u)
  PROVE  Light /\ BaseStays
<1>1. UNCHANGED <<up, wire, carried>>
  BY DEF EntryArrives, TakeTimesOut, netVars
<1>2. ASSUME UNCHANGED <<progressVars, ruleVars>> PROVE Light /\ BaseStays
  BY <1>1, <1>2, StillIsLight DEF progressVars
<1>3. ASSUME NEW u \in Url, waiters[t][u] # <<>>, Head(waiters[t][u]) # Nobody,
             NEW resolved, NEW seen, ResumeTake(Head(waiters[t][u]), resolved, seen)
      PROVE  Light /\ BaseStays
  <2>1. Head(waiters[t][u]) \in Req /\ pc[Head(waiters[t][u])] \in Taking
    BY <1>3, OldestWaits
  <2> QED BY <1>1, <1>3, <2>1, ResumeIsLight DEF Taking
<1>4. CASE EntryArrives(t)
  <2> DEFINE e == Head(events[t])
             u == UrlOf[e.req]
             w == Head(waiters[t][u])
  <2>1. e \in Entry
    BY <1>4, HeadTailProperties DEF EntryArrives, TypeOK, BrowserTypeOK
  <2>2. u \in Url
    BY <2>1, RequestsAssumption DEF Entry
  <2>3. IF waiters[t][u] # <<>> /\ w # Nobody
          THEN ResumeTake(w, pc[w] = "takeOk", e.redirect)
          ELSE UNCHANGED <<progressVars, ruleVars>>
    BY <1>4 DEF EntryArrives
  <2> HIDE DEF u, e
  <2> QED BY <1>2, <1>3, <2>2, <2>3
<1>5. ASSUME NEW u \in Url, TakeTimesOut(t, u) PROVE Light /\ BaseStays
  <2> DEFINE w == Head(waiters[t][u])
  <2>1. waiters[t][u] # <<>>
    BY <1>5 DEF TakeTimesOut, GiveUp
  <2>2. IF w # Nobody THEN ResumeTake(w, pc[w] = "takeOk", FALSE)
        ELSE UNCHANGED <<progressVars, ruleVars>>
    BY <1>5 DEF TakeTimesOut
  <2> QED BY <1>2, <1>3, <2>1, <2>2
<1> QED BY <1>4, <1>5

LEMMA FetchIsLight ==
  ASSUME TypeOK, NEW x \in Req, FetchSettles(x) \/ FetchAborted(x)
  PROVE  Light /\ BaseStays
<1>1. /\ pc[x] = "fetch" /\ UNCHANGED <<carried, up>>
      /\ wire' = [wire EXCEPT ![x] = "settled"]
  BY DEF FetchSettles, FetchAborted
<1>2. wire'[x] = "settled" /\ \A r \in Req \ {x} : wire'[r] = wire[r]
  BY <1>1 DEF TypeOK, BrowserTypeOK
<1>3. ASSUME NEW to \in {"over", "takeOk", "takeErr"}, Goes(x, to),
             UNCHANGED <<inflight, abort, ruleId, ruleVars>>
      PROVE  Light /\ BaseStays
  <2>1. pc'[x] = to /\ \A r \in Req \ {x} : pc'[r] = pc[r]
    BY <1>3, GoesAlone
  <2>2. Mild(x) /\ BaseStays
    BY <1>1, <1>2, <1>3, <2>1 DEF Mild, BaseStays, ruleVars, tabRuleVars
  <2>3. UNCHANGED <<dnr, dnrOps>>
    BY <1>3 DEF ruleVars
  <2> QED BY <1>1, <1>2, <1>3, <2>1, <2>2, <2>3, OneIsLight
<1>4. ASSUME NEW resolved, NEW seen, ResumeTake(x, resolved, seen) PROVE Light /\ BaseStays
  BY <1>1, <1>2, <1>4, ResumeIsLight
<1> QED BY <1>3, <1>4 DEF FetchSettles, FetchAborted

LEMMA StreamIsLight ==
  ASSUME TypeOK, RunnersSlice, NEW x \in Req,
         \/ ReadChunk(x) \/ ReadEnd(x) \/ ReadFails(x) \/ IdleTimerFires(x)
         \/ DeliverSlice(x) \/ AwaitCredit(x)
  PROVE  Light /\ BaseStays
<1>1. BaseStays /\ UNCHANGED <<wire, carried, ruleId, dnr>>
  BY DEF ReadChunk, ReadEnd, ReadFails, IdleTimerFires, DeliverSlice, AwaitCredit, BaseStays,
         ruleVars, tabRuleVars, netVars
<1>2. Finish(x) \/ UNCHANGED <<inflight, dnrOps>>
  BY DEF ReadChunk, ReadEnd, ReadFails, IdleTimerFires, DeliverSlice, AwaitCredit, Fail, ruleVars
<1>3. /\ \A r \in Req \ {x} : abort'[r] = abort[r]
      /\ abort[x] # "no" => abort'[x] # "no"
  BY DEF ReadChunk, ReadEnd, ReadFails, IdleTimerFires, DeliverSlice, AwaitCredit, TypeOK,
         ProgressTypeOK
<1>4. CASE IdleTimerFires(x)
  <2>1. UNCHANGED <<pc, inflight>>
    BY <1>4 DEF IdleTimerFires
  <2>2. Mild(x)
    BY <1>1, <1>3, <2>1 DEF Mild
  <2> QED BY <1>1, <1>2, <1>3, <2>1, <2>2, OneIsLight
<1>5. CASE ReadChunk(x) \/ ReadEnd(x) \/ ReadFails(x) \/ DeliverSlice(x) \/ AwaitCredit(x)
  <2>1. pc[x] \in {"read", "slice"}
    BY <1>5, RequestsAssumption DEF ReadChunk, ReadEnd, ReadFails, DeliverSlice, AwaitCredit,
                                    RunnersSlice
  <2>2. \E to \in {"over", "read", "slice", "credit"} : Goes(x, to)
    BY <1>5 DEF ReadChunk, ReadEnd, ReadFails, DeliverSlice, AwaitCredit
  <2>3. pc'[x] \in {"over", "read", "slice", "credit"} /\ \A r \in Req \ {x} : pc'[r] = pc[r]
    BY <2>2, GoesAlone
  <2>4. Mild(x)
    BY <1>1, <1>3, <2>1, <2>3 DEF Mild
  <2> QED BY <1>1, <1>2, <1>3, <2>3, <2>4, OneIsLight
<1> QED BY <1>4, <1>5

LEMMA MessageIsLight ==
  ASSUME TypeOK, RuleInv, NEW t \in Tab, NEW x \in Req,
         Refuse(t, x) \/ ReceiveCancel(t, x) \/ ReceiveAck(t, x)
  PROVE  Light /\ BaseStays
<1>1. BaseStays /\ UNCHANGED <<wire, carried, ruleId, dnr>>
  BY DEF Refuse, ReceiveCancel, ReceiveAck, BaseStays, ruleVars, tabRuleVars, netVars
<1>2. Finish(x) \/ UNCHANGED <<inflight, dnrOps>>
  BY DEF Refuse, ReceiveCancel, ReceiveAck, Fail, ruleVars
<1>3. CASE Refuse(t, x)
  <2>1. pc[x] = "new" /\ Goes(x, "over") /\ UNCHANGED <<abort, inflight>>
    BY <1>3, BeginIsFirst DEF RuleInv, Refuse
  <2>2. pc'[x] = "over" /\ \A r \in Req \ {x} : pc'[r] = pc[r]
    BY <2>1, GoesAlone
  <2>3. Mild(x)
    BY <1>1, <2>1, <2>2 DEF Mild
  <2> QED BY <1>1, <1>2, <2>1, <2>2, <2>3, OneIsLight
<1>4. CASE ReceiveCancel(t, x)
  <2>1. /\ \A r \in Req \ {x} : pc'[r] = pc[r] /\ abort'[r] = abort[r]
        /\ pc'[x] = pc[x] \/ (pc[x] = "credit" /\ pc'[x] = "over")
        /\ abort'[x] = abort[x] \/ abort'[x] # "no"
        /\ x \in inflight => abort'[x] # "no"
    BY <1>4 DEF ReceiveCancel, TypeOK, ProgressTypeOK
  <2>2. Mild(x)
    BY <1>1, <2>1 DEF Mild
  <2> QED BY <1>1, <1>2, <2>1, <2>2, OneIsLight
<1>5. CASE ReceiveAck(t, x)
  <2>1. /\ \A r \in Req \ {x} : pc'[r] = pc[r]
        /\ pc'[x] = pc[x] \/ (pc[x] = "credit" /\ pc'[x] = "slice")
        /\ UNCHANGED <<abort, inflight>>
    BY <1>5 DEF ReceiveAck, TypeOK, ProgressTypeOK
  <2>2. Mild(x)
    BY <1>1, <2>1 DEF Mild
  <2> QED BY <1>1, <1>2, <2>1, <2>2, OneIsLight
<1> QED BY <1>3, <1>4, <1>5

LEMMA RejectIsLight ==
  ASSUME TypeOK, NEW x \in Req, BaseRejected(x)
  PROVE  Light /\ BaseStays
<1>1. /\ BaseStays /\ UNCHANGED <<wire, carried, ruleId, dnr, abort>>
      /\ Finish(x) /\ pc[x] = "base" /\ Goes(x, "over")
  BY DEF BaseRejected, Fail, Due, BaseStays, netVars
<1>2. x \notin inflight' /\ pc'[x] = "over" /\ \A r \in Req \ {x} : pc'[r] = pc[r]
  BY <1>1, GoesAlone DEF Finish
<1>3. Mild(x)
  BY <1>1, <1>2 DEF Mild
<1> QED BY <1>1, <1>2, <1>3, OneIsLight

\* The end of a tab asks for nothing: its requests go, and their fetches with them.
LEMMA CloseIsLight ==
  ASSUME TypeOK, RuleInv, NEW t \in Tab, CloseTab(t)
  PROVE  Light
<1> DEFINE mine == {r \in Req : TabOf[r] = t /\ client[r] # "new"}
<1>1. UNCHANGED <<ruleId, dnr, carried, dnrOps>> /\ inflight' = inflight \ mine
  BY DEF CloseTab
<1>2. ASSUME NEW r \in Req PROVE Mild(r)
  <2>1. /\ pc'[r] = IF r \in mine THEN "over" ELSE pc[r]
        /\ abort'[r] = IF r \in mine /\ abort[r] = "no" THEN "cancel" ELSE abort[r]
        /\ wire'[r] = IF r \in mine /\ wire[r] = "queued" THEN "settled" ELSE wire[r]
    BY DEF CloseTab
  <2> HIDE DEF mine
  <2> QED BY <1>1, <2>1 DEF Mild
<1> QED BY <1>1, <1>2 DEF Light

\* The other steps are those of a request's rules, of the browser's, of a tab that
\* opens, and the departure of a fetch.
Heavy ==
  \/ \E t \in Tab : BrowserTask(t) \/ OpenTab(t) \/ \E r \in Req : Begin(t, r)
  \/ \E r \in Req : BaseInstalled(r) \/ NetSend(r)

LEMMA StepIsLight ==
  ASSUME TypeOK, RuleInv, StreamInv, Next
  PROVE  Heavy \/ (Light /\ (BaseStays \/ \E t \in Tab : CloseTab(t)))
<1>1. WaitersWait /\ RunnersSlice
  BY DEF StreamInv
<1>2. ASSUME NEW t \in Tab, PageTask(t) PROVE Heavy \/ (Light /\ BaseStays)
  BY <1>1, <1>2, CaptureIsLight, MessageIsLight DEF PageTask, Heavy
<1>3. ASSUME NEW r \in Req, RequestTask(r) PROVE Heavy \/ (Light /\ BaseStays)
  BY <1>1, <1>3, FetchIsLight, StreamIsLight, RejectIsLight DEF RequestTask, Heavy
<1> QED BY <1>2, <1>3, EngineIsLight, NetworkIsLight, CloseIsLight DEF Next, Network, Heavy

\* What the other steps do to the requests.
LEMMA BeginMoves ==
  ASSUME TypeOK, RuleInv, NEW t \in Tab, NEW x \in Req, Begin(t, x)
  PROVE  /\ TabOf[x] = t /\ pc[x] = "new" /\ x \notin inflight
         /\ inflight' = inflight \cup {x} /\ UNCHANGED <<up, abort, wire, carried, dnr, baseUA>>
         /\ pc'[x] = IF RidesBase(t, UAOf[x]) THEN "base" ELSE "add"
         /\ \A r \in Req \ {x} : pc'[r] = pc[r] /\ ruleId'[r] = ruleId[r]
         /\ HasHeaders[x] \/ ~RidesBase(t, UAOf[x]) => ruleId'[x] \in RuleId /\ ruleId'[x] # 0
<1>1. TabOf[x] = t /\ pc[x] = "new"
  BY BeginGoes, BeginIsFirst DEF RuleInv
<1>2. x \notin inflight /\ inflight' = inflight \cup {x}
      /\ UNCHANGED <<up, abort, wire, carried, dnr, baseUA>>
  BY <1>1 DEF Begin, netVars, RuleInv, Started, InflightHasBegun
<1>3. PICK id \in 0 .. MaxRuleId :
        /\ IF HasHeaders[x] \/ ~RidesBase(t, UAOf[x]) THEN AllocRuleId(t, id)
           ELSE id = 0 /\ UNCHANGED <<nextRuleId, used>>
        /\ ruleId' = [ruleId EXCEPT ![x] = id]
        /\ Goes(x, IF RidesBase(t, UAOf[x]) THEN "base" ELSE "add")
  BY DEF Begin
<1>4. ruleId'[x] = id /\ \A r \in Req \ {x} : ruleId'[r] = ruleId[r]
  BY <1>3 DEF TypeOK, ProgressTypeOK
<1>5. /\ pc'[x] = IF RidesBase(t, UAOf[x]) THEN "base" ELSE "add"
      /\ \A r \in Req \ {x} : pc'[r] = pc[r]
  BY <1>3, GoesAlone
<1>6. HasHeaders[x] \/ ~RidesBase(t, UAOf[x]) => id \in RuleId /\ id # 0
  BY <1>3, AllocType, RuleIdAssumption DEF TypeOK, RuleId
<1> QED BY <1>1, <1>2, <1>4, <1>5, <1>6

LEMMA StartMoves ==
  ASSUME TypeOK, NEW x \in Req, StartFetch(x)
  PROVE  /\ pc'[x] = "fetch" /\ wire'[x] = IF abort[x] = "no" THEN "queued" ELSE "settled"
         /\ \A r \in Req \ {x} : pc'[r] = pc[r] /\ wire'[r] = wire[r]
         /\ UNCHANGED carried
<1>1. pc'[x] = "fetch" /\ \A r \in Req \ {x} : pc'[r] = pc[r]
  BY GoesAlone DEF StartFetch
<1> QED BY <1>1 DEF StartFetch, TypeOK, BrowserTypeOK

LEMMA InstalledMoves ==
  ASSUME TypeOK, NEW x \in Req, BaseInstalled(x)
  PROVE  /\ pc[x] = "base" /\ baseInstall[TabOf[x]] = "ok"
         /\ UNCHANGED <<inflight, abort, ruleId, carried, dnr, baseUA, up, tabRuleVars>>
         /\ \A r \in Req \ {x} : pc'[r] = pc[r] /\ wire'[r] = wire[r]
         /\ \/ ruleId[x] # 0 /\ pc'[x] = "add" /\ wire'[x] = wire[x]
               /\ dnrOps' = [dnrOps EXCEPT ![TabOf[x]] = Append(@, AddOp(ruleId[x], x, Nobody))]
            \/ ruleId[x] = 0 /\ pc'[x] = "fetch" /\ UNCHANGED dnrOps
               /\ wire'[x] = IF abort[x] = "no" THEN "queued" ELSE "settled"
BY StartMoves, GoesAlone DEF BaseInstalled, Due, netVars

\* The oldest call of a tab adds the rule of a request of its own.
LEMMA OldestOp ==
  ASSUME TypeOK, NEW t \in Tab, dnrOps[t] # <<>>
  PROVE  /\ dnrOps[t] \in Seq(DnrOp) /\ Tail(dnrOps[t]) \in Seq(DnrOp)
         /\ 1 \in DOMAIN dnrOps[t] /\ NextOp(t) = dnrOps[t][1] /\ NextOp(t) = Head(dnrOps[t])
BY HeadTailProperties DEF TypeOK, RulesTypeOK, NextOp

LEMMA AddMoves ==
  ASSUME TypeOK, RuleInv, NEW t \in Tab, DnrAdd(t) \/ DnrReject(t)
  PROVE  LET x == NextOp(t).rule.req IN
         /\ x \in Req /\ TabOf[x] = t /\ dnrOps[t] # <<>> /\ NextOp(t).op = "add"
         /\ NextOp(t).rule \in Rule
         /\ \A r \in Req \ {x} : pc'[r] = pc[r] /\ wire'[r] = wire[r]
         /\ UNCHANGED <<abort, ruleId, carried, baseUA, up, userAgent, adopted, baseInstall>>
         /\ pc[x] # "add" => pc'[x] = pc[x] /\ wire'[x] = wire[x] /\ UNCHANGED inflight
<1> DEFINE x == NextOp(t).rule.req
<1>1. Executes(t, "add")
  BY DEF DnrAdd, DnrReject
<1>2. NextOp(t).rule \in Rule /\ x \in Req
  BY <1>1, AddedRuleType DEF TypeOK
<1>3. dnrOps[t] # <<>> /\ NextOp(t).op = "add"
  BY <1>1 DEF Executes
<1>4. TabOf[x] = t
  BY <1>3, OldestOp DEF RuleInv, AddsAreOwn
<1>5. UNCHANGED <<abort, ruleId, carried, baseUA, up, userAgent, adopted, baseInstall>>
  <2>1. CASE DnrAdd(t)
    BY <2>1 DEF DnrAdd, StartFetch, tabRuleVars, netVars
  <2>2. CASE DnrReject(t)
    BY <2>2 DEF DnrReject, netVars
  <2> QED BY <2>1, <2>2
<1>6. /\ \A r \in Req \ {x} : pc'[r] = pc[r] /\ wire'[r] = wire[r]
      /\ pc[x] # "add" => pc'[x] = pc[x] /\ wire'[x] = wire[x] /\ UNCHANGED inflight
  <2>1. CASE DnrAdd(t)
    <3>1. IF pc[x] = "add" THEN StartFetch(x) ELSE UNCHANGED <<pc, wire>>
      BY <2>1 DEF DnrAdd, netVars
    <3>2. UNCHANGED inflight
      BY <2>1 DEF DnrAdd
    <3> QED BY <1>2, <3>1, <3>2, StartMoves
  <2>2. CASE DnrReject(t)
    <3>1. /\ pc' = [pc EXCEPT ![x] = IF @ = "add" THEN "over" ELSE @]
          /\ UNCHANGED wire /\ (pc[x] # "add" => UNCHANGED inflight)
      BY <2>2 DEF DnrReject, netVars
    <3> QED BY <1>2, <3>1 DEF TypeOK, ProgressTypeOK
  <2> QED BY <2>1, <2>2
<1> QED BY <1>2, <1>3, <1>4, <1>5, <1>6

\* A rule is accepted, and the fetch of the request that awaits it begins; or it is
\* rejected, and that request ends.
LEMMA AcceptMoves ==
  ASSUME TypeOK, RuleInv, NEW t \in Tab, DnrAdd(t)
  PROVE  LET x == NextOp(t).rule.req IN
         /\ dnr' = dnr \cup {NextOp(t).rule} /\ UNCHANGED inflight
         /\ dnrOps' = [dnrOps EXCEPT ![t] = Tail(@)]
         /\ pc[x] = "add" => /\ pc'[x] = "fetch"
                             /\ wire'[x] = IF abort[x] = "no" THEN "queued" ELSE "settled"
BY AddMoves, StartMoves DEF DnrAdd

LEMMA RejectMoves ==
  ASSUME TypeOK, RuleInv, NEW t \in Tab, DnrReject(t)
  PROVE  LET x == NextOp(t).rule.req IN
         /\ UNCHANGED <<dnr, wire>>
         /\ pc[x] = "add" => pc'[x] = "over"
         /\ \/ /\ pc[x] = "add" /\ x \in inflight /\ inflight' = inflight \ {x}
               /\ dnrOps' = [dnrOps EXCEPT ![t] = Append(Tail(@), RemoveOp(ruleId[x]))]
            \/ /\ pc[x] # "add" \/ x \notin inflight
               /\ UNCHANGED inflight /\ dnrOps' = [dnrOps EXCEPT ![t] = Tail(@)]
<1>1. NextOp(t).rule.req \in Req
  BY AddMoves
<1> QED BY <1>1 DEF DnrReject, netVars, TypeOK, ProgressTypeOK

\* The calls a step may add to those of a tab.
Fresh(t, o) ==
  \/ \E x \in inflight \ inflight' : TabOf[x] = t /\ o = RemoveOp(ruleId[x])
  \/ OpenTab(t) /\ o = BaseOp(Nobody)
  \/ \E x \in Req : Begin(t, x) /\ Adopts(t, UAOf[x]) /\ o = BaseOp(UAOf[x])
  \/ \E x \in Req : Begin(t, x) /\ ~RidesBase(t, UAOf[x]) /\ o = AddOp(ruleId'[x], x, UAOf[x])
  \/ \E x \in Req : /\ BaseInstalled(x) /\ TabOf[x] = t /\ ruleId[x] # 0
                    /\ o = AddOp(ruleId[x], x, Nobody)

Grows(t) == \E new : Succeeds(dnrOps'[t], dnrOps[t], new) /\ \A o \in new : Fresh(t, o)

LEMMA OneGrows ==
  ASSUME TypeOK, NEW t \in Tab,
         \/ UNCHANGED dnrOps
         \/ \E o \in DnrOp : Fresh(t, o) /\ dnrOps' = [dnrOps EXCEPT ![t] = Append(@, o)]
         \/ /\ dnrOps[t] # <<>>
            /\ \/ dnrOps' = [dnrOps EXCEPT ![t] = Tail(@)]
               \/ \E o \in DnrOp :
                    Fresh(t, o) /\ dnrOps' = [dnrOps EXCEPT ![t] = Append(Tail(@), o)]
  PROVE  \A s \in Tab : Grows(s)
<1> DEFINE q == dnrOps[t]
<1>1. dnrOps \in [Tab -> Seq(DnrOp)] /\ q \in Seq(DnrOp)
  BY DEF TypeOK, RulesTypeOK
<1>2. RemoveOp(0) \in DnrOp
  BY DEF RemoveOp, DnrOp
<1>3. ASSUME NEW s \in Tab, dnrOps'[s] = dnrOps[s] PROVE Grows(s)
  <2>1. Succeeds(dnrOps'[s], dnrOps[s], {})
    BY <1>1, <1>2, <1>3, OpsSucceed
  <2> QED BY <2>1 DEF Grows
<1>4. CASE UNCHANGED dnrOps
  BY <1>3, <1>4
<1>5. ASSUME NEW p, dnrOps' = [dnrOps EXCEPT ![t] = p], NEW new, Succeeds(p, q, new),
             \A o \in new : Fresh(t, o)
      PROVE  \A s \in Tab : Grows(s)
  <2>1. dnrOps'[t] = p /\ \A s \in Tab \ {t} : dnrOps'[s] = dnrOps[s]
    BY <1>1, <1>5
  <2>2. Grows(t)
    BY <1>5, <2>1 DEF Grows
  <2> QED BY <1>3, <2>1, <2>2
<1>6. ASSUME NEW o \in DnrOp, Fresh(t, o),
             \/ dnrOps' = [dnrOps EXCEPT ![t] = Append(@, o)]
             \/ q # <<>> /\ dnrOps' = [dnrOps EXCEPT ![t] = Append(Tail(@), o)]
      PROVE  \A s \in Tab : Grows(s)
  <2>1. /\ Succeeds(Append(q, o), q, {o})
        /\ q # <<>> => Succeeds(Append(Tail(q), o), q, {o})
    BY <1>1, OpsSucceed
  <2>2. \/ dnrOps' = [dnrOps EXCEPT ![t] = Append(q, o)]
        \/ q # <<>> /\ dnrOps' = [dnrOps EXCEPT ![t] = Append(Tail(q), o)]
    BY <1>6
  <2>3. \A z \in {o} : Fresh(t, z)
    BY <1>6
  <2> HIDE DEF q
  <2> QED BY <1>5, <2>1, <2>2, <2>3
<1>7. CASE q # <<>> /\ dnrOps' = [dnrOps EXCEPT ![t] = Tail(@)]
  <2> DEFINE none == {}
  <2>1. Succeeds(Tail(q), q, none)
    BY <1>1, <1>2, <1>7, OpsSucceed
  <2>2. dnrOps' = [dnrOps EXCEPT ![t] = Tail(q)] /\ \A o \in none : Fresh(t, o)
    BY <1>7
  <2> HIDE DEF q, none
  <2> QED BY <1>5, <2>1, <2>2
<1> QED BY <1>4, <1>6, <1>7

LEMMA OpsGrow ==
  ASSUME TypeOK, RuleInv, StreamInv, Next
  PROVE  \A t \in Tab : Grows(t)
<1> USE RequestsAssumption
<1>1. CASE Light
  <2>1. ASSUME NEW x \in Req, Drops(x) PROVE \A t \in Tab : Grows(t)
    <3>1. RemoveOp(ruleId[x]) \in DnrOp
      BY DEF TypeOK, ProgressTypeOK, RemoveOp, DnrOp
    <3>2. Fresh(TabOf[x], RemoveOp(ruleId[x]))
      BY <2>1 DEF Fresh, Drops
    <3> QED BY <2>1, <3>1, <3>2, OneGrows DEF Drops
  <2>2. CASE UNCHANGED dnrOps
    <3>1. ASSUME NEW t \in Tab PROVE Grows(t)
      BY <2>2, OneGrows
    <3> QED BY <3>1
  <2> QED BY <1>1, <2>1, <2>2 DEF Light
<1>2. ASSUME NEW t \in Tab, NEW x \in Req, Begin(t, x) PROVE \A s \in Tab : Grows(s)
  <2>1. /\ TabOf[x] = t
        /\ HasHeaders[x] \/ ~RidesBase(t, UAOf[x]) => ruleId'[x] \in RuleId
    BY <1>2, BeginMoves
  <2>2. PICK id \in 0 .. MaxRuleId :
          /\ ruleId' = [ruleId EXCEPT ![x] = id]
          /\ dnrOps' = [dnrOps EXCEPT ![t] =
               IF Adopts(t, UAOf[x]) THEN Append(@, BaseOp(UAOf[x]))
               ELSE IF RidesBase(t, UAOf[x]) THEN @ ELSE Append(@, AddOp(id, x, UAOf[x]))]
    BY <1>2 DEF Begin
  <2>3. id = ruleId'[x] /\ dnrOps \in [Tab -> Seq(DnrOp)]
    BY <2>2 DEF TypeOK, ProgressTypeOK, RulesTypeOK
  <2>4. CASE Adopts(t, UAOf[x])
    <3>1. BaseOp(UAOf[x]) \in DnrOp
      BY DEF BaseOp, DnrOp
    <3>2. Fresh(t, BaseOp(UAOf[x]))
      BY <1>2, <2>4 DEF Fresh
    <3>3. dnrOps' = [dnrOps EXCEPT ![t] = Append(@, BaseOp(UAOf[x]))]
      BY <2>2, <2>4
    <3> QED BY <3>1, <3>2, <3>3, OneGrows
  <2>5. CASE ~Adopts(t, UAOf[x]) /\ RidesBase(t, UAOf[x])
    <3>1. UNCHANGED dnrOps
      BY <2>2, <2>3, <2>5
    <3> QED BY <3>1, OneGrows
  <2>6. CASE ~Adopts(t, UAOf[x]) /\ ~RidesBase(t, UAOf[x])
    <3>1. AddOp(id, x, UAOf[x]) \in DnrOp
      BY <2>1, <2>3, <2>6, OpType
    <3>2. Fresh(t, AddOp(id, x, UAOf[x]))
      BY <1>2, <2>3, <2>6 DEF Fresh
    <3>3. dnrOps' = [dnrOps EXCEPT ![t] = Append(@, AddOp(id, x, UAOf[x]))]
      BY <2>2, <2>6
    <3> QED BY <3>1, <3>2, <3>3, OneGrows
  <2> QED BY <2>4, <2>5, <2>6
<1>3. ASSUME NEW x \in Req, BaseInstalled(x) PROVE \A s \in Tab : Grows(s)
  <2>1. CASE UNCHANGED dnrOps
    <3>1. TabOf[x] \in Tab
      OBVIOUS
    <3> QED BY <2>1, <3>1, OneGrows
  <2>2. CASE ruleId[x] # 0
             /\ dnrOps' = [dnrOps EXCEPT ![TabOf[x]] = Append(@, AddOp(ruleId[x], x, Nobody))]
    <3>1. ruleId[x] \in RuleId
      BY <2>2 DEF TypeOK, ProgressTypeOK
    <3>2. AddOp(ruleId[x], x, Nobody) \in DnrOp
      BY <3>1, OpType
    <3>3. Fresh(TabOf[x], AddOp(ruleId[x], x, Nobody))
      BY <1>3, <2>2 DEF Fresh
    <3> QED BY <2>2, <3>2, <3>3, OneGrows
  <2> QED BY <1>3, <2>1, <2>2, InstalledMoves
<1>4. ASSUME NEW t \in Tab, BrowserTask(t) PROVE \A s \in Tab : Grows(s)
  <2>1. dnrOps[t] # <<>>
    BY <1>4 DEF BrowserTask, DnrBase, DnrAdd, DnrReject, DnrRemove, Executes
  <2>2. CASE dnrOps' = [dnrOps EXCEPT ![t] = Tail(@)]
    BY <2>1, <2>2, OneGrows
  <2>3. CASE DnrReject(t)
    <3> DEFINE x == NextOp(t).rule.req
    <3>1. CASE /\ x \in inflight /\ inflight' = inflight \ {x}
               /\ dnrOps' = [dnrOps EXCEPT ![t] = Append(Tail(@), RemoveOp(ruleId[x]))]
      <4>1. x \in Req /\ TabOf[x] = t
        BY <2>3, AddMoves
      <4>2. RemoveOp(ruleId[x]) \in DnrOp
        BY <4>1 DEF TypeOK, ProgressTypeOK, RemoveOp, DnrOp
      <4>3. Fresh(t, RemoveOp(ruleId[x]))
        BY <3>1, <4>1 DEF Fresh
      <4> QED BY <2>1, <3>1, <4>2, <4>3, OneGrows
    <3> QED BY <2>2, <2>3, <3>1, RejectMoves
  <2> QED BY <1>4, <2>2, <2>3 DEF BrowserTask, DnrBase, DnrAdd, DnrRemove
<1>5. ASSUME NEW t \in Tab, OpenTab(t) PROVE \A s \in Tab : Grows(s)
  <2>1. /\ Fresh(t, BaseOp(Nobody)) /\ BaseOp(Nobody) \in DnrOp
        /\ dnrOps' = [dnrOps EXCEPT ![t] = Append(@, BaseOp(Nobody))]
    BY <1>5 DEF OpenTab, Fresh, BaseOp, DnrOp
  <2> QED BY <2>1, OneGrows
<1>6. ASSUME NEW x \in Req, NetSend(x) PROVE \A s \in Tab : Grows(s)
  <2>1. UNCHANGED dnrOps /\ TabOf[x] \in Tab
    BY <1>6 DEF NetSend, ruleVars
  <2> QED BY <2>1, OneGrows
<1> QED BY <1>1, <1>2, <1>3, <1>4, <1>5, <1>6, StepIsLight DEF Heavy

-----------------------------------------------------------------------------
(* The headers of a request.  Its own rule is asked for before its fetch   *)
(* starts, nothing asks for the removal of that rule until the request is  *)
(* out of flight, and a fetch starts only once the rule is in force.       *)

\* A rule is added for a request that has begun, under the id it was given.
AddsNamed ==
  \A t \in Tab : \A i \in DOMAIN dnrOps[t] :
    LET o == dnrOps[t][i] IN
    o.op = "add" => pc[o.rule.req] # "new" /\ o.rule.id = ruleId[o.rule.req]

InForce(r) == \E x \in dnr : x.id = ruleId[r] /\ x.req = r

KeepsRule(r) ==
  /\ Guarded(dnrOps[TabOf[r]], r, ruleId[r])
  /\ pc[r] \notin {"base", "add"} => InForce(r) /\ Clear(dnrOps[TabOf[r]], ruleId[r])

\* A request that will go on to its fetch, or is about to leave, is in flight.
Flies(r) ==
  /\ r \in inflight /\ HasHeaders[r] => ruleId[r] # 0
  /\ pc[r] \in {"base", "add"} /\ abort[r] = "no" => r \in inflight
  /\ wire[r] = "queued" /\ abort[r] = "no" => r \in inflight /\ pc[r] = "fetch"

RideInv ==
  /\ AddsNamed
  /\ \A r \in inflight : ruleId[r] # 0 => KeepsRule(r)
  /\ \A r \in Req : Flies(r)
  /\ OwnHeadersRide

LEMMA RuleIdStays ==
  ASSUME TypeOK, RuleInv, StreamInv, Next
  PROVE  \A r \in Req : pc[r] # "new" => ruleId'[r] = ruleId[r] /\ pc'[r] # "new"
<1>1. \A r \in Req : pc[r] # "new" => pc'[r] # "new"
  BY NeverNewAgain DEF RuleInv
<1>2. CASE Light
  BY <1>1, <1>2 DEF Light
<1>3. ASSUME NEW t \in Tab, NEW x \in Req, Begin(t, x)
      PROVE  \A r \in Req : pc[r] # "new" => ruleId'[r] = ruleId[r]
  BY <1>3, BeginMoves
<1>4. ASSUME NEW t \in Tab, BrowserTask(t) \/ OpenTab(t) PROVE UNCHANGED ruleId
  BY <1>4 DEF BrowserTask, DnrBase, DnrAdd, DnrReject, DnrRemove, OpenTab, progressVars
<1>5. ASSUME NEW x \in Req, BaseInstalled(x) \/ NetSend(x) PROVE UNCHANGED ruleId
  BY <1>5 DEF BaseInstalled, NetSend, progressVars
<1> QED BY <1>1, <1>2, <1>3, <1>4, <1>5, StepIsLight DEF Heavy

\* A call of a tab is one it had made, or one the step adds.
LEMMA OpsOrigin ==
  ASSUME TypeOK, TypeOK', RuleInv, StreamInv, Next, NEW t \in Tab, NEW i \in DOMAIN dnrOps'[t]
  PROVE  Fresh(t, dnrOps'[t][i]) \/ \E j \in DOMAIN dnrOps[t] : dnrOps'[t][i] = dnrOps[t][j]
<1>1. dnrOps[t] \in Seq(DnrOp) /\ dnrOps'[t] \in Seq(DnrOp)
  BY DEF TypeOK, RulesTypeOK
<1>2. PICK new : Succeeds(dnrOps'[t], dnrOps[t], new) /\ \A o \in new : Fresh(t, o)
  BY OpsGrow DEF Grows
<1> QED BY <1>1, <1>2, OpsKeep

\* An addition that is fresh is for a request that begins or whose base rule is in.
LEMMA FreshAdd ==
  ASSUME TypeOK, RuleInv, NEW t \in Tab, NEW o, Fresh(t, o), o.op = "add"
  PROVE  LET x == o.rule.req IN
         /\ x \in Req /\ TabOf[x] = t /\ pc'[x] = "add" /\ o.rule.id = ruleId'[x]
         /\ \/ Begin(t, x) /\ o.rule.ua = UAOf[x] /\ ~RidesBase(t, UAOf[x])
            \/ BaseInstalled(x) /\ o.rule.ua = Nobody
<1>1. ASSUME NEW x \in Req, Begin(t, x), ~RidesBase(t, UAOf[x]), o = AddOp(ruleId'[x], x, UAOf[x])
      PROVE  /\ o.rule.req = x /\ TabOf[x] = t /\ pc'[x] = "add"
             /\ o.rule.id = ruleId'[x] /\ o.rule.ua = UAOf[x]
  BY <1>1, BeginMoves DEF AddOp
<1>2. ASSUME NEW x \in Req, BaseInstalled(x), TabOf[x] = t, ruleId[x] # 0,
             o = AddOp(ruleId[x], x, Nobody)
      PROVE  /\ o.rule.req = x /\ TabOf[x] = t /\ pc'[x] = "add"
             /\ o.rule.id = ruleId'[x] /\ o.rule.ua = Nobody
  BY <1>2, InstalledMoves DEF AddOp
<1>3. o # BaseOp(Nobody) /\ (\A x : o # RemoveOp(ruleId[x])) /\ \A x : o # BaseOp(UAOf[x])
  BY DEF BaseOp, RemoveOp
<1> QED BY <1>1, <1>2, <1>3 DEF Fresh

LEMMA NamedStep ==
  ASSUME TypeOK, TypeOK', RuleInv, StreamInv, AddsNamed, Next
  PROVE  AddsNamed'
<1> SUFFICES ASSUME NEW t \in Tab, NEW i \in DOMAIN dnrOps'[t], dnrOps'[t][i].op = "add"
             PROVE  LET x == dnrOps'[t][i].rule.req IN
                    pc'[x] # "new" /\ dnrOps'[t][i].rule.id = ruleId'[x]
  BY DEF AddsNamed
<1>1. CASE Fresh(t, dnrOps'[t][i])
  BY <1>1, FreshAdd
<1>2. ASSUME NEW j \in DOMAIN dnrOps[t], dnrOps'[t][i] = dnrOps[t][j]
      PROVE  LET x == dnrOps'[t][i].rule.req IN
             pc'[x] # "new" /\ dnrOps'[t][i].rule.id = ruleId'[x]
  <2> DEFINE o == dnrOps[t][j]
  <2>1. o \in DnrOp
    BY DEF TypeOK, RulesTypeOK
  <2>2. o.rule.req \in Req
    BY <1>2, <2>1 DEF DnrOp, Rule
  <2> QED BY <1>2, <2>2, RuleIdStays DEF AddsNamed
<1> QED BY <1>1, <1>2, OpsOrigin

\* No step adds a removal of the rule of a request that stays in flight: the rule
\* ids of a tab's requests in flight differ.
LEMMA OpsRide ==
  ASSUME TypeOK, TypeOK', RuleInv, StreamInv, Next, NEW r \in inflight, r \in inflight',
         ruleId[r] # 0
  PROVE  LET q == dnrOps[TabOf[r]]  p == dnrOps'[TabOf[r]] IN
         /\ Guarded(q, r, ruleId[r]) => Guarded(p, r, ruleId[r])
         /\ Clear(q, ruleId[r]) => Clear(p, ruleId[r])
<1> DEFINE t == TabOf[r]
<1>1. t \in Tab /\ r \in Req
  BY RequestsAssumption DEF TypeOK, ProgressTypeOK
<1>2. dnrOps[t] \in Seq(DnrOp) /\ dnrOps'[t] \in Seq(DnrOp)
  BY <1>1 DEF TypeOK, RulesTypeOK
<1>3. PICK new : Succeeds(dnrOps'[t], dnrOps[t], new) /\ \A o \in new : Fresh(t, o)
  BY <1>1, OpsGrow DEF Grows
<1>4. ASSUME NEW o \in new, Removes(o, ruleId[r]) PROVE FALSE
  <2>1. PICK x \in inflight \ inflight' : TabOf[x] = t /\ o = RemoveOp(ruleId[x])
    BY <1>3, <1>4 DEF Fresh, Removes, BaseOp, AddOp
  <2>2. x # r /\ ruleId[x] = ruleId[r]
    BY <1>4, <2>1 DEF Removes, RemoveOp
  <2> QED BY <2>1, <2>2 DEF RuleInv, RuleIdsMatch
<1> QED BY <1>2, <1>3, <1>4, OpsKeep

\* A step that leaves r where it is, and its rule in force.
LEMMA KeepsOn ==
  ASSUME TypeOK, TypeOK', RuleInv, StreamInv, Next, NEW r \in inflight, r \in inflight',
         ruleId[r] # 0, KeepsRule(r), ruleId'[r] = ruleId[r],
         pc[r] \in {"base", "add"} => pc'[r] \in {"base", "add"},
         \A x \in dnr : x.id = ruleId[r] /\ x.req = r => x \in dnr'
  PROVE  KeepsRule(r)'
BY OpsRide DEF KeepsRule, InForce, Guarded, Clear

LEMMA KeepsStep ==
  ASSUME SingleTab, TypeOK, TypeOK', RuleInv, StreamInv, RideInv, Next,
         NEW r \in inflight', ruleId'[r] # 0
  PROVE  KeepsRule(r)'
<1>0. inflight \subseteq Req /\ inflight' \subseteq Req /\ r \in Req /\ TabOf[r] \in Tab
  BY RequestsAssumption DEF TypeOK, ProgressTypeOK
<1> DEFINE Stays == r \in inflight /\ ruleId'[r] = ruleId[r]
<1>1. ASSUME Stays, pc[r] \in {"base", "add"} => pc'[r] \in {"base", "add"}, dnr \subseteq dnr'
      PROVE  KeepsRule(r)'
  BY <1>1, KeepsOn DEF RideInv
<1>2. CASE Light
  BY <1>0, <1>1, <1>2 DEF Light, Mild
<1>3. ASSUME NEW t \in Tab, NEW x \in Req, Begin(t, x) PROVE KeepsRule(r)'
  <2>1. CASE r # x
    BY <1>0, <1>1, <1>3, <2>1, BeginMoves
  <2>2. CASE r = x
    <3>1. TabOf[r] = t /\ pc[r] = "new" /\ pc'[r] \in {"base", "add"}
      BY <1>3, <2>2, BeginMoves
    <3>2. \A i \in DOMAIN dnrOps[t] : ~AddsFor(dnrOps[t][i], r)
      BY <3>1 DEF RideInv, AddsNamed, AddsFor
    <3>3. dnrOps[t] \in Seq(DnrOp) /\ dnrOps'[t] \in Seq(DnrOp)
      BY DEF TypeOK, RulesTypeOK
    <3>4. \/ dnrOps'[t] = dnrOps[t]
          \/ \E o \in DnrOp : dnrOps'[t] = Append(dnrOps[t], o)
      <4>1. PICK id \in 0 .. MaxRuleId :
              /\ ruleId' = [ruleId EXCEPT ![x] = id]
              /\ dnrOps' = [dnrOps EXCEPT ![t] =
                   IF Adopts(t, UAOf[x]) THEN Append(@, BaseOp(UAOf[x]))
                   ELSE IF RidesBase(t, UAOf[x]) THEN @ ELSE Append(@, AddOp(id, x, UAOf[x]))]
        BY <1>3 DEF Begin
      <4>2. /\ ~RidesBase(t, UAOf[x]) => id \in RuleId
            /\ UAOf[x] \in UA \cup {Nobody}
        <5>1. id = ruleId'[x]
          BY <4>1 DEF TypeOK, ProgressTypeOK
        <5> QED BY <1>3, <5>1, BeginMoves, RequestsAssumption
      <4>3. /\ BaseOp(UAOf[x]) \in DnrOp
            /\ ~RidesBase(t, UAOf[x]) => AddOp(id, x, UAOf[x]) \in DnrOp
        BY <4>2, OpType DEF BaseOp, DnrOp
      <4>4. dnrOps'[t] = IF Adopts(t, UAOf[x]) THEN Append(dnrOps[t], BaseOp(UAOf[x]))
                         ELSE IF RidesBase(t, UAOf[x]) THEN dnrOps[t]
                         ELSE Append(dnrOps[t], AddOp(id, x, UAOf[x]))
        BY <4>1 DEF TypeOK, RulesTypeOK
      <4> QED BY <4>3, <4>4
    <3>5. Guarded(dnrOps'[t], r, ruleId'[r])
      <4>1. CASE dnrOps'[t] = dnrOps[t]
        BY <3>2, <4>1 DEF Guarded
      <4>2. ASSUME NEW o \in DnrOp, dnrOps'[t] = Append(dnrOps[t], o)
            PROVE  Guarded(dnrOps'[t], r, ruleId'[r])
        BY <3>2, <3>3, <4>2, OpsAdd
      <4> QED BY <3>4, <4>1, <4>2
    <3> QED BY <3>1, <3>5 DEF KeepsRule, Guarded
  <2> QED BY <2>1, <2>2
<1>4. ASSUME NEW x \in Req, BaseInstalled(x) PROVE KeepsRule(r)'
  BY <1>0, <1>1, <1>4, InstalledMoves
<1>5. ASSUME UNCHANGED <<progressVars, dnr>> PROVE KeepsRule(r)'
  BY <1>1, <1>5 DEF progressVars
<1>6. ASSUME NEW t \in Tab, DnrBase(t) \/ OpenTab(t) PROVE KeepsRule(r)'
  BY <1>5, <1>6 DEF DnrBase, OpenTab
<1>7. ASSUME NEW x \in Req, NetSend(x) PROVE KeepsRule(r)'
  BY <1>5, <1>7 DEF NetSend, ruleVars
<1>8. ASSUME NEW t \in Tab, DnrAdd(t) PROVE KeepsRule(r)'
  <2> DEFINE rule == NextOp(t).rule
             x == rule.req
             q == dnrOps[t]
  <2>1. /\ x \in Req /\ TabOf[x] = t /\ q # <<>> /\ NextOp(t).op = "add"
        /\ \A s \in Req \ {x} : pc'[s] = pc[s]
        /\ UNCHANGED <<ruleId, inflight>> /\ dnr' = dnr \cup {rule}
        /\ dnrOps' = [dnrOps EXCEPT ![t] = Tail(@)]
        /\ pc[x] # "add" => pc'[x] = pc[x]
    BY <1>8, AddMoves, AcceptMoves
  <2>2. CASE r # x \/ pc[x] # "add"
    BY <1>0, <1>1, <2>1, <2>2
  <2>3. CASE r = x /\ pc[x] = "add"
    <3>1. q \in Seq(DnrOp) /\ 1 \in DOMAIN q /\ Head(q) = q[1] /\ NextOp(t) = q[1]
      BY <2>1, OldestOp
    <3>2. AddsFor(Head(q), r) /\ rule.id = ruleId[r]
      BY <2>1, <2>3, <3>1 DEF AddsFor, RideInv, AddsNamed
    <3>3. Guarded(q, r, ruleId[r]) /\ ruleId[r] # 0
      BY <2>1, <2>3 DEF RideInv, KeepsRule
    <3>4. Clear(Tail(q), ruleId[r])
      BY <2>1, <3>1, <3>2, <3>3, OpsClear
    <3>5. Guarded(dnrOps'[t], r, ruleId[r])
      BY <2>1, <2>3, <3>3, OpsRide
    <3>6. dnrOps'[t] = Tail(q)
      BY <2>1 DEF TypeOK, RulesTypeOK
    <3>7. InForce(r)'
      BY <2>1, <2>3, <3>2 DEF InForce
    <3> HIDE DEF q
    <3> QED BY <2>1, <2>3, <3>4, <3>5, <3>6, <3>7 DEF KeepsRule, Guarded, Clear
  <2> QED BY <2>2, <2>3
<1>9. ASSUME NEW t \in Tab, DnrReject(t) PROVE KeepsRule(r)'
  <2> DEFINE x == NextOp(t).rule.req
  <2>1. /\ x \in Req /\ \A s \in Req \ {x} : pc'[s] = pc[s]
        /\ UNCHANGED <<ruleId, dnr>>
        /\ pc[x] # "add" => pc'[x] = pc[x] /\ UNCHANGED inflight
        /\ inflight' \subseteq inflight /\ (pc[x] = "add" => x \notin inflight')
    BY <1>9, AddMoves, RejectMoves
  <2> QED BY <1>0, <1>1, <2>1
<1>10. ASSUME NEW t \in Tab, DnrRemove(t) PROVE KeepsRule(r)'
  <2>1. /\ UNCHANGED <<pc, inflight, ruleId>> /\ dnrOps[t] # <<>> /\ NextOp(t).op = "remove"
        /\ dnr' = {x \in dnr : x.id # NextOp(t).id}
    BY <1>10 DEF DnrRemove, Executes, progressVars
  <2>2. CASE pc[r] \in {"base", "add"}
    <3>1. Guarded(dnrOps'[TabOf[r]], r, ruleId[r])
      BY <2>1, OpsRide DEF RideInv, KeepsRule
    <3> QED BY <2>1, <2>2, <3>1 DEF KeepsRule, Guarded
  <2>3. CASE pc[r] \notin {"base", "add"}
    <3>1. t = TabOf[r] /\ Clear(dnrOps[t], ruleId[r])
      BY <1>0, <2>1, <2>3 DEF SingleTab, RideInv, KeepsRule
    <3>2. NextOp(t).id # ruleId[r]
      BY <2>1, <3>1, OldestOp DEF Clear, Removes
    <3> QED BY <2>1, <3>2, KeepsOn DEF RideInv
  <2> QED BY <2>2, <2>3
<1> QED BY <1>2, <1>3, <1>4, <1>6, <1>7, <1>8, <1>9, <1>10, StepIsLight DEF Heavy, BrowserTask

LEMMA FliesStep ==
  ASSUME TypeOK, TypeOK', RuleInv, StreamInv, RideInv, Next, NEW r \in Req
  PROVE  Flies(r)'
<1>1. Flies(r) /\ r \in Req
  BY DEF RideInv
\* r stays where it is.
<1>2. ASSUME pc'[r] = pc[r], abort'[r] = abort[r], wire'[r] = wire[r], ruleId'[r] = ruleId[r],
             r \in inflight' <=> r \in inflight
      PROVE  Flies(r)'
  BY <1>1, <1>2 DEF Flies
<1>3. CASE Light
  <2>1. Mild(r) /\ ruleId' = ruleId /\ inflight' \subseteq inflight
    BY <1>3 DEF Light
  <2> QED BY <1>1, <2>1 DEF Flies, Mild
<1>4. ASSUME NEW t \in Tab, NEW x \in Req, Begin(t, x) PROVE Flies(r)'
  <2>1. CASE r = x
    <3>1. /\ pc[r] = "new" /\ r \in inflight' /\ UNCHANGED <<abort, wire>>
          /\ HasHeaders[r] => ruleId'[r] # 0
      BY <1>4, <2>1, BeginMoves
    <3> QED BY <1>1, <3>1 DEF Flies
  <2> QED BY <1>2, <1>4, <2>1, BeginMoves
<1>5. ASSUME NEW x \in Req, BaseInstalled(x) PROVE Flies(r)'
  <2>1. CASE r = x
    BY <1>1, <1>5, <2>1, InstalledMoves DEF Flies
  <2> QED BY <1>2, <1>5, <2>1, InstalledMoves
<1>6. ASSUME NEW t \in Tab, DnrAdd(t) PROVE Flies(r)'
  <2> DEFINE x == NextOp(t).rule.req
  <2>1. CASE r = x /\ pc[x] = "add"
    BY <1>1, <1>6, <2>1, AddMoves, AcceptMoves DEF Flies
  <2> QED BY <1>2, <1>6, <2>1, AddMoves, AcceptMoves
<1>7. ASSUME NEW t \in Tab, DnrReject(t) PROVE Flies(r)'
  <2> DEFINE x == NextOp(t).rule.req
  <2>1. /\ \A s \in Req \ {x} : pc'[s] = pc[s] /\ (s \in inflight' <=> s \in inflight)
        /\ UNCHANGED <<wire, abort, ruleId>> /\ inflight' \subseteq inflight
        /\ pc[x] = "add" => pc'[x] = "over"
        /\ pc[x] # "add" => pc'[x] = pc[x] /\ UNCHANGED inflight
    BY <1>7, AddMoves, RejectMoves
  <2>2. CASE r = x /\ pc[x] = "add"
    BY <1>1, <2>1, <2>2 DEF Flies
  <2> QED BY <1>2, <2>1, <2>2
<1>8. ASSUME NEW t \in Tab, DnrBase(t) \/ DnrRemove(t) \/ OpenTab(t) PROVE Flies(r)'
  BY <1>2, <1>8 DEF DnrBase, DnrRemove, OpenTab, progressVars, netVars
<1>9. ASSUME NEW x \in Req, NetSend(x) PROVE Flies(r)'
  <2>1. UNCHANGED <<pc, abort, ruleId, inflight>>
    BY <1>9 DEF NetSend, progressVars
  <2>2. wire'[r] = wire[r] \/ wire'[r] = "sent"
    BY <1>9 DEF NetSend, TypeOK, BrowserTypeOK
  <2> QED BY <1>1, <2>1, <2>2 DEF Flies
<1> QED BY <1>3, <1>4, <1>5, <1>6, <1>7, <1>8, <1>9, StepIsLight DEF Heavy, BrowserTask

\* A request that is on its way and not aborted was so before, carrying the same;
\* or it has just left, while it awaited its fetch in flight.
LEMMA DepartureStep ==
  ASSUME TypeOK, TypeOK', RuleInv, StreamInv, Next, NEW r \in OnTheWire'
  PROVE  r \in Req /\ \/ r \in OnTheWire /\ carried'[r] = carried[r]
                      \/ wire[r] = "queued" /\ abort[r] = "no" /\ NetSend(r)
<1>1. r \in Req /\ wire'[r] \in {"sent", "answered"} /\ abort'[r] = "no"
  BY DEF OnTheWire
<1>2. ASSUME carried'[r] = carried[r], abort'[r] = abort[r],
             wire'[r] \in {wire[r], "queued", "settled"}
      PROVE  r \in OnTheWire /\ carried'[r] = carried[r]
  BY <1>1, <1>2 DEF OnTheWire
<1>3. CASE Light
  BY <1>1, <1>3 DEF Light, Mild, OnTheWire
<1>4. ASSUME NEW t \in Tab, NEW x \in Req, Begin(t, x)
      PROVE  r \in OnTheWire /\ carried'[r] = carried[r]
  BY <1>2, <1>4, BeginMoves
<1>5. ASSUME NEW x \in Req, BaseInstalled(x) PROVE r \in OnTheWire /\ carried'[r] = carried[r]
  BY <1>1, <1>2, <1>5, InstalledMoves
<1>6. ASSUME NEW t \in Tab, DnrAdd(t) PROVE r \in OnTheWire /\ carried'[r] = carried[r]
  BY <1>1, <1>2, <1>6, AddMoves, AcceptMoves
<1>7. ASSUME NEW t \in Tab, DnrReject(t) PROVE r \in OnTheWire /\ carried'[r] = carried[r]
  BY <1>1, <1>2, <1>7, AddMoves, RejectMoves
<1>8. ASSUME NEW t \in Tab, DnrBase(t) \/ DnrRemove(t) \/ OpenTab(t)
      PROVE  r \in OnTheWire /\ carried'[r] = carried[r]
  BY <1>2, <1>8 DEF DnrBase, DnrRemove, OpenTab, progressVars, netVars
<1>9. ASSUME NEW x \in Req, NetSend(x)
      PROVE  \/ r \in OnTheWire /\ carried'[r] = carried[r]
             \/ wire[r] = "queued" /\ abort[r] = "no" /\ x = r
  <2>1. UNCHANGED abort /\ wire[x] = "queued" /\ wire' = [wire EXCEPT ![x] = "sent"]
        /\ \E c : carried' = [carried EXCEPT ![x] = c]
    BY <1>9 DEF NetSend, progressVars
  <2>2. r # x => wire'[r] = wire[r] /\ carried'[r] = carried[r]
    BY <1>1, <2>1 DEF TypeOK, BrowserTypeOK
  <2> QED BY <1>1, <1>2, <2>1, <2>2
<1> QED BY <1>1, <1>3, <1>4, <1>5, <1>6, <1>7, <1>8, <1>9, StepIsLight DEF Heavy, BrowserTask

LEMMA OwnHeadersStep ==
  ASSUME TypeOK, TypeOK', RuleInv, StreamInv, RideInv, Next
  PROVE  OwnHeadersRide'
<1> SUFFICES ASSUME NEW r \in OnTheWire', HasHeaders[r] PROVE r \in carried'[r].rules
  BY DEF OwnHeadersRide
<1>1. CASE r \in OnTheWire /\ carried'[r] = carried[r]
  BY <1>1 DEF RideInv, OwnHeadersRide
<1>2. CASE r \in Req /\ wire[r] = "queued" /\ abort[r] = "no" /\ NetSend(r)
  <2>1. r \in inflight /\ pc[r] = "fetch" /\ ruleId[r] # 0
    BY <1>2 DEF RideInv, Flies
  <2>2. InForce(r)
    BY <2>1 DEF RideInv, KeepsRule
  <2>3. r \in {x.req : x \in Matching(r)}
    BY <2>2 DEF InForce, Matching
  <2>4. carried'[r].rules = {x.req : x \in Matching(r)}
    BY <1>2 DEF NetSend, TypeOK, BrowserTypeOK
  <2> QED BY <2>3, <2>4
<1> QED BY <1>1, <1>2, DepartureStep

LEMMA RideStep ==
  ASSUME SingleTab, TypeOK, TypeOK', RuleInv, StreamInv, RideInv, [Next]_vars
  PROVE  RideInv'
<1>1. CASE Next
  <2>1. AddsNamed'
    BY <1>1, NamedStep DEF RideInv
  <2>2. \A r \in inflight' : ruleId'[r] # 0 => KeepsRule(r)'
    BY <1>1, KeepsStep
  <2>3. \A r \in Req : Flies(r)'
    BY <1>1, FliesStep
  <2>4. OwnHeadersRide'
    BY <1>1, OwnHeadersStep
  <2> QED BY <2>1, <2>2, <2>3, <2>4 DEF RideInv
<1>2. CASE UNCHANGED vars
  <2>1. UNCHANGED <<pc, inflight, abort, ruleId, wire, carried, dnrOps, dnr>>
    BY <1>2 DEF vars, progressVars, netVars, ruleVars
  <2> QED BY <2>1 DEF RideInv, AddsNamed, KeepsRule, InForce, Guarded, Clear, Flies,
                      OwnHeadersRide, OnTheWire
<1> QED BY <1>1, <1>2

LEMMA RideStart == Init => RideInv
BY RequestsAssumption DEF Init, RulesInit, RideInv, AddsNamed, Flies, OwnHeadersRide, OnTheWire

\* A request leaves the browser with the headers the engine put on it, whatever
\* rules come and go around it: the bridge waits for its rule, and removes no
\* rule of a request in flight.  The condition is that of one tab, as another's
\* removals may take the rule away (the run two_tabs_headers).
THEOREM HeadersRide == ASSUME SingleTab PROVE Spec => []OwnHeadersRide
<1>1. TypeOK /\ RuleInv /\ StreamInv /\ TypeOK' /\ RideInv /\ [Next]_vars => RideInv'
  BY RideStep
<1>2. RideInv => OwnHeadersRide
  BY DEF RideInv
<1> QED BY <1>1, <1>2, RideStart, StreamsAreSound, PTL DEF Spec

-----------------------------------------------------------------------------
(* The User-Agent of a request.  The base rule carries the tab's first; a  *)
(* request with another has a rule of its own that sets it.                *)

\* The rules of one URL set one User-Agent, as its requests have one: a rule
\* matches by URL, whoever asked for it.
OneUAPerUrl == \A r, s \in Req : UrlOf[r] = UrlOf[s] => UAOf[r] = UAOf[s]

\* A page that does not run has no request, and its engine no message for it.
Idle(t) ==
  /\ \A r \in Req : TabOf[r] = t =>
       pc[r] \in {"new", "over"} /\ r \notin inflight /\ r \notin registered
  /\ toBridge[t] = <<>> /\ baseInstall[t] = "none"

\* No call installs the base rule; one at most does, with that UA.
BaseFree(q) == \A i \in DOMAIN q : q[i].op # "base"
OneBase(q, ua) ==
  \A i \in DOMAIN q : q[i].op = "base" =>
    q[i].ua = ua /\ \A j \in DOMAIN q : q[j].op = "base" => j = i

\* A page that starts waits for the last of the calls, Bridge.init's; those before
\* it are of the page before.
EndsWithInit(q) == q # <<>> /\ q[Len(q)] = BaseOp(Nobody)

\* The base rule installed, or being installed, is that of the tab's UA.
BaseIsOwn(t) ==
  /\ up[t] = "starting" => EndsWithInit(dnrOps[t])
  /\ up[t] = "up" => /\ baseInstall[t] \in {"none", "ok"} => BaseFree(dnrOps[t])
                     /\ baseInstall[t] = "pending" => OneBase(dnrOps[t], userAgent[t])
  /\ baseInstall[t] = "ok" => baseUA = userAgent[t]
  /\ adopted[t] <=> baseInstall[t] # "none"
  /\ adopted[t] <=> userAgent[t] # Nobody

\* A rule sets the UA of its request, or none.
RulesOwnUA ==
  /\ \A x \in dnr : x.ua \in {Nobody, UAOf[x.req]} /\ pc[x.req] # "new"
  /\ \A t \in Tab : \A i \in DOMAIN dnrOps[t] :
       LET o == dnrOps[t][i] IN o.op = "add" => o.rule.ua \in {Nobody, UAOf[o.rule.req]}

\* A request in flight with the tab's UA awaits the base rule or has it; one with
\* another has a rule that sets it.
Dressed(r) ==
  LET t == TabOf[r] IN
  /\ adopted[t]
  /\ UAOf[r] # userAgent[t] =>
       /\ ruleId[r] # 0 /\ pc[r] # "base"
       /\ \A i \in DOMAIN dnrOps[t] : AddsFor(dnrOps[t][i], r) => dnrOps[t][i].rule.ua = UAOf[r]
       /\ \A x \in dnr : x.req = r => x.ua = UAOf[r]
  /\ UAOf[r] = userAgent[t] /\ pc[r] # "base" => baseInstall[t] = "ok"

UAInv ==
  /\ \A t \in Tab : (up[t] # "up" => Idle(t)) /\ BaseIsOwn(t)
  /\ RulesOwnUA
  /\ \A r \in inflight : Dressed(r)
  /\ UserAgentAgrees

\* Requests of a page that does not run stay where they are.
LEMMA IdleStays ==
  ASSUME TypeOK, RuleInv, StreamInv, Next, NEW t \in Tab, Idle(t), NEW r \in Req, TabOf[r] = t
  PROVE  pc'[r] \in {"new", "over"} /\ r \notin inflight'
<1>1. pc[r] \in {"new", "over"} /\ r \notin inflight /\ toBridge[t] = <<>>
  BY DEF Idle
<1>2. CASE Light
  <2>1. Mild(r) /\ inflight' \subseteq inflight
    BY <1>2 DEF Light
  <2> QED BY <1>1, <2>1 DEF Mild
<1>3. ASSUME NEW s \in Tab, NEW x \in Req, Begin(s, x) PROVE pc'[r] = pc[r] /\ r \notin inflight'
  <2>1. toBridge[s] # <<>> /\ TabOf[x] = s
    <3>1. Receives(s, "begin", x)
      BY <1>3 DEF Begin
    <3> QED BY <1>3, <3>1, BeginMoves DEF Receives
  <2>2. r # x
    BY <1>1, <2>1
  <2> QED BY <1>1, <1>3, <2>2, BeginMoves
<1>4. ASSUME NEW x \in Req, BaseInstalled(x) PROVE pc'[r] = pc[r] /\ r \notin inflight'
  BY <1>1, <1>4, InstalledMoves
<1>5. ASSUME NEW s \in Tab, DnrAdd(s) PROVE pc'[r] = pc[r] /\ r \notin inflight'
  BY <1>1, <1>5, AddMoves, AcceptMoves
<1>6. ASSUME NEW s \in Tab, DnrReject(s) PROVE pc'[r] = pc[r] /\ r \notin inflight'
  BY <1>1, <1>6, AddMoves, RejectMoves
<1>7. ASSUME NEW s \in Tab, DnrBase(s) \/ DnrRemove(s) \/ OpenTab(s) PROVE UNCHANGED <<pc, inflight>>
  BY <1>7 DEF DnrBase, DnrRemove, OpenTab, progressVars
<1>8. ASSUME NEW x \in Req, NetSend(x) PROVE UNCHANGED <<pc, inflight>>
  BY <1>8 DEF NetSend, progressVars
<1> QED BY <1>1, <1>2, <1>3, <1>4, <1>5, <1>6, <1>7, <1>8, StepIsLight DEF Heavy, BrowserTask

\* Nor does its engine, which waits for nothing, ask it for anything.
LEMMA IdleEngine ==
  ASSUME TypeOK, RuleInv, StreamInv, Next, NEW t \in Tab, up[t] # "up", Idle(t)
  PROVE  toBridge'[t] = <<>> /\ \A r \in Req : TabOf[r] = t => r \notin registered'
<1> USE RequestsAssumption
<1>1. /\ toBridge[t] = <<>> /\ \A r \in Req : TabOf[r] = t => r \notin registered
      /\ toBridge \in [Tab -> Seq(EngineMsg)]
  BY DEF Idle, TypeOK, NetTypeOK
<1>2. CASE Task
  <2>1. UNCHANGED registered
    BY <1>2, TaskConcerns DEF engineVars, RuleInv
  <2>2. UNCHANGED toBridge \/ \E x \in Req : \E op : Receives(TabOf[x], op, x)
    BY <1>2, TaskConcerns DEF ConcernsNone, Concerns, RuleInv
  <2>3. ASSUME NEW x \in Req, NEW op, Receives(TabOf[x], op, x) PROVE toBridge'[t] = toBridge[t]
    BY <1>1, <2>3 DEF Receives
  <2> QED BY <1>1, <2>1, <2>2, <2>3
<1>3. ASSUME NEW x \in Req, EngineStart(x) \/ EngineCancel(x)
      PROVE  toBridge'[t] = <<>> /\ registered' \subseteq registered \cup {x} /\ TabOf[x] # t
  <2>1. TabOf[x] # t
    BY <1>1, <1>3 DEF EngineStart, EngineCancel, NetBridgeCancel
  <2> QED BY <1>1, <1>3, <2>1 DEF EngineStart, EngineCancel, NetBridgeStart, NetBridgeCancel,
                                  PostToBridge
<1>4. ASSUME NEW s \in Tab, EngineRun(s) PROVE toBridge'[t] = <<>> /\ registered' \subseteq registered
  <2> DEFINE m == Head(toEngine[s])
  <2>1. m.id \in Req /\ TabOf[m.id] = s
    BY <1>4, RunFacts
  <2>2. registered' \subseteq registered
    BY <1>4 DEF EngineRun, EngineReceive, NetResponse, NetData, NetTerminal
  <2>3. UNCHANGED toBridge \/ (m.id \in registered /\ \E z : PostToBridge(s, z))
    BY <1>4 DEF EngineRun, EngineReceive, NetResponse, NetData, NetTerminal
  <2> HIDE DEF m
  <2> QED BY <1>1, <2>1, <2>2, <2>3 DEF PostToBridge
<1>5. ASSUME NEW s \in Tab, CloseTab(s) PROVE toBridge'[t] = <<>> /\ registered' \subseteq registered
  BY <1>1, <1>5 DEF CloseTab
<1> QED BY <1>1, <1>2, <1>3, <1>4, <1>5 DEF Next, Task

\* The tabs after a step: one that opens or boots had nothing going on, one that
\* closes keeps nothing.
LEMMA IdleStep ==
  ASSUME SingleTab, TypeOK, TypeOK', RuleInv, StreamInv, UAInv, Next, NEW t \in Tab, up'[t] # "up"
  PROVE  Idle(t)'
<1> USE RequestsAssumption
<1>1. CASE up[t] # "up"
  <2>1. Idle(t)
    BY <1>1 DEF UAInv
  <2>2. \A r \in Req : TabOf[r] = t => pc'[r] \in {"new", "over"} /\ r \notin inflight'
    BY <2>1, IdleStays
  <2>3. toBridge'[t] = <<>> /\ \A r \in Req : TabOf[r] = t => r \notin registered'
    BY <1>1, <2>1, IdleEngine
  <2>4. baseInstall'[t] = "none"
    <3>1. baseInstall[t] = "none" /\ toBridge[t] = <<>>
      BY <2>1 DEF Idle
    <3>2. CASE BaseStays
      BY <3>1, <3>2 DEF BaseStays
    <3>3. ASSUME NEW s \in Tab, NEW x \in Req, Begin(s, x) PROVE FALSE
      BY <3>1, <3>3 DEF SingleTab, Begin, Receives
    <3>4. ASSUME NEW s \in Tab, CloseTab(s) \/ DnrBase(s) PROVE baseInstall'[t] = "none"
      BY <1>1, <3>1, <3>4 DEF SingleTab, CloseTab, DnrBase, TypeOK, RulesTypeOK
    <3>5. ASSUME NEW s \in Tab, DnrAdd(s) \/ DnrReject(s) \/ DnrRemove(s) \/ OpenTab(s)
          PROVE  UNCHANGED baseInstall
      BY <3>5 DEF DnrAdd, DnrReject, DnrRemove, OpenTab, tabRuleVars
    <3>6. ASSUME NEW x \in Req, BaseInstalled(x) \/ NetSend(x) PROVE UNCHANGED baseInstall
      BY <3>6 DEF BaseInstalled, NetSend, ruleVars, tabRuleVars
    <3> QED BY <3>1, <3>2, <3>3, <3>4, <3>5, <3>6, StepIsLight DEF Heavy, BrowserTask
  <2> QED BY <2>2, <2>3, <2>4 DEF Idle
<1>2. CASE up[t] = "up"
  <2>1. CloseTab(t)
    <3>1. CASE \E s \in Tab : CloseTab(s)
      BY <3>1 DEF SingleTab
    <3>2. ASSUME NEW s \in Tab, DnrBase(s) \/ OpenTab(s) PROVE FALSE
      BY <1>2, <3>2 DEF SingleTab, DnrBase, OpenTab, TypeOK, BrowserTypeOK
    <3>3. ASSUME NEW s \in Tab,
                 \/ DnrAdd(s) \/ DnrReject(s) \/ DnrRemove(s)
                 \/ \E x \in Req : Begin(s, x)
          PROVE  UNCHANGED up
      BY <3>3 DEF DnrAdd, DnrReject, DnrRemove, Begin
    <3>4. ASSUME NEW x \in Req, BaseInstalled(x) \/ NetSend(x) PROVE UNCHANGED up
      BY <3>4 DEF BaseInstalled, NetSend
    <3> QED BY <1>2, <3>1, <3>2, <3>3, <3>4, StepIsLight DEF Heavy, BrowserTask, BaseStays
  <2> DEFINE mine == {r \in Req : TabOf[r] = t /\ client[r] # "new"}
  <2>2. /\ inflight' = inflight \ mine /\ registered' = registered \ mine
        /\ \A r \in Req : pc'[r] = IF r \in mine THEN "over" ELSE pc[r]
        /\ toBridge'[t] = <<>> /\ baseInstall'[t] = "none"
    BY <2>1 DEF CloseTab, TypeOK, NetTypeOK, RulesTypeOK
  <2>3. ASSUME NEW r \in Req, TabOf[r] = t
        PROVE  pc'[r] \in {"new", "over"} /\ r \notin inflight' /\ r \notin registered'
    <3>1. CASE r \in mine
      BY <2>2, <3>1
    <3>2. CASE r \notin mine
      <4>1. client[r] = "new"
        BY <2>3, <3>2
      <4>2. pc[r] = "new" /\ r \notin inflight /\ r \notin registered
        BY <4>1 DEF RuleInv, Started, AskedFirst, InflightHasBegun, StreamInv, Known
      <4> QED BY <2>2, <3>2, <4>2
    <3> QED BY <3>1, <3>2
  <2> QED BY <2>2, <2>3 DEF Idle
<1> QED BY <1>1, <1>2

-----------------------------------------------------------------------------
(* The base rule.                                                          *)

LEMMA BaseOps ==
  ASSUME NEW S, NEW q \in Seq(S), NEW ua
  PROVE  /\ \A p \in Seq(S) : \A new : Succeeds(p, q, new) /\ (\A o \in new : o.op # "base") =>
              (BaseFree(q) => BaseFree(p)) /\ (OneBase(q, ua) => OneBase(p, ua))
         /\ \A o \in S : BaseFree(q) /\ o.ua = ua => OneBase(Append(q, o), ua)
         /\ q # <<>> /\ Head(q).op = "base" /\ OneBase(q, ua) =>
              Head(q).ua = ua /\ BaseFree(Tail(q))
<1>1. ASSUME NEW p \in Seq(S), NEW new, Succeeds(p, q, new), \A o \in new : o.op # "base"
      PROVE  (BaseFree(q) => BaseFree(p)) /\ (OneBase(q, ua) => OneBase(p, ua))
  <2>1. PICK d \in {0, 1} : \A i \in DOMAIN p :
          \/ i + d \in DOMAIN q /\ p[i] = q[i + d]
          \/ i = Len(p) /\ p[i] \in new
    BY <1>1 DEF Succeeds
  <2>2. \A i \in DOMAIN p : p[i].op = "base" => i + d \in DOMAIN q /\ p[i] = q[i + d] /\ i \in Nat
    BY <1>1, <2>1
  <2>3. ASSUME OneBase(q, ua) PROVE OneBase(p, ua)
    <3>1. ASSUME NEW i \in DOMAIN p, p[i].op = "base", NEW j \in DOMAIN p, p[j].op = "base"
          PROVE  j = i /\ p[i].ua = ua
      <4>1. i + d \in DOMAIN q /\ j + d \in DOMAIN q /\ q[i + d] = p[i] /\ q[j + d] = p[j]
            /\ i \in Nat /\ j \in Nat
        BY <2>2, <3>1
      <4>2. j + d = i + d /\ p[i].ua = ua
        BY <2>3, <3>1, <4>1 DEF OneBase
      <4> QED BY <4>1, <4>2
    <3> QED BY <3>1 DEF OneBase
  <2> QED BY <2>2, <2>3 DEF BaseFree
<1>2. ASSUME NEW o \in S, BaseFree(q), o.ua = ua PROVE OneBase(Append(q, o), ua)
  <2>1. \A i \in DOMAIN Append(q, o) :
          \/ i \in DOMAIN q /\ Append(q, o)[i] = q[i]
          \/ i = Len(q) + 1 /\ Append(q, o)[i] = o
    BY AppendIndex
  <2> QED BY <1>2, <2>1 DEF BaseFree, OneBase
<1>3. ASSUME q # <<>>, Head(q).op = "base", OneBase(q, ua)
      PROVE  Head(q).ua = ua /\ BaseFree(Tail(q))
  <2>1. 1 \in DOMAIN q /\ Head(q) = q[1]
    BY <1>3
  <2>2. \A i \in DOMAIN Tail(q) : i + 1 \in DOMAIN q /\ Tail(q)[i] = q[i + 1] /\ i \in Nat /\ i >= 1
    BY <1>3, TailIndex
  <2>3. \A i \in DOMAIN Tail(q) : i + 1 # 1
    BY <2>2
  <2> QED BY <1>3, <2>1, <2>2, <2>3 DEF OneBase, BaseFree
<1> QED BY <1>1, <1>2, <1>3

\* No other step than these installs the base rule.
LEMMA BaseOpsStay ==
  ASSUME TypeOK, TypeOK', RuleInv, StreamInv, Next, NEW t \in Tab, ~OpenTab(t),
         \A x \in Req : Begin(t, x) => ~Adopts(t, UAOf[x])
  PROVE  /\ BaseFree(dnrOps[t]) => BaseFree(dnrOps'[t])
         /\ \A ua : OneBase(dnrOps[t], ua) => OneBase(dnrOps'[t], ua)
<1>1. dnrOps[t] \in Seq(DnrOp) /\ dnrOps'[t] \in Seq(DnrOp)
  BY DEF TypeOK, RulesTypeOK
<1>2. PICK new : Succeeds(dnrOps'[t], dnrOps[t], new) /\ \A o \in new : Fresh(t, o)
  BY OpsGrow DEF Grows
<1>3. \A o \in new : o.op # "base"
  BY <1>2 DEF Fresh, RemoveOp, AddOp
<1>4. ASSUME NEW ua PROVE /\ BaseFree(dnrOps[t]) => BaseFree(dnrOps'[t])
                          /\ OneBase(dnrOps[t], ua) => OneBase(dnrOps'[t], ua)
  BY <1>1, <1>2, <1>3, BaseOps
<1> QED BY <1>4

\* Init's call stays the last, until it is the only one.
LEMMA InitStaysLast ==
  ASSUME NEW q \in Seq(DnrOp), EndsWithInit(q)
  PROVE  /\ Tail(q) # <<>> => EndsWithInit(Tail(q))
         /\ Head(q).op # "base" => Tail(q) # <<>>
<1>1. /\ q # <<>> /\ Len(q) \in Nat /\ Len(q) > 0 /\ Head(q) = q[1]
      /\ Tail(q) \in Seq(DnrOp) /\ Len(Tail(q)) = Len(q) - 1
  BY HeadTailProperties DEF EndsWithInit
<1>2. CASE Tail(q) # <<>>
  <2>1. Len(Tail(q)) \in DOMAIN Tail(q)
    BY <1>1, <1>2
  <2>2. Tail(q)[Len(Tail(q))] = q[Len(q)]
    BY <1>1, <2>1, TailIndex
  <2> QED BY <1>2, <2>2 DEF EndsWithInit
<1>3. CASE Tail(q) = <<>>
  <2>1. Head(q) = BaseOp(Nobody)
    BY <1>1, <1>3 DEF EndsWithInit
  <2> QED BY <1>3, <2>1 DEF BaseOp
<1> QED BY <1>2, <1>3

\* The steps that move neither a page nor its UA nor its base rule.
LEMMA BaseKept ==
  ASSUME TypeOK, TypeOK', RuleInv, StreamInv, Next, NEW t \in Tab, BaseIsOwn(t),
         up'[t] = up[t], userAgent'[t] = userAgent[t], adopted'[t] = adopted[t],
         baseInstall'[t] = baseInstall[t], baseUA' = baseUA,
         up[t] = "starting" => EndsWithInit(dnrOps'[t])
  PROVE  BaseIsOwn(t)'
<1>1. ~OpenTab(t)
  BY DEF OpenTab, TypeOK, BrowserTypeOK
<1>2. ASSUME NEW x \in Req, Begin(t, x) PROVE ~Adopts(t, UAOf[x])
  BY <1>2 DEF Begin, Adopts, TypeOK, RulesTypeOK
<1> QED BY <1>1, <1>2, BaseOpsStay DEF BaseIsOwn, EndsWithInit, BaseFree, OneBase, BaseOp

\* The base rule is installed, or not.
LEMMA InstallStep ==
  ASSUME TypeOK, TypeOK', NEW t \in Tab, BaseIsOwn(t), up[t] # "up" => Idle(t), DnrBase(t)
  PROVE  BaseIsOwn(t)'
<1> DEFINE q == dnrOps[t]
<1>1. /\ q # <<>> /\ NextOp(t).op = "base" /\ UNCHANGED <<userAgent, adopted>>
      /\ dnrOps' = [dnrOps EXCEPT ![t] = Tail(@)]
  BY DEF DnrBase, Executes
<1>2. /\ dnrOps'[t] = Tail(q) /\ q \in Seq(DnrOp)
      /\ 1 \in DOMAIN q /\ NextOp(t) = q[1] /\ NextOp(t) = Head(q)
  BY <1>1, OldestOp DEF TypeOK, RulesTypeOK
<1>3. ~BaseFree(q)
  BY <1>1, <1>2 DEF BaseFree
<1>4. \/ /\ baseUA' = NextOp(t).ua
         /\ baseInstall'[t] = (IF baseInstall[t] = "pending" THEN "ok" ELSE baseInstall[t])
         /\ up'[t] = IF up[t] = "starting" /\ Tail(q) = <<>> THEN "up" ELSE up[t]
      \/ /\ up[t] = "up" /\ baseInstall'[t] = "failed" /\ UNCHANGED <<baseUA, up>>
  BY DEF DnrBase, TypeOK, RulesTypeOK, BrowserTypeOK
<1>5. /\ baseInstall[t] \in {"none", "pending", "ok", "failed"}
      /\ up[t] \in {"closed", "starting", "up"}
  BY DEF TypeOK, RulesTypeOK, BrowserTypeOK
<1>6. CASE up[t] # "up"
  <2>1. baseInstall[t] = "none"
    BY <1>6 DEF Idle
  <2>2. up[t] = "starting" /\ Tail(q) # <<>> => EndsWithInit(Tail(q))
    BY <1>2, InitStaysLast DEF BaseIsOwn
  <2>3. Tail(q) = <<>> => BaseFree(Tail(q))
    BY DEF BaseFree
  <2> HIDE DEF q
  <2> QED BY <1>1, <1>2, <1>4, <1>6, <2>1, <2>2, <2>3 DEF BaseIsOwn
<1>7. CASE up[t] = "up"
  <2>1. baseInstall[t] \in {"pending", "failed"}
    BY <1>3, <1>5, <1>7 DEF BaseIsOwn
  <2>2. baseInstall[t] = "pending" => NextOp(t).ua = userAgent[t] /\ BaseFree(Tail(q))
    BY <1>1, <1>2, <1>7, BaseOps DEF BaseIsOwn
  <2> HIDE DEF q
  <2> QED BY <1>1, <1>2, <1>4, <1>7, <2>1, <2>2 DEF BaseIsOwn
<1> QED BY <1>6, <1>7

LEMMA BaseOwnStep ==
  ASSUME SingleTab, TypeOK, TypeOK', RuleInv, StreamInv, UAInv, Next, NEW t \in Tab
  PROVE  BaseIsOwn(t)'
<1> USE RequestsAssumption
<1>1. BaseIsOwn(t) /\ (up[t] # "up" => Idle(t)) /\ \A s \in Tab : s = t
  BY DEF UAInv, SingleTab
<1>2. ASSUME NEW x \in Req, Begin(t, x) PROVE BaseIsOwn(t)'
  <2> DEFINE ua == UAOf[x]
  <2>1. up[t] = "up" /\ UNCHANGED <<up, baseUA>>
    BY <1>1, <1>2, BeginMoves DEF Idle, Begin, Receives
  <2>2. /\ userAgent' = [userAgent EXCEPT ![t] = IF Adopts(t, ua) THEN ua ELSE @]
        /\ adopted' = [adopted EXCEPT ![t] = @ \/ Adopts(t, ua)]
        /\ baseInstall' = [baseInstall EXCEPT ![t] = IF Adopts(t, ua) THEN "pending" ELSE @]
        /\ \E o : dnrOps' = [dnrOps EXCEPT ![t] = IF Adopts(t, ua) THEN Append(@, BaseOp(ua)) ELSE o]
    BY <1>2 DEF Begin
  <2>3. CASE Adopts(t, ua)
    <3>1. /\ userAgent'[t] = ua /\ adopted'[t] = TRUE /\ baseInstall'[t] = "pending"
          /\ dnrOps'[t] = Append(dnrOps[t], BaseOp(ua)) /\ dnrOps[t] \in Seq(DnrOp)
      BY <2>2, <2>3 DEF TypeOK, RulesTypeOK
    <3>2. BaseFree(dnrOps[t]) /\ ua # Nobody /\ ua \in UA
      BY <1>1, <2>1, <2>3 DEF BaseIsOwn, Adopts
    <3>3. BaseOp(ua).ua = ua /\ BaseOp(ua) \in DnrOp
      BY <3>2 DEF BaseOp, DnrOp
    <3> HIDE DEF ua
    <3>4. OneBase(dnrOps'[t], ua)
      BY <3>1, <3>2, <3>3, BaseOps
    <3> QED BY <2>1, <3>1, <3>2, <3>4 DEF BaseIsOwn, OneBase
  <2>4. CASE ~Adopts(t, ua)
    <3>1. userAgent'[t] = userAgent[t] /\ baseInstall'[t] = baseInstall[t]
      BY <2>2, <2>4 DEF TypeOK, RulesTypeOK
    <3>2. adopted'[t] = adopted[t]
      BY <2>2, <2>4 DEF TypeOK, RulesTypeOK
    <3> QED BY <1>1, <2>1, <3>1, <3>2, BaseKept
  <2> QED BY <2>3, <2>4
<1>3. CASE OpenTab(t)
  <2>1. /\ up'[t] = "starting" /\ up[t] = "closed"
        /\ dnrOps'[t] = Append(dnrOps[t], BaseOp(Nobody)) /\ dnrOps[t] \in Seq(DnrOp)
        /\ UNCHANGED <<baseInstall, adopted, userAgent>>
    BY <1>3 DEF OpenTab, tabRuleVars, TypeOK, BrowserTypeOK, RulesTypeOK
  <2>2. EndsWithInit(dnrOps'[t])
    BY <2>1 DEF EndsWithInit
  <2> QED BY <1>1, <2>1, <2>2 DEF BaseIsOwn, Idle
<1>4. CASE CloseTab(t)
  <2>1. /\ up'[t] = "closed" /\ userAgent'[t] = Nobody /\ baseInstall'[t] = "none"
        /\ adopted'[t] = FALSE
    BY <1>4 DEF CloseTab, TypeOK, RulesTypeOK, BrowserTypeOK
  <2> QED BY <2>1 DEF BaseIsOwn
<1>5. CASE DnrBase(t)
  BY <1>1, <1>5, InstallStep
<1>6. ASSUME BaseStays, up[t] = "starting" => EndsWithInit(dnrOps'[t]) PROVE BaseIsOwn(t)'
  BY <1>1, <1>6, BaseKept DEF BaseStays
<1>7. CASE Light /\ BaseStays
  <2>1. ASSUME up[t] = "starting", NEW x \in Req, Drops(x) PROVE FALSE
    BY <1>1, <2>1 DEF Drops, Idle
  <2>2. up[t] = "starting" => dnrOps'[t] = dnrOps[t]
    BY <1>7, <2>1 DEF Light
  <2> QED BY <1>1, <1>6, <1>7, <2>2 DEF BaseIsOwn
<1>8. ASSUME NEW x \in Req, BaseInstalled(x) PROVE BaseIsOwn(t)'
  <2>1. BaseStays /\ (up[t] = "starting" => FALSE)
    BY <1>1, <1>8, InstalledMoves DEF BaseStays, tabRuleVars, Idle
  <2> QED BY <1>6, <2>1
<1>9. ASSUME NEW x \in Req, NetSend(x) PROVE BaseIsOwn(t)'
  BY <1>1, <1>6, <1>9 DEF NetSend, BaseStays, ruleVars, tabRuleVars, BaseIsOwn
<1>10. CASE DnrAdd(t) \/ DnrReject(t) \/ DnrRemove(t)
  <2>1. BaseStays /\ dnrOps[t] # <<>> /\ NextOp(t).op # "base"
    BY <1>10 DEF DnrAdd, DnrReject, DnrRemove, Executes, BaseStays, tabRuleVars
  <2>2. up[t] = "starting" => dnrOps' = [dnrOps EXCEPT ![t] = Tail(@)]
    <3>1. ASSUME up[t] = "starting", DnrReject(t) PROVE dnrOps' = [dnrOps EXCEPT ![t] = Tail(@)]
      <4>1. NextOp(t).rule.req \notin inflight
        BY <1>1, <3>1, AddMoves DEF Idle
      <4> QED BY <3>1, <4>1, RejectMoves
    <3> QED BY <1>10, <3>1 DEF DnrAdd, DnrRemove
  <2>3. dnrOps[t] \in Seq(DnrOp) /\ NextOp(t) = Head(dnrOps[t])
    BY DEF TypeOK, RulesTypeOK, NextOp
  <2>4. up[t] = "starting" => EndsWithInit(Tail(dnrOps[t]))
    BY <1>1, <2>1, <2>3, InitStaysLast DEF BaseIsOwn
  <2>5. up[t] = "starting" => dnrOps'[t] = Tail(dnrOps[t])
    BY <2>2 DEF TypeOK, RulesTypeOK
  <2> QED BY <1>6, <2>1, <2>4, <2>5
<1> QED BY <1>1, <1>2, <1>3, <1>4, <1>5, <1>7, <1>8, <1>9, <1>10, StepIsLight
        DEF Heavy, BrowserTask

-----------------------------------------------------------------------------
(* The rules, the requests in flight, and what leaves.                     *)

LEMMA DnrOrigin ==
  ASSUME TypeOK, RuleInv, StreamInv, Next, NEW x \in dnr'
  PROVE  \/ x \in dnr
         \/ \E t \in Tab : /\ DnrAdd(t) /\ x = NextOp(t).rule /\ x.req \in Req /\ TabOf[x.req] = t
                           /\ 1 \in DOMAIN dnrOps[t] /\ dnrOps[t][1].op = "add"
                           /\ dnrOps[t][1].rule = x
<1>1. CASE Light
  BY <1>1 DEF Light
<1>2. ASSUME NEW t \in Tab, NEW r \in Req, Begin(t, r) PROVE x \in dnr
  BY <1>2, BeginMoves
<1>3. ASSUME NEW r \in Req, BaseInstalled(r) \/ NetSend(r) PROVE x \in dnr
  BY <1>3 DEF BaseInstalled, NetSend, ruleVars
<1>4. ASSUME NEW t \in Tab, DnrBase(t) \/ DnrRemove(t) \/ DnrReject(t) \/ OpenTab(t) PROVE x \in dnr
  BY <1>4 DEF DnrBase, DnrRemove, DnrReject, OpenTab
<1>5. ASSUME NEW t \in Tab, DnrAdd(t)
      PROVE  \/ x \in dnr
             \/ /\ x = NextOp(t).rule /\ x.req \in Req /\ TabOf[x.req] = t
                /\ 1 \in DOMAIN dnrOps[t] /\ dnrOps[t][1].op = "add" /\ dnrOps[t][1].rule = x
  BY <1>5, AddMoves, AcceptMoves, OldestOp
<1> QED BY <1>1, <1>2, <1>3, <1>4, <1>5, StepIsLight DEF Heavy, BrowserTask

LEMMA OwnUAStep ==
  ASSUME TypeOK, TypeOK', RuleInv, StreamInv, AddsNamed, RulesOwnUA, Next
  PROVE  RulesOwnUA'
<1>1. ASSUME NEW x \in dnr' PROVE x.ua \in {Nobody, UAOf[x.req]} /\ pc'[x.req] # "new"
  <2>1. x.ua \in {Nobody, UAOf[x.req]} /\ pc[x.req] # "new"
    BY DnrOrigin DEF RulesOwnUA, AddsNamed
  <2>2. x.req \in Req
    BY DEF TypeOK, RulesTypeOK, Rule
  <2> QED BY <2>1, <2>2, RuleIdStays
<1>2. ASSUME NEW t \in Tab, NEW i \in DOMAIN dnrOps'[t], dnrOps'[t][i].op = "add"
      PROVE  dnrOps'[t][i].rule.ua \in {Nobody, UAOf[dnrOps'[t][i].rule.req]}
  BY <1>2, OpsOrigin, FreshAdd DEF RulesOwnUA
<1> QED BY <1>1, <1>2 DEF RulesOwnUA

\* While a request of the tab is in flight the tab keeps its UA, and its base rule
\* if that is in; a request leaves its await of the base rule when it is.
LEMMA FlightStep ==
  ASSUME SingleTab, TypeOK, TypeOK', RuleInv, StreamInv, UAInv, Next,
         NEW r \in inflight, r \in inflight'
  PROVE  LET t == TabOf[r] IN
         /\ userAgent'[t] = userAgent[t] /\ adopted'[t] = adopted[t]
         /\ baseInstall[t] = "ok" => baseInstall'[t] = "ok"
         /\ pc[r] # "base" => pc'[r] # "base"
         /\ pc[r] = "base" /\ pc'[r] # "base" => baseInstall[t] = "ok"
<1> DEFINE t == TabOf[r]
<1>1. r \in Req /\ t \in Tab /\ \A s \in Tab : s = t
  BY RequestsAssumption DEF SingleTab, TypeOK, ProgressTypeOK
<1>2. adopted[t] /\ up[t] = "up" /\ BaseIsOwn(t) /\ pc[r] # "new"
  BY <1>1 DEF UAInv, Dressed, Idle, RuleInv, Started, InflightHasBegun
<1> HIDE DEF t
<1> DEFINE Tabs == /\ userAgent'[t] = userAgent[t] /\ adopted'[t] = adopted[t]
                   /\ baseInstall[t] = "ok" => baseInstall'[t] = "ok"
<1>3. BaseStays => Tabs
  BY DEF BaseStays
<1>4. CASE Light /\ BaseStays
  BY <1>1, <1>3, <1>4 DEF Light, Mild, t
<1>5. ASSUME CloseTab(t) PROVE FALSE
  <2>1. TabOf[r] = t /\ client[r] # "new"
    BY <1>1, <1>2 DEF t, RuleInv, Started, AskedFirst
  <2> QED BY <1>1, <1>5, <2>1 DEF CloseTab
<1>6. ASSUME NEW x \in Req, Begin(t, x) PROVE Tabs /\ pc'[r] = pc[r]
  <2>1. ~Adopts(t, UAOf[x]) /\ r # x
    BY <1>1, <1>2, <1>6, BeginMoves DEF Adopts
  <2>2. Tabs
    BY <1>1, <1>6, <2>1 DEF Begin, TypeOK, RulesTypeOK
  <2> QED BY <1>1, <1>6, <2>1, <2>2, BeginMoves
<1>7. ASSUME NEW x \in Req, BaseInstalled(x)
      PROVE  Tabs /\ (pc'[r] = pc[r] \/ (pc[r] = "base" /\ baseInstall[t] = "ok"))
  BY <1>1, <1>3, <1>7, InstalledMoves DEF BaseStays, tabRuleVars, t
<1>8. CASE DnrBase(t)
  <2>1. ~BaseFree(dnrOps[t])
    BY <1>1, <1>8, OldestOp DEF DnrBase, Executes, BaseFree
  <2>2. baseInstall[t] # "ok" /\ UNCHANGED <<pc, userAgent, adopted>>
    BY <1>2, <1>8, <2>1 DEF BaseIsOwn, DnrBase, progressVars
  <2> QED BY <2>2 DEF t
<1>9. CASE DnrAdd(t) \/ DnrReject(t)
  <2>1. BaseStays
    BY <1>1, <1>9, AddMoves DEF BaseStays
  <2>2. pc'[r] = pc[r] \/ (pc[r] = "add" /\ pc'[r] \in {"fetch", "over"})
    BY <1>1, <1>9, AddMoves, AcceptMoves, RejectMoves
  <2>3. pc[r] = "add" /\ pc'[r] \in {"fetch", "over"} => pc[r] # "base" /\ pc'[r] # "base"
    OBVIOUS
  <2> QED BY <1>3, <2>1, <2>2, <2>3 DEF t
<1>10. CASE DnrRemove(t)
  BY <1>3, <1>10 DEF DnrRemove, progressVars, tabRuleVars, BaseStays, t
<1>11. ASSUME OpenTab(t) PROVE FALSE
  BY <1>2, <1>11 DEF OpenTab
<1>12. ASSUME NEW x \in Req, NetSend(x) PROVE Tabs /\ pc' = pc
  BY <1>3, <1>12 DEF NetSend, progressVars, ruleVars, tabRuleVars, BaseStays
<1> QED BY <1>1, <1>4, <1>5, <1>6, <1>7, <1>8, <1>9, <1>10, <1>11, <1>12, StepIsLight
        DEF Heavy, BrowserTask, t

LEMMA DressedOnward ==
  ASSUME SingleTab, TypeOK, TypeOK', RuleInv, StreamInv, UAInv, Next,
         NEW r \in inflight, r \in inflight'
  PROVE  Dressed(r)'
<1> DEFINE t == TabOf[r]
<1>1. r \in Req /\ t \in Tab /\ Dressed(r) /\ pc[r] # "new" /\ ruleId'[r] = ruleId[r]
  <2>1. r \in Req /\ t \in Tab /\ Dressed(r) /\ pc[r] # "new"
    BY RequestsAssumption
       DEF UAInv, TypeOK, ProgressTypeOK, RuleInv, Started, InflightHasBegun
  <2> QED BY <2>1, RuleIdStays
<1>2. /\ userAgent'[t] = userAgent[t] /\ adopted'[t] = adopted[t]
      /\ baseInstall[t] = "ok" => baseInstall'[t] = "ok"
      /\ pc[r] # "base" => pc'[r] # "base"
      /\ pc[r] = "base" /\ pc'[r] # "base" => baseInstall[t] = "ok"
  BY FlightStep
<1>3. ASSUME UAOf[r] # userAgent[t], NEW i \in DOMAIN dnrOps'[t], AddsFor(dnrOps'[t][i], r)
      PROVE  dnrOps'[t][i].rule.ua = UAOf[r]
  <2>1. pc[r] # "base"
    BY <1>1, <1>3 DEF Dressed
  <2>2. ~Begin(t, r) /\ ~BaseInstalled(r)
    BY <1>1, <2>1, BeginMoves, InstalledMoves
  <2>3. \E j \in DOMAIN dnrOps[t] : dnrOps'[t][i] = dnrOps[t][j]
    BY <1>1, <1>3, <2>2, OpsOrigin, FreshAdd DEF AddsFor
  <2> QED BY <1>1, <1>3, <2>3 DEF Dressed
<1>4. ASSUME UAOf[r] # userAgent[t], NEW x \in dnr', x.req = r PROVE x.ua = UAOf[r]
  <2>1. CASE x \in dnr
    BY <1>1, <1>4, <2>1 DEF Dressed
  <2>2. CASE 1 \in DOMAIN dnrOps[t] /\ dnrOps[t][1].op = "add" /\ dnrOps[t][1].rule = x
    BY <1>1, <1>4, <2>2 DEF Dressed, AddsFor
  <2> QED BY <1>4, <2>1, <2>2, DnrOrigin
<1> QED BY <1>1, <1>2, <1>3, <1>4 DEF Dressed, AddsFor

LEMMA DressedAtFirst ==
  ASSUME SingleTab, TypeOK, TypeOK', RuleInv, StreamInv, AddsNamed, UAInv, Next,
         NEW t \in Tab, NEW r \in Req, Begin(t, r)
  PROVE  Dressed(r)'
<1>1. TabOf[r] = t /\ pc[r] = "new" /\ dnr' = dnr /\ BaseIsOwn(t)
  BY BeginMoves DEF UAInv
<1>2. /\ userAgent'[t] = (IF Adopts(t, UAOf[r]) THEN UAOf[r] ELSE userAgent[t])
      /\ adopted'[t] = (adopted[t] \/ Adopts(t, UAOf[r]))
  BY DEF Begin, TypeOK, RulesTypeOK
<1>3. adopted'[t] /\ (UAOf[r] = userAgent'[t] => RidesBase(t, UAOf[r]))
  <2>1. UAOf[r] # Nobody
    BY RequestsAssumption
  <2>2. adopted[t] \/ Adopts(t, UAOf[r])
    BY <1>1, <2>1 DEF BaseIsOwn, Adopts
  <2>3. UAOf[r] = userAgent'[t] => UAOf[r] = userAgent[t] \/ ~adopted[t]
    BY <1>2 DEF Adopts
  <2> QED BY <1>2, <2>2, <2>3 DEF RidesBase
<1>4. ASSUME UAOf[r] = userAgent'[t] PROVE pc'[r] = "base"
  BY <1>3, <1>4, BeginMoves
<1>5. ASSUME UAOf[r] # userAgent'[t]
      PROVE  ~RidesBase(t, UAOf[r]) /\ ruleId'[r] # 0 /\ pc'[r] = "add"
  <2>1. ~RidesBase(t, UAOf[r])
    BY <1>2, <1>5 DEF Adopts, RidesBase
  <2> QED BY <2>1, BeginMoves
<1>6. ASSUME NEW i \in DOMAIN dnrOps'[t], AddsFor(dnrOps'[t][i], r)
      PROVE  dnrOps'[t][i].rule.ua = UAOf[r]
  <2>1. \A j \in DOMAIN dnrOps[t] : ~AddsFor(dnrOps[t][j], r)
    BY <1>1 DEF AddsNamed, AddsFor
  <2>2. Fresh(t, dnrOps'[t][i])
    BY <1>6, <2>1, OpsOrigin
  <2>3. ~BaseInstalled(r)
    BY <1>1, InstalledMoves
  <2> QED BY <1>6, <2>2, <2>3, FreshAdd DEF AddsFor
<1>7. \A x \in dnr' : x.req # r
  BY <1>1 DEF UAInv, RulesOwnUA
<1> QED BY <1>1, <1>3, <1>4, <1>5, <1>6, <1>7 DEF Dressed, AddsFor

LEMMA DressedStep ==
  ASSUME SingleTab, TypeOK, TypeOK', RuleInv, StreamInv, AddsNamed, UAInv, Next, NEW r \in inflight'
  PROVE  Dressed(r)'
<1>1. CASE r \in inflight
  BY <1>1, DressedOnward
<1>2. CASE r \notin inflight
  <2>1. PICK t \in Tab, x \in Req : Begin(t, x)
    BY <1>2, InflightShrinks
  <2>2. r = x
    BY <1>2, <2>1, BeginMoves
  <2> QED BY <2>1, <2>2, DressedAtFirst
<1> QED BY <1>1, <1>2

LEMMA UserAgentStep ==
  ASSUME SingleTab, OneUAPerUrl, TypeOK, TypeOK', RuleInv, StreamInv, RideInv, UAInv, Next
  PROVE  UserAgentAgrees'
<1> SUFFICES ASSUME NEW r \in OnTheWire' PROVE carried'[r].ua = UAOf[r]
  BY DEF UserAgentAgrees
<1>1. CASE r \in OnTheWire /\ carried'[r] = carried[r]
  BY <1>1 DEF UAInv, UserAgentAgrees
<1>2. CASE r \in Req /\ wire[r] = "queued" /\ abort[r] = "no" /\ NetSend(r)
  <2> DEFINE t == TabOf[r]
  <2>1. r \in inflight /\ pc[r] = "fetch" /\ t \in Tab /\ UAOf[r] \in UA
    BY <1>2, RequestsAssumption DEF RideInv, Flies
  <2>2. Dressed(r) /\ BaseIsOwn(t)
    BY <2>1 DEF UAInv
  <2>3. PICK ua : MayCarryUA(r, ua) /\ carried'[r].ua = ua
    BY <1>2 DEF NetSend, TypeOK, BrowserTypeOK
  <2>4. \A x \in Matching(r) : x.ua \in {Nobody, UAOf[r]}
    <3>1. ASSUME NEW x \in Matching(r) PROVE x.ua \in {Nobody, UAOf[r]}
      <4>1. x \in dnr /\ UrlOf[x.req] = UrlOf[r] /\ x.req \in Req
        BY DEF Matching, TypeOK, RulesTypeOK, Rule
      <4> QED BY <1>2, <4>1 DEF UAInv, RulesOwnUA, OneUAPerUrl
    <3> QED BY <3>1
  <2>5. CASE UAOf[r] = userAgent[t]
    <3>1. baseUA = UAOf[r]
      BY <2>1, <2>2, <2>5 DEF Dressed, BaseIsOwn
    <3> QED BY <2>3, <2>4, <3>1 DEF MayCarryUA
  <2>6. CASE UAOf[r] # userAgent[t]
    <3>1. PICK x \in dnr : x.req = r /\ x.ua = UAOf[r]
      BY <2>1, <2>2, <2>6 DEF Dressed, RideInv, KeepsRule, InForce
    <3>2. x \in Matching(r) /\ x.ua # Nobody
      BY <2>1, <3>1, RequestsAssumption DEF Matching
    <3> QED BY <2>3, <2>4, <3>2 DEF MayCarryUA
  <2> QED BY <2>5, <2>6
<1> QED BY <1>1, <1>2, DepartureStep

LEMMA UAStep ==
  ASSUME SingleTab, OneUAPerUrl, TypeOK, TypeOK', RuleInv, StreamInv, RideInv, UAInv, [Next]_vars
  PROVE  UAInv'
<1>1. CASE Next
  <2>1. \A t \in Tab : (up'[t] # "up" => Idle(t)') /\ BaseIsOwn(t)'
    BY <1>1, IdleStep, BaseOwnStep
  <2>2. RulesOwnUA'
    BY <1>1, OwnUAStep DEF RideInv, UAInv
  <2>3. \A r \in inflight' : Dressed(r)'
    BY <1>1, DressedStep DEF RideInv
  <2>4. UserAgentAgrees'
    BY <1>1, UserAgentStep
  <2> QED BY <2>1, <2>2, <2>3, <2>4 DEF UAInv
<1>2. CASE UNCHANGED vars
  <2>1. /\ UNCHANGED <<up, pc, inflight, abort, ruleId, wire, carried, registered, toBridge>>
        /\ UNCHANGED <<userAgent, adopted, baseInstall, dnrOps, dnr, baseUA>>
    BY <1>2 DEF vars, progressVars, netVars, ruleVars, tabRuleVars, engineVars, channelVars
  <2> QED BY <2>1 DEF UAInv, Idle, BaseIsOwn, BaseFree, OneBase, RulesOwnUA, Dressed, AddsFor,
                      UserAgentAgrees, OnTheWire
<1> QED BY <1>1, <1>2

LEMMA UAStart == Init => UAInv
<1> SUFFICES ASSUME Init PROVE UAInv
  OBVIOUS
<1>1. \A t \in Tab : Idle(t) /\ BaseIsOwn(t)
  BY DEF Init, RulesInit, NetInit, Idle, BaseIsOwn
<1>2. RulesOwnUA /\ inflight = {}
  BY DEF Init, RulesInit, RulesOwnUA
<1>3. UserAgentAgrees
  BY DEF Init, UserAgentAgrees, OnTheWire
<1> QED BY <1>1, <1>2, <1>3 DEF UAInv

\* A request leaves the browser with the User-Agent its engine sent, through a
\* base rule that is still being installed, one that could not be, and a page that
\* closes and opens again.  The conditions are that of one tab, as the base rule is
\* the browser's and another tab's engine may set it (the run
\* two_tabs_user_agent), and that of one User-Agent for each URL, as a rule
\* matches a request by its URL alone.
THEOREM UserAgentsAgree == ASSUME SingleTab, OneUAPerUrl PROVE Spec => []UserAgentAgrees
<1>1. TypeOK /\ RuleInv /\ StreamInv /\ TypeOK' /\ RideInv /\ [Next]_vars => RideInv'
  BY RideStep
<1>2. TypeOK /\ RuleInv /\ StreamInv /\ TypeOK' /\ RideInv /\ UAInv /\ [Next]_vars => UAInv'
  BY UAStep
<1>3. UAInv => UserAgentAgrees
  BY DEF UAInv
<1> QED BY <1>1, <1>2, <1>3, RideStart, UAStart, StreamsAreSound, PTL DEF Spec

-----------------------------------------------------------------------------
(* Counting: of two sets that differ in one element.                       *)

LEMMA CountAtMost ==
  ASSUME NEW S, IsFiniteSet(S), NEW x, NEW T, T \subseteq S \cup {x}
  PROVE  /\ IsFiniteSet(T) /\ Cardinality(T) \in Nat /\ Cardinality(S) \in Nat
         /\ Cardinality(T) <= Cardinality(S) + 1
         /\ x \notin T \/ x \in S => Cardinality(T) <= Cardinality(S)
         /\ x \in S \ T => Cardinality(T) + 1 <= Cardinality(S)
<1>1. /\ IsFiniteSet(S \cup {x}) /\ Cardinality(S) \in Nat
      /\ Cardinality(S \cup {x}) <= Cardinality(S) + 1
  <2>1. /\ IsFiniteSet(S \cup {x}) /\ Cardinality(S) \in Nat
        /\ Cardinality(S \cup {x}) = IF x \in S THEN Cardinality(S) ELSE Cardinality(S) + 1
    BY FS_AddElement, FS_CardinalityType
  <2> QED BY <2>1
<1>2. /\ IsFiniteSet(T) /\ Cardinality(T) \in Nat
      /\ Cardinality(T) <= Cardinality(S \cup {x}) /\ Cardinality(S \cup {x}) \in Nat
  BY <1>1, FS_Subset, FS_CardinalityType
<1>3. ASSUME x \notin T \/ x \in S PROVE Cardinality(T) <= Cardinality(S)
  <2>1. T \in SUBSET S
    BY <1>3
  <2> QED BY <2>1, FS_Subset
<1>4. ASSUME x \in S \ T PROVE Cardinality(T) + 1 <= Cardinality(S)
  <2>1. /\ IsFiniteSet(S \ {x}) /\ Cardinality(S \ {x}) = Cardinality(S) - 1
        /\ T \in SUBSET (S \ {x})
    BY <1>4, FS_RemoveElement
  <2>2. Cardinality(T) <= Cardinality(S \ {x})
    BY <2>1, FS_Subset
  <2> QED BY <1>1, <1>2, <2>1, <2>2
<1> QED BY <1>1, <1>2, <1>3, <1>4

-----------------------------------------------------------------------------
(* The claims.                                                             *)

\* The browser has the fetch; it has answered it.
Open == {"queued", "sent"}
Seen == {"answered", "settled"}

\* Where a fetch stands agrees with where its request does.
Fetching(r) ==
  /\ wire[r] \in Open \cup {"answered"} /\ abort[r] = "no" => pc[r] = "fetch"
  /\ pc[r] \in {"new", "base", "add", "fetch"} => ~idle[r] /\ ~took[r]
  /\ pc[r] = "fetch" => fetched[r]
  /\ pc[r] \in {"new", "base", "add"} => wire[r] = "unsent"

\* An entry of r is on its way, or may be: an aborted fetch may yet be answered.
Expected(r) ==
  \/ \E i \in DOMAIN events[TabOf[r]] : events[TabOf[r]][i].req = r
  \/ abort[r] # "no" /\ wire[r] \in Open

\* r was answered, and will take an entry.
Entitled(r) == pc[r] = "fetch" /\ abort[r] = "no" /\ wire[r] = "answered" /\ answer[r] # "error"

Of(t, u) == {r \in Req : TabOf[r] = t /\ UrlOf[r] = u}
Coming(t, u) == {r \in Of(t, u) : Expected(r)}
Claiming(t, u) == {r \in Of(t, u) : Entitled(r)}

\* There is a claim, of a take() that waits or of a request that will take, for
\* every entry that is queued or may come.
Claimed(t, u) ==
  Len(queues[t][u]) + Cardinality(Coming(t, u)) <= Len(waiters[t][u]) + Cardinality(Claiming(t, u))

\* A request has one event in a tab, after its answer.
EventsOnce ==
  \A t \in Tab : \A i \in DOMAIN events[t] :
    /\ wire[events[t][i].req] \in Seen
    /\ \A j \in DOMAIN events[t] : events[t][j].req = events[t][i].req => j = i

AskedFor == {r \in Req : client[r] # "new"}

ClaimInv ==
  /\ \A r \in Req : Fetching(r)
  /\ EventsOnce /\ IsFiniteSet(AskedFor)
  /\ \A t \in Tab, u \in Url : Claimed(t, u)

\* Of the requests asked for so far there are finitely many.
LEMMA ClaimsAreFinite ==
  ASSUME TypeOK, RuleInv, ClaimInv, NEW t \in Tab, NEW u \in Url
  PROVE  /\ IsFiniteSet(Coming(t, u)) /\ IsFiniteSet(Claiming(t, u))
         /\ IsFiniteSet({r \in Of(t, u) : pc[r] = "fetch" /\ abort[r] = "no"})
<1>1. ASSUME NEW r \in Req, pc[r] # "new" PROVE r \in AskedFor
  BY <1>1 DEF AskedFor, RuleInv, Started, AskedFirst
<1>2. ASSUME NEW r \in Coming(t, u) PROVE r \in AskedFor
  <2>1. r \in Req /\ Expected(r) /\ TabOf[r] \in Tab
    BY RequestsAssumption DEF Coming, Of
  <2>2. wire[r] # "unsent"
    BY <2>1 DEF Expected, Open, Seen, ClaimInv, EventsOnce
  <2> QED BY <1>1, <2>1, <2>2 DEF ClaimInv, Fetching
<1>3. ASSUME NEW r \in Of(t, u), pc[r] = "fetch" PROVE r \in AskedFor
  BY <1>1, <1>3 DEF Of
<1>4. /\ Coming(t, u) \in SUBSET AskedFor
      /\ Claiming(t, u) \in SUBSET AskedFor
      /\ {r \in Of(t, u) : pc[r] = "fetch" /\ abort[r] = "no"} \in SUBSET AskedFor
  BY <1>2, <1>3 DEF Claiming, Entitled
<1> QED BY <1>4, FS_Subset DEF ClaimInv

\* The claims are what the bridge rests on: without a waiter, as a queue that is
\* not empty has none, they are those of requests that will go and take.
LEMMA ClaimsSuffice ==
  ASSUME TypeOK, RuleInv, QueueOrWaiters, ClaimInv
  PROVE  NoOrphans
<1> SUFFICES ASSUME NEW t \in Tab, NEW u \in Url
             PROVE  Len(queues[t][u])
                      <= Cardinality({r \in Req : TabOf[r] = t /\ UrlOf[r] = u
                                                /\ pc[r] = "fetch" /\ abort[r] = "no"})
  BY DEF NoOrphans
<1> DEFINE goers == {r \in Req : TabOf[r] = t /\ UrlOf[r] = u
                              /\ pc[r] = "fetch" /\ abort[r] = "no"}
<1>0. goers = {r \in Of(t, u) : pc[r] = "fetch" /\ abort[r] = "no"}
  BY DEF Of
<1>1. IsFiniteSet(Coming(t, u)) /\ IsFiniteSet(Claiming(t, u)) /\ IsFiniteSet(goers)
  BY <1>0, ClaimsAreFinite
<1>2. Claiming(t, u) \in SUBSET goers
  BY DEF Claiming, Entitled, Of
<1> HIDE DEF goers
<1>3. /\ Cardinality(Coming(t, u)) \in Nat /\ Cardinality(goers) \in Nat
      /\ Cardinality(Claiming(t, u)) \in Nat
      /\ Cardinality(Claiming(t, u)) <= Cardinality(goers)
  BY <1>1, <1>2, FS_Subset, FS_CardinalityType
<1>4. Len(queues[t][u]) \in Nat
  BY DEF TypeOK, CaptureTypeOK
<1>5. Len(queues[t][u]) <= Cardinality(goers)
  <2>1. CASE queues[t][u] = <<>>
    <3>1. Len(queues[t][u]) = 0
      BY <2>1
    <3> QED BY <1>3, <3>1
  <2>2. CASE queues[t][u] # <<>>
    <3>1. waiters[t][u] = <<>>
      BY <2>2 DEF QueueOrWaiters
    <3>2. Claimed(t, u) /\ Len(waiters[t][u]) = 0
      BY <3>1 DEF ClaimInv
    <3> QED BY <1>3, <1>4, <3>2 DEF Claimed
  <2> QED BY <2>1, <2>2
<1> QED BY <1>5 DEF goers

-----------------------------------------------------------------------------
(* The steps, by what they do to the claims.                               *)

\* A step does nothing to r that counts; it is about x.
Stands(r) ==
  /\ pc'[r] = pc[r] /\ abort'[r] = abort[r] /\ wire'[r] = wire[r] /\ idle'[r] = idle[r]
  /\ took'[r] = took[r] /\ fetched'[r] = fetched[r] /\ answer'[r] = answer[r]
About(x) == \A r \in Req \ {x} : Stands(r)

\* Of the other requests it expects no entry it did not, and entitles the same.
Around(x) ==
  \A r \in Req \ {x} : (Expected(r)' => Expected(r)) /\ (Entitled(r)' <=> Entitled(r))

\* At a URL the queue grows at most k more than the waiters do.
Shifts(t, u, k) ==
  Len(queues'[t][u]) + Len(waiters[t][u]) <= Len(queues[t][u]) + Len(waiters'[t][u]) + k

LEMMA OneBalance ==
  ASSUME TypeOK, TypeOK', RuleInv, ClaimInv, NEW x, Around(x), NEW t \in Tab, NEW u \in Url,
         \/ /\ Shifts(t, u, 0)
            /\ x \in Of(t, u) => /\ Expected(x)' /\ ~Expected(x) => Entitled(x)' /\ ~Entitled(x)
                                 /\ Entitled(x) => Entitled(x)'
         \/ /\ Shifts(t, u, -1)
            /\ ~(Expected(x)' /\ ~Expected(x) /\ Entitled(x) /\ ~Entitled(x)')
         \/ /\ Shifts(t, u, 1) /\ x \in Of(t, u)
            /\ Expected(x) /\ ~Expected(x)' /\ (Entitled(x) => Entitled(x)')
  PROVE  Claimed(t, u)'
<1> DEFINE M == Coming(t, u)
           A == Claiming(t, u)
           M2 == Coming(t, u)'
           A2 == Claiming(t, u)'
           q == Len(queues[t][u])
           w == Len(waiters[t][u])
           q2 == Len(queues'[t][u])
           w2 == Len(waiters'[t][u])
<1>1. IsFiniteSet(M) /\ IsFiniteSet(A)
  BY ClaimsAreFinite
<1>2. q \in Nat /\ w \in Nat /\ q2 \in Nat /\ w2 \in Nat
  BY DEF TypeOK, CaptureTypeOK
<1>3. q + Cardinality(M) <= w + Cardinality(A)
  BY DEF ClaimInv, Claimed
<1>4. M2 \subseteq M \cup {x} /\ A2 \subseteq A \cup {x} /\ A \ {x} \subseteq A2
  BY DEF Around, Coming, Claiming, Of
<1>5. /\ x \in M <=> x \in Of(t, u) /\ Expected(x)
      /\ x \in M2 <=> x \in Of(t, u) /\ Expected(x)'
      /\ x \in A <=> x \in Of(t, u) /\ Entitled(x)
      /\ x \in A2 <=> x \in Of(t, u) /\ Entitled(x)'
  BY DEF Coming, Claiming, Of
<1>6. \/ /\ Shifts(t, u, 0)
         /\ x \in M2 \ M => x \in A2 \ A
         /\ x \in A => x \in A2
      \/ /\ Shifts(t, u, -1)
         /\ ~(x \in M2 \ M /\ x \in A \ A2)
      \/ /\ Shifts(t, u, 1)
         /\ x \in M \ M2 /\ (x \in A => x \in A2)
  <2>1. x \in M2 \ M <=> x \in Of(t, u) /\ Expected(x)' /\ ~Expected(x)
    BY <1>5
  <2>2. x \in M \ M2 <=> x \in Of(t, u) /\ Expected(x) /\ ~Expected(x)'
    BY <1>5
  <2>3. /\ x \in A \ A2 <=> x \in Of(t, u) /\ Entitled(x) /\ ~Entitled(x)'
        /\ x \in A2 \ A <=> x \in Of(t, u) /\ ~Entitled(x) /\ Entitled(x)'
    BY <1>5
  <2> HIDE DEF M, A, M2, A2
  <2> QED BY <1>5, <2>1, <2>2, <2>3
<1>7. /\ Cardinality(M) \in Nat /\ Cardinality(M2) \in Nat
      /\ Cardinality(M2) <= Cardinality(M) + 1
      /\ ~(x \in M2 \ M) => Cardinality(M2) <= Cardinality(M)
      /\ x \in M \ M2 => Cardinality(M2) + 1 <= Cardinality(M)
  <2> HIDE DEF M, M2
  <2> QED BY <1>1, <1>4, CountAtMost
<1>8. IsFiniteSet(A2) /\ A \subseteq A2 \cup {x}
  <2> HIDE DEF A, A2
  <2> QED BY <1>1, <1>4, CountAtMost
<1>9. /\ Cardinality(A) \in Nat /\ Cardinality(A2) \in Nat
      /\ Cardinality(A) <= Cardinality(A2) + 1
      /\ ~(x \in A \ A2) => Cardinality(A) <= Cardinality(A2)
      /\ x \in A2 \ A => Cardinality(A) + 1 <= Cardinality(A2)
  <2> HIDE DEF A, A2
  <2> QED BY <1>8, CountAtMost
<1> DEFINE m == Cardinality(M)
           a == Cardinality(A)
           m2 == Cardinality(M2)
           a2 == Cardinality(A2)
<1>10. /\ m \in Nat /\ m2 \in Nat /\ a \in Nat /\ a2 \in Nat
       /\ m2 <= m + 1 /\ a <= a2 + 1
       /\ x \in M \ M2 => m2 + 1 <= m
       /\ x \in A2 \ A => a + 1 <= a2
       /\ ~(x \in M2 \ M) => m2 <= m
       /\ ~(x \in A \ A2) => a <= a2
  BY <1>7, <1>9
<1>11. q + m <= w + a
  BY <1>3
<1>12. \A k : Shifts(t, u, k) => q2 + w <= q + w2 + k
  BY DEF Shifts
<1>13. q2 + m2 <= w2 + a2
  <2> HIDE DEF M, A, M2, A2, m, a, m2, a2, q, w, q2, w2
  <2>1. CASE Shifts(t, u, 0) /\ x \in A2 \ A
    BY <1>2, <1>10, <1>11, <1>12, <2>1
  <2>2. CASE Shifts(t, u, 0) /\ ~(x \in M2 \ M) /\ ~(x \in A \ A2)
    BY <1>2, <1>10, <1>11, <1>12, <2>2
  <2>3. CASE Shifts(t, u, -1) /\ ~(x \in M2 \ M /\ x \in A \ A2)
    BY <1>2, <1>10, <1>11, <1>12, <2>3
  <2>4. CASE Shifts(t, u, 1) /\ x \in M \ M2 /\ ~(x \in A \ A2)
    BY <1>2, <1>10, <1>11, <1>12, <2>4
  <2> QED BY <1>6, <2>1, <2>2, <2>3, <2>4
<1> QED BY <1>13 DEF Claimed

\* A step about x alone keeps the rest as it was.
LEMMA AboutAround ==
  ASSUME TypeOK, ClaimInv, NEW x, About(x), UNCHANGED events
  PROVE  Around(x) /\ \A r \in Req \ {x} : Fetching(r)'
<1>1. ASSUME NEW r \in Req \ {x} PROVE /\ Fetching(r)'
                                       /\ Expected(r)' => Expected(r)
                                       /\ Entitled(r)' <=> Entitled(r)
  BY DEF About, Stands, ClaimInv, Fetching, Expected, Entitled
<1> QED BY <1>1 DEF Around

LEMMA EventsStay ==
  ASSUME TypeOK, ClaimInv, NEW x, About(x), UNCHANGED events,
         x \in Req => (wire[x] \in Seen => wire'[x] \in Seen)
  PROVE  EventsOnce'
<1>1. \A r \in Req : wire[r] \in Seen => wire'[r] \in Seen
  BY DEF About, Stands
<1>2. ASSUME NEW t \in Tab, NEW i \in DOMAIN events[t] PROVE events[t][i].req \in Req
  <2>1. events[t] \in Seq(Entry)
    BY DEF TypeOK, BrowserTypeOK
  <2>2. events[t][i] \in Entry
    BY <2>1
  <2> QED BY <2>2 DEF Entry
<1>3. ASSUME NEW t \in Tab, NEW i \in DOMAIN events[t]
      PROVE  /\ wire'[events[t][i].req] \in Seen
             /\ \A j \in DOMAIN events[t] : events[t][j].req = events[t][i].req => j = i
  BY <1>1, <1>2 DEF ClaimInv, EventsOnce
<1> QED BY <1>3 DEF EventsOnce

\* The capture keeps what it has: x expects no more and loses no entitlement.
LEMMA CalmStep ==
  ASSUME TypeOK, TypeOK', RuleInv, ClaimInv, NEW x, About(x), UNCHANGED <<events, captureVars>>,
         IsFiniteSet(AskedFor'),
         x \in Req => /\ Fetching(x)'
                      /\ wire[x] \in Seen => wire'[x] \in Seen
                      /\ abort'[x] # "no" /\ wire'[x] \in Open => abort[x] # "no" /\ wire[x] \in Open
                      /\ Entitled(x) => Entitled(x)'
  PROVE  ClaimInv'
<1>1. Around(x) /\ (\A r \in Req : Fetching(r)') /\ EventsOnce'
  BY AboutAround, EventsStay
<1>2. x \in Req /\ Expected(x)' => Expected(x)
  BY DEF Expected
<1>3. ASSUME NEW t \in Tab, NEW u \in Url PROVE Claimed(t, u)'
  <2>1. /\ Len(queues'[t][u]) = Len(queues[t][u]) /\ Len(waiters'[t][u]) = Len(waiters[t][u])
        /\ Len(queues[t][u]) \in Nat /\ Len(waiters[t][u]) \in Nat
    BY DEF captureVars, TypeOK, CaptureTypeOK
  <2>2. Shifts(t, u, 0)
    BY <2>1 DEF Shifts
  <2> QED BY <1>1, <1>2, <2>2, OneBalance DEF Of
<1> QED BY <1>1, <1>3 DEF ClaimInv

\* x claims an entry, or what it was to claim is dropped: one leaves the queue of
\* its URL, or one waiter joins.
LEMMA ClaimStep ==
  ASSUME TypeOK, TypeOK', RuleInv, ClaimInv, NEW x \in Req, About(x), UNCHANGED events,
         IsFiniteSet(AskedFor'), Fetching(x)', wire[x] \in Seen => wire'[x] \in Seen,
         NEW s \in Tab, NEW v \in Url, x \in Of(s, v), NEW y \in Req \cup {Nobody},
         (Captured(s, v) /\ TakeCaptured(s, v)) \/ Wait(s, v, y),
         ~(Expected(x)' /\ ~Expected(x) /\ Entitled(x) /\ ~Entitled(x)')
  PROVE  ClaimInv'
<1>1. Around(x) /\ (\A r \in Req : Fetching(r)') /\ EventsOnce'
  BY AboutAround, EventsStay
<1>2. ASSUME NEW t \in Tab, NEW u \in Url PROVE Claimed(t, u)'
  <2> DEFINE q == Len(queues[t][u])
             w == Len(waiters[t][u])
             q2 == Len(queues'[t][u])
             w2 == Len(waiters'[t][u])
  <2>1. /\ q \in Nat /\ w \in Nat /\ q2 \in Nat /\ w2 \in Nat
        /\ queues[t][u] \in Seq(Entry) /\ waiters[t][u] \in Seq(Req \cup {Nobody})
    BY DEF TypeOK, CaptureTypeOK
  <2>2. CASE t = s /\ u = v
    <3>1. (q2 = q - 1 /\ w2 = w) \/ (q2 = q /\ w2 = w + 1)
      <4>1. CASE Captured(s, v) /\ TakeCaptured(s, v)
        <5>1. /\ queues[t][u] # <<>> /\ queues'[t][u] = Tail(queues[t][u])
              /\ waiters'[t][u] = waiters[t][u]
          BY <2>2, <4>1 DEF Captured, TakeCaptured, TypeOK, CaptureTypeOK
        <5> QED BY <2>1, <5>1
      <4>2. CASE Wait(s, v, y)
        <5>1. waiters'[t][u] = Append(waiters[t][u], y) /\ queues'[t][u] = queues[t][u]
          BY <2>2, <4>2 DEF Wait, TypeOK, CaptureTypeOK
        <5> QED BY <2>1, <5>1
      <4> QED BY <4>1, <4>2
    <3>2. q2 + w <= q + w2 + (-1)
      <4> HIDE DEF q, w, q2, w2
      <4>1. \A a, b, c, d \in Nat :
              (c = a - 1 /\ d = b) \/ (c = a /\ d = b + 1) => c + b <= a + d + (-1)
        OBVIOUS
      <4> QED BY <2>1, <3>1, <4>1
    <3>3. Shifts(t, u, -1)
      BY <3>2 DEF Shifts
    <3> QED BY <1>1, <3>3, OneBalance
  <2>3. CASE t # s \/ u # v
    <3>1. queues'[t][u] = queues[t][u] /\ waiters'[t][u] = waiters[t][u]
      <4>1. CASE Captured(s, v) /\ TakeCaptured(s, v)
        BY <2>3, <4>1 DEF TakeCaptured, TypeOK, CaptureTypeOK
      <4>2. CASE Wait(s, v, y)
        BY <2>3, <4>2 DEF Wait, TypeOK, CaptureTypeOK
      <4> QED BY <4>1, <4>2
    <3>2. Shifts(t, u, 0)
      BY <2>1, <3>1 DEF Shifts
    <3>3. x \notin Of(t, u)
      BY <2>3 DEF Of
    <3> QED BY <1>1, <3>2, <3>3, OneBalance
  <2> QED BY <2>2, <2>3
<1> QED BY <1>1, <1>2 DEF ClaimInv

\* The requests that were asked for stay finitely many.
LEMMA AskedForStep ==
  ASSUME TypeOK, RuleInv, StreamInv, ClaimInv, Next
  PROVE  IsFiniteSet(AskedFor')
<1>1. ASSUME NEW x, AskedFor' \subseteq AskedFor \cup {x} PROVE IsFiniteSet(AskedFor')
  BY <1>1, CountAtMost DEF ClaimInv
<1>2. ASSUME UNCHANGED client PROVE IsFiniteSet(AskedFor')
  BY <1>1, <1>2 DEF AskedFor
<1>3. CASE Task
  BY <1>2, <1>3, TaskConcerns DEF engineVars, RuleInv
<1>4. ASSUME NEW x \in Req, EngineStart(x) \/ EngineCancel(x) PROVE IsFiniteSet(AskedFor')
  <2>1. \A r \in Req : r # x => client'[r] = client[r]
    BY <1>4 DEF EngineStart, EngineCancel, NetBridgeStart, NetBridgeCancel, TypeOK, NetTypeOK
  <2> QED BY <1>1, <2>1 DEF AskedFor
<1>5. ASSUME NEW t \in Tab, EngineRun(t) PROVE IsFiniteSet(AskedFor')
  <2> DEFINE x == Head(toEngine[t]).id
  <2>1. \A r \in Req : r # x => client'[r] = client[r]
    BY <1>5 DEF EngineRun, EngineReceive, NetResponse, NetData, NetTerminal, TypeOK, NetTypeOK
  <2>2. AskedFor' \subseteq AskedFor \cup {x}
    BY <2>1 DEF AskedFor
  <2> QED BY <1>1, <2>2
<1>6. ASSUME NEW t \in Tab, CloseTab(t) PROVE IsFiniteSet(AskedFor')
  <2>1. \A r \in Req : client'[r] # "new" => client[r] # "new"
    BY <1>6 DEF CloseTab
  <2>2. AskedFor' \subseteq AskedFor \cup {Nobody}
    BY <2>1 DEF AskedFor
  <2> QED BY <1>1, <2>2
<1> QED BY <1>3, <1>4, <1>5, <1>6 DEF Next, Task

\* A request that takes, after its wait for an entry, is past its fetch.
LEMMA ResumeStands ==
  ASSUME TypeOK, ClaimInv, NEW x \in Req, pc[x] \in Taking, NEW resolved, NEW seen,
         ResumeTake(x, resolved, seen), UNCHANGED netVars
  PROVE  \A r \in Req : /\ Fetching(r)' /\ (Entitled(r)' <=> Entitled(r))
                        /\ abort'[r] = abort[r] /\ wire'[r] = wire[r]
<1>1. /\ UNCHANGED <<abort, fetched, wire, answer>>
      /\ \A r \in Req \ {x} : idle'[r] = idle[r] /\ took'[r] = took[r]
      /\ Goes(x, "over") \/ Goes(x, "read")
  BY DEF ResumeTake, Respond, Fail, Finish, netVars, TypeOK, ProgressTypeOK, StreamTypeOK
<1>2. pc'[x] \in {"over", "read"} /\ \A r \in Req \ {x} : pc'[r] = pc[r]
  BY <1>1, GoesAlone
<1>3. ASSUME NEW r \in Req \ {x} PROVE Fetching(r)' /\ (Entitled(r)' <=> Entitled(r))
  BY <1>1, <1>2 DEF ClaimInv, Fetching, Entitled
<1>4. Fetching(x) /\ pc[x] \notin {"new", "base", "add", "fetch"}
  BY DEF ClaimInv, Taking
<1>5. Fetching(x)' /\ (Entitled(x)' <=> Entitled(x))
  BY <1>1, <1>2, <1>4 DEF Fetching, Entitled
<1> QED BY <1>1, <1>3, <1>5

LEMMA CaptureStands ==
  ASSUME TypeOK, StreamInv, ClaimInv, NEW t \in Tab,
         EntryArrives(t) \/ \E u \in Url : TakeTimesOut(t, u)
  PROVE  \A r \in Req : /\ Fetching(r)' /\ (Entitled(r)' <=> Entitled(r))
                        /\ abort'[r] = abort[r] /\ wire'[r] = wire[r]
<1> DEFINE All == \A r \in Req : /\ Fetching(r)' /\ (Entitled(r)' <=> Entitled(r))
                                 /\ abort'[r] = abort[r] /\ wire'[r] = wire[r]
<1>1. UNCHANGED netVars /\ WaitersWait
  BY DEF EntryArrives, TakeTimesOut, StreamInv
<1>2. ASSUME UNCHANGED <<progressVars, streamVars>> PROVE All
  BY <1>1, <1>2 DEF progressVars, streamVars, netVars, ClaimInv, Fetching, Entitled
<1>3. ASSUME NEW u \in Url, waiters[t][u] # <<>>, Head(waiters[t][u]) # Nobody,
             NEW resolved, NEW seen, ResumeTake(Head(waiters[t][u]), resolved, seen)
      PROVE  All
  <2>1. Head(waiters[t][u]) \in Req /\ pc[Head(waiters[t][u])] \in Taking
    BY <1>1, <1>3, OldestWaits
  <2> QED BY <1>1, <1>3, <2>1, ResumeStands
<1>4. ASSUME EntryArrives(t) PROVE All
  <2> DEFINE e == Head(events[t])
             u == UrlOf[e.req]
             w == Head(waiters[t][u])
  <2>1. e \in Entry
    BY <1>4, HeadTailProperties DEF EntryArrives, TypeOK, BrowserTypeOK
  <2>2. u \in Url
    BY <2>1, RequestsAssumption DEF Entry
  <2>3. IF waiters[t][u] # <<>> /\ w # Nobody
          THEN ResumeTake(w, pc[w] = "takeOk", e.redirect)
          ELSE UNCHANGED <<progressVars, streamVars>>
    BY <1>4 DEF EntryArrives
  <2> HIDE DEF u, e, All
  <2> QED BY <1>2, <1>3, <2>2, <2>3
<1>5. ASSUME NEW u \in Url, TakeTimesOut(t, u) PROVE All
  <2> DEFINE w == Head(waiters[t][u])
  <2>1. waiters[t][u] # <<>>
    BY <1>5 DEF TakeTimesOut, GiveUp
  <2>2. IF w # Nobody THEN ResumeTake(w, pc[w] = "takeOk", FALSE)
        ELSE UNCHANGED <<progressVars, streamVars>>
    BY <1>5 DEF TakeTimesOut
  <2> HIDE DEF All
  <2> QED BY <1>2, <1>3, <2>1, <2>2
<1> QED BY <1>4, <1>5

LEMMA SweptLength ==
  ASSUME TypeOK, NEW t \in Tab, NEW u \in Url, NEW cut \in Cuts(t)
  PROVE  Len(Swept(t, cut)[u]) <= Len(queues[t][u]) /\ Len(Swept(t, cut)[u]) \in Nat
<1> DEFINE c == cut[u]
           n == Len(queues[t][u])
<1>1. c \in Nat /\ n \in Nat
  BY DEF Cuts, TypeOK, CaptureTypeOK
<1>2. queues[t][u] \in Seq(Entry)
  BY DEF TypeOK, CaptureTypeOK
<1>3. \A i \in c + 1 .. n : queues[t][u][i] \in Entry
  BY <1>1, <1>2
<1>4. Len(SubSeq(queues[t][u], c + 1, n)) = IF c + 1 <= n THEN n - (c + 1) + 1 ELSE 0
  BY <1>1, <1>3, SubSeqProperties
<1>5. Swept(t, cut)[u] = SubSeq(queues[t][u], c + 1, n)
  BY DEF Swept
<1> DEFINE m == Len(Swept(t, cut)[u])
<1>6. m = IF c + 1 <= n THEN n - (c + 1) + 1 ELSE 0
  BY <1>4, <1>5
<1>7. m <= n /\ m \in Nat
  <2> HIDE DEF m, c, n
  <2> QED BY <1>1, <1>6
<1> QED BY <1>7

\* A push takes the oldest waiter or adds to the queue, and sweeps the others.
LEMMA PushShifts ==
  ASSUME TypeOK, TypeOK', NEW t \in Tab, NEW v \in Url, NEW e \in Entry, NEW cut \in Cuts(t),
         Push(t, v, e, cut)
  PROVE  /\ Shifts(t, v, 1)
         /\ \A u \in Url : u # v => Shifts(t, u, 0)
<1>1. Swept(t, cut) \in [Url -> Seq(Entry)]
  BY SweptType DEF TypeOK
<1>2. ASSUME NEW u \in Url PROVE IF u = v THEN Shifts(t, u, 1) ELSE Shifts(t, u, 0)
  <2> DEFINE q == Len(queues[t][u])
             w == Len(waiters[t][u])
             q2 == Len(queues'[t][u])
             w2 == Len(waiters'[t][u])
             m == Len(Swept(t, cut)[u])
  <2>0. m \in Nat /\ m <= q
    BY SweptLength
  <2>1. /\ q \in Nat /\ w \in Nat /\ q2 \in Nat /\ w2 \in Nat
        /\ queues[t][u] \in Seq(Entry) /\ waiters[t][u] \in Seq(Req \cup {Nobody})
    BY DEF TypeOK, CaptureTypeOK
  <2>2. IF u = v THEN (q2 = m /\ w2 = w - 1) \/ (q2 = m + 1 /\ w2 = w) ELSE q2 = m /\ w2 = w
    <3>1. CASE /\ waiters[t][v] # <<>>
               /\ waiters' = [waiters EXCEPT ![t][v] = Tail(@)]
               /\ queues' = [queues EXCEPT ![t] = Swept(t, cut)]
      <4>1. queues'[t][u] = Swept(t, cut)[u]
        BY <3>1 DEF TypeOK, CaptureTypeOK
      <4>2. waiters'[t][u] = IF u = v THEN Tail(waiters[t][u]) ELSE waiters[t][u]
        BY <3>1 DEF TypeOK, CaptureTypeOK
      <4>3. u = v => Len(Tail(waiters[t][u])) = w - 1
        BY <2>1, <3>1
      <4> QED BY <4>1, <4>2, <4>3
    <3>2. CASE /\ UNCHANGED waiters
               /\ queues' = [queues EXCEPT ![t] = [Swept(t, cut) EXCEPT ![v] = Append(@, e)]]
      <4>1. queues'[t][u] = IF u = v THEN Append(Swept(t, cut)[u], e) ELSE Swept(t, cut)[u]
        BY <1>1, <3>2 DEF TypeOK, CaptureTypeOK
      <4>2. Len(Append(Swept(t, cut)[u], e)) = m + 1
        BY <1>1
      <4> QED BY <3>2, <4>1, <4>2
    <3> QED BY <3>1, <3>2 DEF Push
  <2>3. IF u = v THEN q2 + w <= q + w2 + 1 ELSE q2 + w <= q + w2 + 0
    <3> HIDE DEF q, w, q2, w2, m
    <3> QED BY <2>0, <2>1, <2>2
  <2> QED BY <2>3 DEF Shifts
<1> QED BY <1>2

\* An entry comes: its request expects it no more, a waiter or the queue has it.
LEMMA ArrivalStep ==
  ASSUME SingleTab, TypeOK, TypeOK', RuleInv, StreamInv, ClaimInv, NEW s \in Tab, EntryArrives(s),
         IsFiniteSet(AskedFor')
  PROVE  ClaimInv'
<1>0. PICK e \in Entry : e = Head(events[s])
  BY HeadTailProperties DEF EntryArrives, TypeOK, BrowserTypeOK
<1> DEFINE x == e.req
           v == UrlOf[x]
<1>1. events[s] \in Seq(Entry) /\ events[s] # <<>> /\ e = Head(events[s])
  BY <1>0 DEF EntryArrives, TypeOK, BrowserTypeOK
<1>2. x \in Req /\ v \in Url /\ \A t \in Tab : t = s
  BY RequestsAssumption DEF Entry, SingleTab
<1>3. /\ events'[s] = Tail(events[s])
      /\ \E cut \in Cuts(s) : Push(s, v, e, cut)
  BY <1>1 DEF EntryArrives, TypeOK, BrowserTypeOK
<1>4. 1 \in DOMAIN events[s] /\ events[s][1] = e
  BY <1>1
<1>5. \A i \in DOMAIN events'[s] : i + 1 \in DOMAIN events[s] /\ events'[s][i] = events[s][i + 1]
                                   /\ i \in Nat /\ i + 1 # 1
  BY <1>1, <1>3, TailIndex
<1>6. \A r \in Req : /\ Fetching(r)' /\ (Entitled(r)' <=> Entitled(r))
                     /\ abort'[r] = abort[r] /\ wire'[r] = wire[r]
  BY CaptureStands
<1>7. \A i \in DOMAIN events[s] : events[s][i].req \in Req
  <2>1. ASSUME NEW i \in DOMAIN events[s] PROVE events[s][i] \in Entry
    BY <1>1
  <2> QED BY <2>1 DEF Entry
<1>8. EventsOnce'
  <2>1. ASSUME NEW i \in DOMAIN events'[s]
        PROVE  /\ wire'[events'[s][i].req] \in Seen
               /\ \A j \in DOMAIN events'[s] : events'[s][j].req = events'[s][i].req => j = i
    <3>1. wire[events[s][i + 1].req] \in Seen
      BY <1>5, <2>1 DEF ClaimInv, EventsOnce
    <3>2. ASSUME NEW j \in DOMAIN events'[s], events'[s][j].req = events'[s][i].req PROVE j = i
      <4>1. j + 1 = i + 1 /\ j \in Nat /\ i \in Nat
        BY <1>5, <2>1, <3>2 DEF ClaimInv, EventsOnce
      <4> QED BY <4>1
    <3> QED BY <1>5, <1>6, <1>7, <3>1, <3>2
  <2> QED BY <1>2, <2>1 DEF EventsOnce
<1> HIDE DEF v, x
<1>9. /\ \A r \in Req : Expected(r)' => Expected(r)
      /\ Expected(x) /\ ~Expected(x)'
  <2>1. \A r \in Req : TabOf[r] = s
    BY <1>2, RequestsAssumption
  <2>2. \A i \in DOMAIN events'[s] : events'[s][i].req # x
    BY <1>4, <1>5 DEF ClaimInv, EventsOnce, x
  <2>3. wire[x] \notin Open
    BY <1>4 DEF ClaimInv, EventsOnce, x, Seen, Open
  <2>4. ASSUME NEW r \in Req, Expected(r)' PROVE Expected(r)
    BY <1>5, <1>6, <2>1, <2>4 DEF Expected
  <2>5. Expected(x)
    BY <1>2, <1>4, <2>1 DEF Expected, x
  <2>6. ~Expected(x)'
    <3>1. TabOf[x] = s /\ wire'[x] \notin Open
      BY <1>2, <1>6, <2>1, <2>3
    <3>2. ~\E i \in DOMAIN events'[TabOf[x]] : events'[TabOf[x]][i].req = x
      BY <2>2, <3>1
    <3> QED BY <3>1, <3>2 DEF Expected
  <2> QED BY <2>4, <2>5, <2>6
<1>10. Around(x)
  BY <1>6, <1>9 DEF Around
<1>11. ASSUME NEW t \in Tab, NEW u \in Url PROVE Claimed(t, u)'
  <2>1. t = s /\ TabOf[x] = s
    BY <1>2, RequestsAssumption
  <2>2. IF u = v THEN Shifts(t, u, 1) ELSE Shifts(t, u, 0)
    BY <1>1, <1>2, <1>3, <2>1, PushShifts
  <2>3. x \in Of(t, u) <=> u = v
    BY <1>2, <2>1 DEF Of, v
  <2>4. CASE u = v
    <3>1. /\ x \in Of(t, u) /\ Shifts(t, u, 1) /\ (Entitled(x) => Entitled(x)')
          /\ Expected(x) /\ ~Expected(x)'
      BY <1>2, <1>6, <1>9, <2>2, <2>3, <2>4
    <3> QED BY <1>10, <3>1, OneBalance
  <2>5. CASE u # v
    <3>1. x \notin Of(t, u) /\ Shifts(t, u, 0)
      BY <2>2, <2>3, <2>5
    <3> QED BY <1>10, <3>1, OneBalance
  <2> QED BY <2>4, <2>5
<1> QED BY <1>6, <1>8, <1>11 DEF ClaimInv

\* A take() gives up: with it the last entry that could come for it is gone.
LEMMA TimeoutStep ==
  ASSUME SingleTab, Prompt, TypeOK, TypeOK', RuleInv, StreamInv, QueueOrWaiters, ClaimInv,
         NEW s \in Tab, NEW v \in Url, TakeTimesOut(s, v), IsFiniteSet(AskedFor')
  PROVE  ClaimInv'
<1>1. \A r \in Req : /\ Fetching(r)' /\ (Entitled(r)' <=> Entitled(r))
                     /\ abort'[r] = abort[r] /\ wire'[r] = wire[r]
  BY CaptureStands
<1>2. /\ UNCHANGED <<events, queues>> /\ waiters[s][v] # <<>>
      /\ waiters' = [waiters EXCEPT ![s][v] = Tail(@)]
      /\ ~EntryMayCome(s, v)
  BY DEF TakeTimesOut, GiveUp
<1>3. EventsOnce'
  <2>1. ASSUME NEW t \in Tab, NEW i \in DOMAIN events[t] PROVE events[t][i].req \in Req
    <3>1. events[t] \in Seq(Entry)
      BY DEF TypeOK, BrowserTypeOK
    <3>2. events[t][i] \in Entry
      BY <3>1
    <3> QED BY <3>2 DEF Entry
  <2> QED BY <1>1, <1>2, <2>1 DEF ClaimInv, EventsOnce
<1>4. \A r \in Req : Expected(r)' <=> Expected(r)
  BY <1>1, <1>2 DEF Expected
<1>5. Around(Nobody)
  BY <1>1, <1>4 DEF Around
<1>6. ASSUME NEW t \in Tab, NEW u \in Url PROVE Claimed(t, u)'
  <2>1. CASE t = s /\ u = v
    <3>1. queues'[t][u] = <<>>
      BY <1>2, <2>1 DEF QueueOrWaiters
    <3>2. ASSUME NEW r \in Of(t, u) PROVE ~Expected(r)'
      <4>1. r \in Req /\ TabOf[r] = s /\ UrlOf[r] = v
        BY <2>1, <3>2 DEF Of
      <4>2. ~Expected(r)
        BY <1>2, <4>1 DEF EntryMayCome, Expected, Open
      <4> QED BY <1>4, <4>1, <4>2
    <3>3. Coming(t, u)' = {}
      BY <3>2 DEF Coming, Of
    <3>4. Claiming(t, u)' = Claiming(t, u)
      BY <1>1 DEF Claiming, Of
    <3>5. Cardinality(Claiming(t, u)') \in Nat
      BY <3>4, ClaimsAreFinite, FS_CardinalityType
    <3>6. Cardinality(Coming(t, u)') = 0
      BY <3>3, FS_EmptySet
    <3>7. Len(queues'[t][u]) = 0 /\ Len(waiters'[t][u]) \in Nat
      BY <3>1 DEF TypeOK, CaptureTypeOK
    <3> QED BY <3>5, <3>6, <3>7 DEF Claimed
  <2>2. CASE t # s \/ u # v
    <3>1. queues'[t][u] = queues[t][u] /\ waiters'[t][u] = waiters[t][u]
      BY <1>2, <2>2 DEF TypeOK, CaptureTypeOK
    <3>2. Len(queues[t][u]) \in Nat /\ Len(waiters[t][u]) \in Nat
      BY DEF TypeOK, CaptureTypeOK
    <3>3. Shifts(t, u, 0)
      BY <3>1, <3>2 DEF Shifts
    <3>4. Nobody \notin Of(t, u)
      BY RequestsAssumption DEF Of
    <3> QED BY <1>5, <3>3, <3>4, OneBalance
  <2> QED BY <2>1, <2>2
<1> QED BY <1>1, <1>3, <1>6 DEF ClaimInv

\* The network answers: whoever is now expected is entitled.
LEMMA AnswerStep ==
  ASSUME TypeOK, TypeOK', RuleInv, ClaimInv, NEW x \in Req, NetAnswer(x), IsFiniteSet(AskedFor')
  PROVE  ClaimInv'
<1>1. PICK a \in Answers :
        /\ answer' = [answer EXCEPT ![x] = a]
        /\ events' = [t \in Tab |-> IF a # "error" /\ up[t] # "closed"
                                      THEN Append(events[t], [req |-> x, redirect |-> a # "ok"])
                                      ELSE events[t]]
  BY DEF NetAnswer
<1> DEFINE e == [req |-> x, redirect |-> a # "ok"]
<1>2. /\ wire[x] = "sent" /\ wire' = [wire EXCEPT ![x] = "answered"]
      /\ UNCHANGED <<pc, abort, fetched, took, idle, captureVars>>
      /\ wire'[x] = "answered" /\ answer'[x] = a
  BY <1>1 DEF NetAnswer, progressVars, streamVars, TypeOK, BrowserTypeOK
<1>3. About(x)
  BY <1>1, <1>2 DEF About, Stands, TypeOK, BrowserTypeOK
<1>4. e \in Entry /\ e.req = x
  BY DEF Entry
<1>5. ASSUME NEW t \in Tab, NEW i \in DOMAIN events'[t]
      PROVE  \/ i \in DOMAIN events[t] /\ events'[t][i] = events[t][i] /\ events[t][i].req \in Req
             \/ a # "error" /\ i = Len(events[t]) + 1 /\ events'[t][i] = e
  <2>1. events[t] \in Seq(Entry)
    BY DEF TypeOK, BrowserTypeOK
  <2>2. \A j \in DOMAIN events[t] : events[t][j].req \in Req
    <3>1. ASSUME NEW j \in DOMAIN events[t] PROVE events[t][j] \in Entry
      BY <2>1, <3>1
    <3> QED BY <3>1 DEF Entry
  <2>3. events'[t] = IF a # "error" /\ up[t] # "closed" THEN Append(events[t], e) ELSE events[t]
    BY <1>1
  <2>4. CASE events'[t] = events[t]
    BY <1>5, <2>2, <2>4
  <2>5. CASE a # "error" /\ events'[t] = Append(events[t], e)
    <3> HIDE DEF e
    <3> QED BY <1>4, <1>5, <2>1, <2>2, <2>5, AppendIndex
  <2> QED BY <2>3, <2>4, <2>5
<1> HIDE DEF e
<1>6. \A t \in Tab : \A i \in DOMAIN events[t] : events[t][i].req # x /\ wire[events[t][i].req] \in Seen
  BY <1>2 DEF ClaimInv, EventsOnce, Seen
<1>7. EventsOnce'
  <2>1. ASSUME NEW t \in Tab, NEW i \in DOMAIN events'[t]
        PROVE  wire'[events'[t][i].req] \in Seen
    <3>1. \A r \in Req : r = x \/ wire[r] \in Seen => wire'[r] \in Seen
      BY <1>2 DEF Seen, TypeOK, BrowserTypeOK
    <3> QED BY <1>4, <1>5, <1>6, <2>1, <3>1
  <2>2. ASSUME NEW t \in Tab, NEW i \in DOMAIN events'[t], NEW j \in DOMAIN events'[t],
               events'[t][j].req = events'[t][i].req
        PROVE  j = i
    <3>1. \/ i \in DOMAIN events[t] /\ events'[t][i] = events[t][i]
          \/ i = Len(events[t]) + 1 /\ events'[t][i] = e
      BY <1>5, <2>2
    <3>2. \/ j \in DOMAIN events[t] /\ events'[t][j] = events[t][j]
          \/ j = Len(events[t]) + 1 /\ events'[t][j] = e
      BY <1>5, <2>2
    <3>3. CASE i \in DOMAIN events[t] /\ j \in DOMAIN events[t]
                 /\ events'[t][i] = events[t][i] /\ events'[t][j] = events[t][j]
      BY <2>2, <3>3 DEF ClaimInv, EventsOnce
    <3> QED BY <1>4, <1>6, <2>2, <3>1, <3>2, <3>3
  <2> QED BY <2>1, <2>2 DEF EventsOnce
<1>8. Fetching(x) /\ Fetching(x)'
  BY <1>2 DEF ClaimInv, Fetching, Open
<1>9. ASSUME NEW r \in Req, r # x
      PROVE  Fetching(r)' /\ (Expected(r)' => Expected(r)) /\ (Entitled(r)' <=> Entitled(r))
  <2>1. Stands(r)
    BY <1>3, <1>9 DEF About
  <2>2. \A i \in DOMAIN events'[TabOf[r]] : events'[TabOf[r]][i].req = r =>
          i \in DOMAIN events[TabOf[r]] /\ events[TabOf[r]][i].req = r
    BY <1>4, <1>5, <1>9, RequestsAssumption
  <2> QED BY <2>1, <2>2 DEF Stands, ClaimInv, Fetching, Expected, Entitled
<1>10. Around(x)
  BY <1>9 DEF Around
<1>11. Expected(x)' /\ ~Expected(x) => Entitled(x)'
  <2>1. SUFFICES ASSUME Expected(x)', ~Expected(x) PROVE Entitled(x)'
    OBVIOUS
  <2>2. abort[x] = "no" /\ pc[x] = "fetch"
    BY <1>2, <1>8, <2>1 DEF Expected, Fetching, Open
  <2>3. PICK i \in DOMAIN events'[TabOf[x]] : events'[TabOf[x]][i].req = x
    BY <1>2, <2>1 DEF Expected, Open
  <2>4. a # "error"
    BY <1>5, <1>6, <2>3, RequestsAssumption
  <2> QED BY <1>2, <2>2, <2>4 DEF Entitled
<1>12. ~Entitled(x)
  BY <1>2 DEF Entitled
<1>13. ASSUME NEW t \in Tab, NEW u \in Url PROVE Claimed(t, u)'
  <2>1. /\ queues'[t][u] = queues[t][u] /\ waiters'[t][u] = waiters[t][u]
        /\ Len(queues[t][u]) \in Nat /\ Len(waiters[t][u]) \in Nat
    BY <1>2 DEF captureVars, TypeOK, CaptureTypeOK
  <2>2. Shifts(t, u, 0)
    BY <2>1 DEF Shifts
  <2> QED BY <1>10, <1>11, <1>12, <2>2, OneBalance
<1> QED BY <1>7, <1>8, <1>9, <1>13 DEF ClaimInv

-----------------------------------------------------------------------------
(* Which step does what.                                                   *)

\* A step that touches no fetch.
LEMMA StillStep ==
  ASSUME TypeOK, TypeOK', RuleInv, ClaimInv, IsFiniteSet(AskedFor'),
         UNCHANGED <<pc, abort, wire, idle, took, fetched, answer, events, captureVars>>
  PROVE  ClaimInv'
<1>1. About(Nobody)
  BY DEF About, Stands
<1>2. Nobody \notin Req
  BY RequestsAssumption
<1> QED BY <1>1, <1>2, CalmStep

\* x is past its fetch.
LEMMA PastStep ==
  ASSUME TypeOK, TypeOK', RuleInv, ClaimInv, IsFiniteSet(AskedFor'), NEW x \in Req, About(x),
         UNCHANGED <<fetched, wire, answer, events, captureVars>>,
         pc[x] \notin {"new", "base", "add", "fetch"},
         pc'[x] \notin {"new", "base", "add", "fetch"},
         abort'[x] = "no" => abort[x] = "no"
  PROVE  ClaimInv'
<1>1. Fetching(x)
  BY DEF ClaimInv
<1>2. /\ Fetching(x)' /\ ~Entitled(x)
      /\ wire[x] \in Seen => wire'[x] \in Seen
      /\ abort'[x] # "no" /\ wire'[x] \in Open => abort[x] # "no" /\ wire[x] \in Open
  BY <1>1 DEF Fetching, Entitled
<1> QED BY <1>2, CalmStep

\* x has yet to fetch, or ends without.
LEMMA BeforeStep ==
  ASSUME TypeOK, TypeOK', RuleInv, ClaimInv, IsFiniteSet(AskedFor'), NEW x \in Req, About(x),
         UNCHANGED <<fetched, took, wire, answer, abort, events, captureVars>>,
         pc[x] \in {"new", "base", "add"}, pc'[x] \in {"base", "add", "over"},
         idle'[x] => idle[x]
  PROVE  ClaimInv'
<1>1. Fetching(x)
  BY DEF ClaimInv
<1>2. wire[x] = "unsent" /\ ~idle[x] /\ ~took[x]
  BY <1>1 DEF Fetching
<1>3. /\ Fetching(x)' /\ ~Entitled(x)
      /\ wire[x] \in Seen => wire'[x] \in Seen
      /\ abort'[x] # "no" /\ wire'[x] \in Open => abort[x] # "no" /\ wire[x] \in Open
  BY <1>2 DEF Fetching, Entitled, Open, Seen, TypeOK, StreamTypeOK
<1> QED BY <1>3, CalmStep

\* x calls fetch().
LEMMA FetchStarts ==
  ASSUME TypeOK, TypeOK', RuleInv, ClaimInv, IsFiniteSet(AskedFor'), NEW x \in Req, StartFetch(x),
         UNCHANGED <<abort, took, idle, events, captureVars>>, pc[x] \in {"base", "add"}
  PROVE  ClaimInv'
<1>1. About(x) /\ pc'[x] = "fetch" /\ fetched'[x]
      /\ wire'[x] = IF abort[x] = "no" THEN "queued" ELSE "settled"
  BY DEF StartFetch, Goes, About, Stands, TypeOK, ProgressTypeOK, BrowserTypeOK
<1>2. Fetching(x)
  BY DEF ClaimInv
<1>3. wire[x] = "unsent" /\ ~idle[x] /\ ~took[x]
  BY <1>2 DEF Fetching
<1>4. /\ Fetching(x)' /\ ~Entitled(x)
      /\ wire[x] \in Seen => wire'[x] \in Seen
      /\ abort'[x] # "no" /\ wire'[x] \in Open => abort[x] # "no" /\ wire[x] \in Open
  BY <1>1, <1>3 DEF Fetching, Entitled, Open, Seen
<1> QED BY <1>1, <1>4, CalmStep

LEMMA NetworkClaims ==
  ASSUME TypeOK, TypeOK', RuleInv, ClaimInv, IsFiniteSet(AskedFor'), NEW x \in Req, Network(x)
  PROVE  ClaimInv'
<1>1. Fetching(x)
  BY DEF ClaimInv
<1>2. CASE NetSend(x) \/ NetDrop(x)
  <2>1. /\ UNCHANGED <<pc, abort, fetched, took, idle, answer, events, captureVars>>
        /\ \/ wire[x] = "queued" /\ wire' = [wire EXCEPT ![x] = "sent"]
           \/ wire[x] \in Open /\ abort[x] # "no" /\ wire' = [wire EXCEPT ![x] = "settled"]
    BY <1>2 DEF NetSend, NetDrop, progressVars, streamVars, Open
  <2>2. About(x) /\ wire'[x] \in {"sent", "settled"} /\ (abort[x] = "no" => wire'[x] = "sent")
        /\ wire[x] \in Open
    BY <2>1 DEF About, Stands, TypeOK, BrowserTypeOK, Open
  <2>3. /\ Fetching(x)' /\ ~Entitled(x) /\ wire[x] \notin Seen
        /\ abort'[x] # "no" /\ wire'[x] \in Open => abort[x] # "no" /\ wire[x] \in Open
    BY <1>1, <2>1, <2>2 DEF Fetching, Entitled, Open, Seen
  <2> QED BY <2>1, <2>2, <2>3, CalmStep
<1> QED BY <1>2, AnswerStep DEF Network

LEMMA StreamClaims ==
  ASSUME TypeOK, TypeOK', RuleInv, StreamInv, ClaimInv, IsFiniteSet(AskedFor'), NEW x \in Req,
         \/ ReadChunk(x) \/ ReadEnd(x) \/ ReadFails(x) \/ IdleTimerFires(x)
         \/ DeliverSlice(x) \/ AwaitCredit(x)
  PROVE  ClaimInv'
<1>1. UNCHANGED <<fetched, took, wire, answer, events, captureVars>>
  BY DEF ReadChunk, ReadEnd, ReadFails, IdleTimerFires, DeliverSlice, AwaitCredit, netVars
<1>2. CASE ReadChunk(x) \/ ReadEnd(x) \/ ReadFails(x)
  <2>1. /\ pc[x] = "read" /\ pc'[x] \in {"over", "slice"}
        /\ \A r \in Req \ {x} : pc'[r] = pc[r]
    BY <1>2, GoesAlone DEF ReadChunk, ReadEnd, ReadFails
  <2>2. \A r \in Req \ {x} : abort'[r] = abort[r] /\ idle'[r] = idle[r]
    <3>1. CASE ReadChunk(x)
      BY <3>1 DEF ReadChunk, Fail, Finish, TypeOK, ProgressTypeOK, StreamTypeOK
    <3>2. CASE ReadEnd(x) \/ ReadFails(x)
      BY <3>2 DEF ReadEnd, ReadFails, Fail, Finish, TypeOK, ProgressTypeOK, StreamTypeOK
    <3> QED BY <1>2, <3>1, <3>2
  <2>3. abort'[x] = "no" => abort[x] = "no"
    BY <1>2 DEF ReadChunk, ReadEnd, ReadFails
  <2>4. About(x)
    BY <1>1, <2>1, <2>2 DEF About, Stands
  <2> QED BY <1>1, <2>1, <2>3, <2>4, PastStep
<1>3. CASE IdleTimerFires(x)
  <2>1. /\ idle[x] /\ UNCHANGED pc /\ \A r \in Req \ {x} : abort'[r] = abort[r] /\ idle'[r] = idle[r]
        /\ abort'[x] = "no" => abort[x] = "no"
    BY <1>3 DEF IdleTimerFires, TypeOK, ProgressTypeOK, StreamTypeOK
  <2>2. pc[x] \notin {"new", "base", "add", "fetch"}
    BY <2>1 DEF ClaimInv, Fetching
  <2>3. About(x)
    BY <1>1, <2>1 DEF About, Stands
  <2> QED BY <1>1, <2>1, <2>2, <2>3, PastStep
<1>4. CASE DeliverSlice(x) \/ AwaitCredit(x)
  <2>1. running[TabOf[x]] = x /\ TabOf[x] \in Tab /\ x # Nobody
    BY <1>4, RequestsAssumption DEF DeliverSlice, AwaitCredit
  <2>2. pc[x] = "slice"
    BY <2>1 DEF StreamInv, RunnersSlice
  <2>3. /\ UNCHANGED <<abort, idle>> /\ pc'[x] \in {"read", "slice", "credit"}
        /\ \A r \in Req \ {x} : pc'[r] = pc[r]
    BY <1>4, GoesAlone DEF DeliverSlice, AwaitCredit
  <2>4. About(x)
    BY <1>1, <2>3 DEF About, Stands
  <2> QED BY <1>1, <2>2, <2>3, <2>4, PastStep
<1> QED BY <1>2, <1>3, <1>4

LEMMA BaseClaims ==
  ASSUME TypeOK, TypeOK', RuleInv, ClaimInv, IsFiniteSet(AskedFor'), NEW x \in Req,
         BaseInstalled(x) \/ BaseRejected(x)
  PROVE  ClaimInv'
<1>1. pc[x] = "base" /\ UNCHANGED <<abort, took, events, captureVars>>
  BY DEF BaseInstalled, BaseRejected, Due
<1>2. CASE BaseInstalled(x) /\ ruleId[x] = 0
  <2>1. StartFetch(x) /\ UNCHANGED idle
    BY <1>2 DEF BaseInstalled, streamVars
  <2> QED BY <1>1, <2>1, FetchStarts
<1>3. CASE (BaseInstalled(x) /\ ruleId[x] # 0) \/ BaseRejected(x)
  <2>1. /\ UNCHANGED <<fetched, wire, answer>>
        /\ pc'[x] \in {"add", "over"} /\ \A r \in Req \ {x} : pc'[r] = pc[r]
    BY <1>3, GoesAlone DEF BaseInstalled, BaseRejected, netVars
  <2>2. (\A r \in Req \ {x} : idle'[r] = idle[r]) /\ (idle'[x] => idle[x])
    BY <1>3 DEF BaseInstalled, BaseRejected, Fail, Finish, streamVars, TypeOK, StreamTypeOK
  <2>3. About(x)
    BY <1>1, <2>1, <2>2 DEF About, Stands
  <2> QED BY <1>1, <2>1, <2>2, <2>3, BeforeStep
<1> QED BY <1>2, <1>3

LEMMA BrowserClaims ==
  ASSUME TypeOK, TypeOK', RuleInv, ClaimInv, IsFiniteSet(AskedFor'), NEW t \in Tab, BrowserTask(t)
  PROVE  ClaimInv'
<1>1. CASE DnrBase(t) \/ DnrRemove(t)
  BY <1>1, StillStep DEF DnrBase, DnrRemove, progressVars, streamVars, netVars
<1>2. CASE DnrAdd(t) \/ DnrReject(t)
  <2>1. NextOp(t).rule.req \in Req
    BY <1>2, AddedRuleType DEF DnrAdd, DnrReject, TypeOK
  <2>2. PICK x \in Req : x = NextOp(t).rule.req
    BY <2>1
  <2>3. UNCHANGED <<abort, took, idle, events, captureVars>>
    BY <1>2 DEF DnrAdd, DnrReject, streamVars
  <2>4. CASE DnrAdd(t) /\ pc[x] = "add"
    <3>1. StartFetch(x)
      BY <2>2, <2>4 DEF DnrAdd
    <3> QED BY <2>3, <2>4, <3>1, FetchStarts
  <2>5. CASE DnrAdd(t) /\ pc[x] # "add"
    <3>1. UNCHANGED <<fetched, pc, netVars>>
      BY <2>2, <2>5 DEF DnrAdd
    <3> QED BY <2>3, <3>1, StillStep DEF netVars
  <2>6. CASE DnrReject(t)
    <3>1. /\ UNCHANGED <<fetched, netVars>>
          /\ pc' = [pc EXCEPT ![x] = IF @ = "add" THEN "over" ELSE @]
      BY <2>2, <2>6 DEF DnrReject
    <3>2. CASE pc[x] = "add"
      <4>1. pc'[x] = "over" /\ \A r \in Req \ {x} : pc'[r] = pc[r]
        BY <3>1, <3>2 DEF TypeOK, ProgressTypeOK
      <4>2. About(x)
        BY <2>3, <3>1, <4>1 DEF About, Stands, netVars
      <4> QED BY <2>3, <3>1, <3>2, <4>1, <4>2, BeforeStep DEF netVars
    <3>3. CASE pc[x] # "add"
      <4>1. UNCHANGED pc
        BY <3>1, <3>3 DEF TypeOK, ProgressTypeOK
      <4> QED BY <2>3, <3>1, <4>1, StillStep DEF netVars
    <3> QED BY <3>2, <3>3
  <2> QED BY <1>2, <2>4, <2>5, <2>6
<1> QED BY <1>1, <1>2 DEF BrowserTask

LEMMA FetchClaims ==
  ASSUME TypeOK, TypeOK', RuleInv, ClaimInv, IsFiniteSet(AskedFor'), NEW x \in Req,
         FetchSettles(x) \/ FetchAborted(x)
  PROVE  ClaimInv'
<1>1. pc[x] = "fetch" /\ wire' = [wire EXCEPT ![x] = "settled"]
      /\ UNCHANGED <<answer, events, abort, fetched>>
  BY DEF FetchSettles, FetchAborted, ResumeTake
<1>2. /\ pc'[x] \in {"over", "read", "takeOk", "takeErr"} /\ \A r \in Req \ {x} : pc'[r] = pc[r]
      /\ \A r \in Req \ {x} : idle'[r] = idle[r] /\ took'[r] = took[r]
  <2>1. Goes(x, "over") \/ Goes(x, "read") \/ Goes(x, "takeOk") \/ Goes(x, "takeErr")
    BY DEF FetchSettles, FetchAborted, ResumeTake, Respond
  <2>2. \A r \in Req \ {x} : idle'[r] = idle[r] /\ took'[r] = took[r]
    BY DEF FetchSettles, FetchAborted, ResumeTake, Respond, Fail, Finish, streamVars, TypeOK,
           ProgressTypeOK, StreamTypeOK
  <2> QED BY <2>1, <2>2, GoesAlone
<1>3. wire'[x] = "settled" /\ \A r \in Req \ {x} : wire'[r] = wire[r]
  BY <1>1 DEF TypeOK, BrowserTypeOK
<1>4. About(x)
  BY <1>1, <1>2, <1>3 DEF About, Stands
<1>5. Fetching(x)' /\ (Expected(x)' => Expected(x)) /\ wire'[x] \in Seen /\ wire'[x] \notin Open
  BY <1>1, <1>2, <1>3 DEF Fetching, Expected, Open, Seen
<1>6. CASE FetchSettles(x)
  <2> DEFINE s == TabOf[x]
             v == UrlOf[x]
  <2>1. s \in Tab /\ v \in Url /\ x \in Of(s, v)
    BY RequestsAssumption DEF Of
  <2>2. (Captured(s, v) /\ TakeCaptured(s, v)) \/ Wait(s, v, x)
    BY <1>6 DEF FetchSettles
  <2> HIDE DEF s, v
  <2> QED BY <1>1, <1>4, <1>5, <2>1, <2>2, ClaimStep
<1>7. CASE FetchAborted(x)
  <2>1. ~Entitled(x) /\ UNCHANGED captureVars
    BY <1>7 DEF FetchAborted, Entitled
  <2> QED BY <1>1, <1>4, <1>5, <2>1, CalmStep
<1> QED BY <1>6, <1>7

\* A request that is cancelled while it fetches leaves a take() in its place.
LEMMA CancelClaims ==
  ASSUME SingleTab, TypeOK, TypeOK', RuleInv, ClaimInv, IsFiniteSet(AskedFor'),
         NEW t \in Tab, NEW x \in Req, ReceiveCancel(t, x)
  PROVE  ClaimInv'
<1>1. /\ UNCHANGED <<fetched, took, wire, answer, events>>
      /\ abort' = [abort EXCEPT ![x] = IF x \in inflight /\ @ = "no" THEN "cancel" ELSE @]
      /\ pc' = [pc EXCEPT ![x] = IF @ = "credit" THEN "over" ELSE @]
      /\ Finish(x)
  BY DEF ReceiveCancel, Fail, netVars
<1>2. /\ \A r \in Req \ {x} : pc'[r] = pc[r] /\ abort'[r] = abort[r]
      /\ pc'[x] = (IF pc[x] = "credit" THEN "over" ELSE pc[x])
      /\ abort'[x] = IF x \in inflight /\ abort[x] = "no" THEN "cancel" ELSE abort[x]
  BY <1>1 DEF TypeOK, ProgressTypeOK
<1>3. (\A r \in Req \ {x} : idle'[r] = idle[r]) /\ (idle'[x] => idle[x])
  BY <1>1 DEF Finish, TypeOK, StreamTypeOK
<1>4. About(x)
  BY <1>1, <1>2, <1>3 DEF About, Stands
<1>5. Fetching(x)
  BY DEF ClaimInv
<1>6. Fetching(x)'
  BY <1>1, <1>2, <1>3, <1>5 DEF Fetching, TypeOK, StreamTypeOK
<1>7. CASE x \in inflight /\ fetched[x] /\ ~took[x]
  <2> DEFINE v == UrlOf[x]
  <2>1. TabOf[x] = t /\ v \in Url /\ x \in Of(t, v)
    BY RequestsAssumption DEF Of, SingleTab
  <2>2. Discard(t, v)
    BY <1>7 DEF ReceiveCancel
  <2>3. (Captured(t, v) /\ TakeCaptured(t, v)) \/ Wait(t, v, Nobody)
    BY <2>2 DEF Discard
  <2>4. ~(Expected(x)' /\ ~Expected(x) /\ Entitled(x) /\ ~Entitled(x)')
    BY <1>1 DEF Expected, Entitled, Open
  <2> HIDE DEF v
  <2> QED BY <1>1, <1>4, <1>6, <2>1, <2>3, <2>4, ClaimStep
<1>8. CASE ~(x \in inflight /\ fetched[x] /\ ~took[x])
  <2>1. UNCHANGED captureVars
    BY <1>8 DEF ReceiveCancel
  <2>2. x \in inflight => pc[x] # "fetch"
    BY <1>5, <1>8 DEF Fetching
  <2>3. Entitled(x) => Entitled(x)'
    BY <1>1, <1>2, <2>2 DEF Entitled
  <2>4. abort'[x] # "no" /\ wire'[x] \in Open => abort[x] # "no" /\ wire[x] \in Open
    BY <1>1, <1>2, <1>5, <2>2 DEF Fetching
  <2> QED BY <1>1, <1>4, <1>6, <2>1, <2>3, <2>4, CalmStep
<1> QED BY <1>7, <1>8

LEMMA MessageClaims ==
  ASSUME SingleTab, TypeOK, TypeOK', RuleInv, ClaimInv, IsFiniteSet(AskedFor'), NEW t \in Tab,
         NEW x \in Req, Refuse(t, x) \/ Begin(t, x) \/ ReceiveCancel(t, x) \/ ReceiveAck(t, x)
  PROVE  ClaimInv'
<1>1. CASE Refuse(t, x) \/ Begin(t, x)
  <2>1. pc[x] = "new"
    BY <1>1, BeginIsFirst DEF Refuse, Begin, RuleInv
  <2>2. /\ UNCHANGED <<fetched, took, wire, answer, abort, idle, events, captureVars>>
        /\ pc'[x] \in {"base", "add", "over"} /\ \A r \in Req \ {x} : pc'[r] = pc[r]
    BY <1>1, GoesAlone DEF Refuse, Begin, streamVars, netVars
  <2>3. About(x)
    BY <2>2 DEF About, Stands
  <2> QED BY <2>1, <2>2, <2>3, BeforeStep
<1>2. CASE ReceiveAck(t, x)
  <2>1. /\ UNCHANGED <<fetched, took, wire, answer, abort, idle, events, captureVars>>
        /\ \/ UNCHANGED pc
           \/ pc[x] = "credit" /\ pc'[x] = "slice" /\ \A r \in Req \ {x} : pc'[r] = pc[r]
    BY <1>2 DEF ReceiveAck, netVars, TypeOK, ProgressTypeOK
  <2>2. CASE UNCHANGED pc
    BY <2>1, <2>2, StillStep
  <2>3. CASE pc[x] = "credit" /\ pc'[x] = "slice" /\ \A r \in Req \ {x} : pc'[r] = pc[r]
    <3>1. About(x)
      BY <2>1, <2>3 DEF About, Stands
    <3> QED BY <2>1, <2>3, <3>1, PastStep
  <2> QED BY <2>1, <2>2, <2>3
<1> QED BY <1>1, <1>2, CancelClaims

LEMMA ClaimNext ==
  ASSUME SingleTab, Prompt, Closable = {}, TypeOK, TypeOK', RuleInv, StreamInv, QueueOrWaiters,
         ClaimInv, [Next]_vars
  PROVE  ClaimInv'
<1>1. CASE UNCHANGED vars
  <2>1. UNCHANGED <<pc, abort, wire, idle, took, fetched, answer, events, captureVars, client>>
    BY <1>1 DEF vars, progressVars, streamVars, netVars, engineVars
  <2>2. IsFiniteSet(AskedFor')
    BY <2>1 DEF AskedFor, ClaimInv
  <2> QED BY <2>1, <2>2, StillStep
<1>2. CASE Next
  <2>1. IsFiniteSet(AskedFor')
    BY <1>2, AskedForStep
  <2>2. ASSUME NEW t \in Tab, PageTask(t) PROVE ClaimInv'
    BY <2>1, <2>2, ArrivalStep, TimeoutStep, MessageClaims DEF PageTask
  <2>3. ASSUME NEW t \in Tab, BrowserTask(t) PROVE ClaimInv'
    BY <2>1, <2>3, BrowserClaims
  <2>4. ASSUME NEW t \in Tab, EngineRun(t) \/ OpenTab(t) PROVE ClaimInv'
    BY <2>1, <2>4, StillStep DEF EngineRun, OpenTab, progressVars, streamVars, netVars
  <2>5. ASSUME NEW r \in Req, EngineStart(r) \/ EngineCancel(r) PROVE ClaimInv'
    BY <2>1, <2>5, StillStep DEF EngineStart, EngineCancel, progressVars, streamVars, netVars
  <2>6. ASSUME NEW r \in Req, RequestTask(r) PROVE ClaimInv'
    BY <2>1, <2>6, BaseClaims, FetchClaims, StreamClaims DEF RequestTask
  <2>7. ASSUME NEW r \in Req, Network(r) PROVE ClaimInv'
    BY <2>1, <2>7, NetworkClaims
  <2> QED BY <1>2, <2>2, <2>3, <2>4, <2>5, <2>6, <2>7 DEF Next, CloseTab
<1> QED BY <1>1, <1>2

LEMMA ClaimStart == ASSUME TypeOK, Init PROVE ClaimInv
<1>1. AskedFor = {}
  BY DEF AskedFor, Init, NetInit
<1>2. \A r \in Req : Fetching(r)
  BY DEF Init, Fetching, Open
<1>3. EventsOnce
  BY DEF Init, EventsOnce
<1>4. ASSUME NEW t \in Tab, NEW u \in Url PROVE Claimed(t, u)
  <2>1. \A r \in Of(t, u) : ~Expected(r) /\ ~Entitled(r)
    BY RequestsAssumption DEF Init, Expected, Entitled, Of
  <2>2. Coming(t, u) = {} /\ Claiming(t, u) = {}
    BY <2>1 DEF Coming, Claiming
  <2>3. queues[t][u] = <<>> /\ waiters[t][u] = <<>>
    BY DEF Init, CaptureInit
  <2>4. Len(queues[t][u]) = 0 /\ Len(waiters[t][u]) = 0
    BY <2>3
  <2> QED BY <2>2, <2>4, FS_EmptySet DEF Claimed
<1> QED BY <1>1, <1>2, <1>3, <1>4, FS_EmptySet DEF ClaimInv

\* Every entry a capture has is one that a request still in its fetch will take:
\* what #cancel's discard() is for.  In one tab whose page stays, with events
\* that come before a take() gives up.
THEOREM EntriesAreClaimed ==
  ASSUME SingleTab, Prompt, Closable = {} PROVE Spec => []NoOrphans
<1>1. Init => ClaimInv
  BY TypeInit, ClaimStart
<1>2. TypeOK /\ TypeOK' /\ RuleInv /\ StreamInv /\ QueueOrWaiters /\ ClaimInv /\ [Next]_vars
        => ClaimInv'
  BY ClaimNext
<1>3. TypeOK /\ RuleInv /\ QueueOrWaiters /\ ClaimInv => NoOrphans
  BY ClaimsSuffice
<1>4. Spec => [](TypeOK /\ RuleInv /\ StreamInv)
  BY StreamsAreSound
<1>5. Spec => []QueueOrWaiters
  BY EntriesMeetWaiters
<1> QED BY <1>1, <1>2, <1>3, <1>4, <1>5, PTL DEF Spec

=============================================================================
