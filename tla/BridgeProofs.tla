---------------------------- MODULE BridgeProofs ----------------------------
(***************************************************************************)
(* Safety of Bridge for any tabs, requests, window and sizes: its types,   *)
(* the credit window, the capture's queues and waiters, and the rule ids.  *)
(***************************************************************************)
EXTENDS Bridge, SequenceTheorems, TLAPS

-----------------------------------------------------------------------------
(* Types.  First what the fragments the actions are built from do to them, *)
(* then one step for each action.                                          *)

LEMMA SignalType ==
  ASSUME NEW r \in Req, NEW n \in Nat
  PROVE  /\ \A op \in {"begin", "cancel", "ack"} : Signal(op, r, n) \in EngineMsg
         /\ \A op \in {"response", "data", "done", "redirect"} : Signal(op, r, n) \in BridgeMsg
         /\ \A k \in FailKind : Failure(r, k) \in BridgeMsg
BY DEF Signal, Failure, EngineMsg, BridgeMsg

LEMMA PostType ==
  ASSUME NEW t \in Tab, NetTypeOK
  PROVE  /\ \A m \in EngineMsg : PostToBridge(t, m) => toBridge' \in [Tab -> Seq(EngineMsg)]
         /\ \A m \in BridgeMsg : PostToEngine(t, m) => toEngine' \in [Tab -> Seq(BridgeMsg)]
<1>1. ASSUME NEW m \in EngineMsg, PostToBridge(t, m) PROVE toBridge' \in [Tab -> Seq(EngineMsg)]
  <2>1. Append(toBridge[t], m) \in Seq(EngineMsg)
    BY DEF NetTypeOK
  <2> QED BY <1>1, <2>1 DEF NetTypeOK, PostToBridge
<1>2. ASSUME NEW m \in BridgeMsg, PostToEngine(t, m) PROVE toEngine' \in [Tab -> Seq(BridgeMsg)]
  <2>1. Append(toEngine[t], m) \in Seq(BridgeMsg)
    BY DEF NetTypeOK
  <2> QED BY <1>2, <2>1 DEF NetTypeOK, PostToEngine
<1> QED BY <1>1, <1>2

LEMMA OpType ==
  ASSUME NEW r \in Req, NEW id \in RuleId \cup {0}, NEW ua \in UA \cup {Nobody}
  PROVE  /\ BaseOp(ua) \in DnrOp /\ RemoveOp(id) \in DnrOp
         /\ id \in RuleId => AddOp(id, r, ua) \in DnrOp
BY DEF BaseOp, AddOp, RemoveOp, DnrOp, Rule

LEMMA FinishType ==
  ASSUME NEW r \in Req, RulesTypeOK, ProgressTypeOK, StreamTypeOK, Finish(r)
  PROVE  /\ inflight' \in SUBSET Req /\ idle' \in [Req -> BOOLEAN]
         /\ used' \in [Tab -> SUBSET RuleId] /\ dnrOps' \in [Tab -> Seq(DnrOp)]
<1> USE RequestsAssumption
<1>1. inflight' \in SUBSET Req /\ idle' \in [Req -> BOOLEAN]
  BY DEF Finish, ProgressTypeOK, StreamTypeOK
<1>2. used' \in [Tab -> SUBSET RuleId]
  <2>1. used[TabOf[r]] \ {ruleId[r]} \in SUBSET RuleId
    BY DEF RulesTypeOK
  <2>2. used' = used \/ used' = [used EXCEPT ![TabOf[r]] = used[TabOf[r]] \ {ruleId[r]}]
    BY DEF Finish
  <2> QED BY <2>1, <2>2 DEF RulesTypeOK
<1>3. dnrOps' \in [Tab -> Seq(DnrOp)]
  <2>1. CASE dnrOps' = dnrOps
    BY <2>1 DEF RulesTypeOK
  <2>2. CASE ruleId[r] # 0 /\ dnrOps' = [dnrOps EXCEPT ![TabOf[r]] = Append(@, RemoveOp(ruleId[r]))]
    <3>1. ruleId[r] \in RuleId
      BY <2>2 DEF ProgressTypeOK
    <3>2. RemoveOp(ruleId[r]) \in DnrOp
      BY <3>1, OpType
    <3>3. Append(dnrOps[TabOf[r]], RemoveOp(ruleId[r])) \in Seq(DnrOp)
      BY <3>2 DEF RulesTypeOK
    <3> QED BY <2>2, <3>3 DEF RulesTypeOK
  <2> QED BY <2>1, <2>2 DEF Finish
<1> QED BY <1>1, <1>2, <1>3

-----------------------------------------------------------------------------
(* The redirect capture.                                                   *)

LEMMA TakeType ==
  ASSUME NEW t \in Tab, NEW u \in Url, CaptureTypeOK, Captured(t, u), TakeCaptured(t, u)
  PROVE  CaptureTypeOK' /\ Head(queues[t][u]) \in Entry
<1>1. queues[t][u] \in Seq(Entry) /\ queues[t][u] # <<>>
  BY DEF CaptureTypeOK, Captured
<1>2. Tail(queues[t][u]) \in Seq(Entry) /\ Head(queues[t][u]) \in Entry
  BY <1>1, HeadTailProperties
<1>3. queues' = [queues EXCEPT ![t] = [queues[t] EXCEPT ![u] = Tail(queues[t][u])]]
  BY DEF TakeCaptured, CaptureTypeOK
<1>4. [queues[t] EXCEPT ![u] = Tail(queues[t][u])] \in [Url -> Seq(Entry)]
  BY <1>2 DEF CaptureTypeOK
<1> QED BY <1>2, <1>3, <1>4 DEF CaptureTypeOK, TakeCaptured

LEMMA WaitType ==
  ASSUME NEW t \in Tab, NEW u \in Url, NEW w \in Req \cup {Nobody},
         CaptureTypeOK, Wait(t, u, w)
  PROVE  CaptureTypeOK'
<1>1. Append(waiters[t][u], w) \in Seq(Req \cup {Nobody})
  BY DEF CaptureTypeOK
<1>2. waiters' = [waiters EXCEPT ![t] = [waiters[t] EXCEPT ![u] = Append(waiters[t][u], w)]]
  BY DEF Wait, CaptureTypeOK
<1>3. [waiters[t] EXCEPT ![u] = Append(waiters[t][u], w)] \in [Url -> Seq(Req \cup {Nobody})]
  BY <1>1 DEF CaptureTypeOK
<1> QED BY <1>2, <1>3 DEF CaptureTypeOK, Wait

LEMMA DiscardType ==
  ASSUME NEW t \in Tab, NEW u \in Url, CaptureTypeOK, Discard(t, u)
  PROVE  CaptureTypeOK'
BY TakeType, WaitType DEF Discard

LEMMA OldestWaiterLeaves ==
  ASSUME NEW t \in Tab, NEW u \in Url, CaptureTypeOK, waiters[t][u] # <<>>,
         waiters' = [waiters EXCEPT ![t][u] = Tail(@)]
  PROVE  /\ waiters' \in [Tab -> [Url -> Seq(Req \cup {Nobody})]]
         /\ Head(waiters[t][u]) \in Req \cup {Nobody}
<1>1. waiters[t][u] \in Seq(Req \cup {Nobody})
  BY DEF CaptureTypeOK
<1>2. Tail(waiters[t][u]) \in Seq(Req \cup {Nobody}) /\ Head(waiters[t][u]) \in Req \cup {Nobody}
  BY <1>1, HeadTailProperties
<1>3. waiters' = [waiters EXCEPT ![t] = [waiters[t] EXCEPT ![u] = Tail(waiters[t][u])]]
  BY DEF CaptureTypeOK
<1>4. [waiters[t] EXCEPT ![u] = Tail(waiters[t][u])] \in [Url -> Seq(Req \cup {Nobody})]
  BY <1>2 DEF CaptureTypeOK
<1> QED BY <1>2, <1>3, <1>4 DEF CaptureTypeOK

LEMMA SweptType ==
  ASSUME NEW t \in Tab, NEW cut \in Cuts(t), CaptureTypeOK
  PROVE  Swept(t, cut) \in [Url -> Seq(Entry)]
<1>1. ASSUME NEW u \in Url
      PROVE  SubSeq(queues[t][u], cut[u] + 1, Len(queues[t][u])) \in Seq(Entry)
  <2>1. cut[u] \in Int /\ 0 <= cut[u]
    BY DEF Cuts
  <2>2. queues[t][u] \in Seq(Entry)
    BY DEF CaptureTypeOK
  <2>3. \A i \in cut[u] + 1 .. Len(queues[t][u]) : queues[t][u][i] \in Entry
    BY <2>1, <2>2
  <2> QED BY <2>1, <2>2, <2>3, SubSeqProperties
<1> QED BY <1>1 DEF Swept

LEMMA PushType ==
  ASSUME NEW t \in Tab, NEW u \in Url, NEW e \in Entry, NEW cut \in Cuts(t),
         CaptureTypeOK, Push(t, u, e, cut)
  PROVE  CaptureTypeOK'
<1>1. Swept(t, cut) \in [Url -> Seq(Entry)]
  BY SweptType
<1>2. CASE /\ waiters[t][u] # <<>>
           /\ waiters' = [waiters EXCEPT ![t][u] = Tail(@)]
           /\ queues' = [queues EXCEPT ![t] = Swept(t, cut)]
  <2>1. queues' \in [Tab -> [Url -> Seq(Entry)]]
    BY <1>1, <1>2 DEF CaptureTypeOK
  <2> QED BY <1>2, <2>1, OldestWaiterLeaves DEF CaptureTypeOK
<1>3. CASE /\ queues' = [queues EXCEPT ![t] = [Swept(t, cut) EXCEPT ![u] = Append(@, e)]]
           /\ waiters' = waiters
  <2>1. Append(Swept(t, cut)[u], e) \in Seq(Entry)
    BY <1>1
  <2>2. [Swept(t, cut) EXCEPT ![u] = Append(@, e)] \in [Url -> Seq(Entry)]
    BY <1>1, <2>1
  <2> QED BY <1>3, <2>2 DEF CaptureTypeOK
<1> QED BY <1>2, <1>3 DEF Push

-----------------------------------------------------------------------------
(* The session rules.                                                      *)

\* The circle of ids never leaves the range (% wraps at MaxRuleId - MinRuleId).
LEMMA SuccType ==
  ASSUME NEW id \in RuleId, NEW k \in Nat
  PROVE  Succ(id, k) \in RuleId
<1> DEFINE n == MaxRuleId - MinRuleId
<1>1. n \in Nat \ {0} /\ MinRuleId \in Nat /\ MaxRuleId \in Nat
  BY RuleIdAssumption
<1>2. id - MinRuleId + k \in Int
  BY <1>1 DEF RuleId
<1>3. (id - MinRuleId + k) % n \in 0 .. (n - 1)
  BY <1>1, <1>2
<1> QED BY <1>1, <1>3 DEF Succ, RuleId

LEMMA AllocType ==
  ASSUME NEW t \in Tab, NEW id, RulesTypeOK, AllocRuleId(t, id)
  PROVE  id \in RuleId /\ nextRuleId' \in [Tab -> RuleId] /\ used' \in [Tab -> SUBSET RuleId]
<1>1. PICK k \in 1 .. (MaxRuleId - MinRuleId) : id = Succ(nextRuleId[t], k)
  BY DEF AllocRuleId, FreshRuleId
<1>2. k \in Nat /\ nextRuleId[t] \in RuleId
  BY RuleIdAssumption DEF RulesTypeOK
<1>3. id \in RuleId
  BY <1>1, <1>2, SuccType
<1>4. used[t] \cup {id} \in SUBSET RuleId
  BY <1>3 DEF RulesTypeOK
<1> QED BY <1>3, <1>4 DEF AllocRuleId, RulesTypeOK

-----------------------------------------------------------------------------
(* The pieces of #begin and #stream.                                       *)

LEMMA FailType ==
  ASSUME NEW r \in Req, NEW k \in FailKind, TypeOK, Fail(r, k)
  PROVE  /\ inflight' \in SUBSET Req /\ idle' \in [Req -> BOOLEAN]
         /\ used' \in [Tab -> SUBSET RuleId] /\ dnrOps' \in [Tab -> Seq(DnrOp)]
         /\ toEngine' \in [Tab -> Seq(BridgeMsg)]
<1>1. toEngine' \in [Tab -> Seq(BridgeMsg)]
  <2>1. Failure(r, k) \in BridgeMsg
    BY SignalType
  <2>2. CASE PostToEngine(TabOf[r], Failure(r, k))
    BY <2>1, <2>2, PostType, RequestsAssumption DEF TypeOK
  <2>3. CASE UNCHANGED toEngine
    BY <2>3 DEF TypeOK, NetTypeOK
  <2> QED BY <2>2, <2>3 DEF Fail
<1> QED BY <1>1, FinishType DEF Fail, TypeOK

LEMMA GoesType ==
  ASSUME NEW r \in Req, NEW to \in Await, ProgressTypeOK, Goes(r, to)
  PROVE  pc' \in [Req -> Await]
BY DEF ProgressTypeOK, Goes

LEMMA ResumeTakeType ==
  ASSUME NEW r \in Req, NEW resolved, NEW seen, TypeOK, ResumeTake(r, resolved, seen)
  PROVE  /\ ProgressTypeOK' /\ StreamTypeOK' /\ RulesTypeOK'
         /\ toEngine' \in [Tab -> Seq(BridgeMsg)]
<1> USE RequestsAssumption
<1>1. /\ inflight' \in SUBSET Req /\ idle' \in [Req -> BOOLEAN]
      /\ used' \in [Tab -> SUBSET RuleId] /\ dnrOps' \in [Tab -> Seq(DnrOp)]
      /\ toEngine' \in [Tab -> Seq(BridgeMsg)]
      /\ pc' \in [Req -> Await]
  <2> USE DEF Await, FailKind
  <2>1. CASE PostToEngine(TabOf[r], Signal("redirect", r, 0)) /\ Finish(r) /\ Goes(r, "over")
    BY <2>1, SignalType, PostType, FinishType, GoesType DEF TypeOK
  <2>2. CASE Fail(r, "network") /\ Goes(r, "over")
    BY <2>2, FailType, GoesType DEF TypeOK
  <2>3. CASE Goes(r, "over") /\ UNCHANGED <<toEngine, inflight, idle, used, dnrOps>>
    BY <2>3, GoesType DEF TypeOK, NetTypeOK, ProgressTypeOK, StreamTypeOK, RulesTypeOK
  <2>4. CASE Respond(r)
    <3>1. toEngine' \in [Tab -> Seq(BridgeMsg)] /\ pc' \in [Req -> Await]
      BY <2>4, SignalType, PostType, GoesType DEF TypeOK, Respond
    <3> QED BY <2>4, <3>1 DEF TypeOK, Respond, ProgressTypeOK, StreamTypeOK, RulesTypeOK
  <2> QED BY <2>1, <2>2, <2>3, <2>4 DEF ResumeTake
<1>2. ProgressTypeOK'
  BY <1>1 DEF TypeOK, ProgressTypeOK, ResumeTake
<1>3. StreamTypeOK'
  BY <1>1 DEF TypeOK, StreamTypeOK, ResumeTake
<1>4. RulesTypeOK'
  BY <1>1 DEF TypeOK, RulesTypeOK, ResumeTake
<1> QED BY <1>1, <1>2, <1>3, <1>4

LEMMA StartFetchType ==
  ASSUME NEW r \in Req, TypeOK, StartFetch(r)
  PROVE  /\ pc' \in [Req -> Await] /\ fetched' \in [Req -> BOOLEAN]
         /\ wire' \in [Req -> Wire] /\ UNCHANGED <<answer, carried>>
BY DEF TypeOK, StartFetch, Goes, ProgressTypeOK, BrowserTypeOK, Await, Wire

\* The page takes a message off the engine's channel; an ack carries a length.
LEMMA ReceivesType ==
  ASSUME NEW t \in Tab, NEW op, NEW r, NetTypeOK, Receives(t, op, r)
  PROVE  toBridge' \in [Tab -> Seq(EngineMsg)] /\ Head(toBridge[t]) \in EngineMsg
<1>1. toBridge[t] \in Seq(EngineMsg) /\ toBridge[t] # <<>>
  BY DEF NetTypeOK, Receives
<1>2. Tail(toBridge[t]) \in Seq(EngineMsg) /\ Head(toBridge[t]) \in EngineMsg
  BY <1>1, HeadTailProperties
<1> QED BY <1>2 DEF NetTypeOK, Receives

-----------------------------------------------------------------------------
(* The actions.                                                            *)

LEMMA EngineReceiveType ==
  ASSUME NEW t \in Tab, NetTypeOK, EngineReceive(t)
  PROVE  NetTypeOK'
<1> DEFINE m == Head(toEngine[t])
<1>1. toEngine[t] \in Seq(BridgeMsg) /\ toEngine[t] # <<>>
  BY DEF NetTypeOK, EngineReceive
<1>2. m \in BridgeMsg /\ Tail(toEngine[t]) \in Seq(BridgeMsg)
  BY <1>1, HeadTailProperties
<1>3. toEngine' \in [Tab -> Seq(BridgeMsg)]
  BY <1>2 DEF NetTypeOK, EngineReceive
<1>4. m.id \in Req
  BY <1>2 DEF BridgeMsg
<1>5. CASE m.op = "response" /\ NetResponse(m.id)
  BY <1>3, <1>4, <1>5 DEF NetTypeOK, NetResponse, ClientState
<1>6. CASE m.op = "data" /\ NetData(m.id, t, m.len)
  <2>1. m.len \in Nat
    BY <1>2, <1>6 DEF BridgeMsg
  <2>2. got' \in [Req -> Nat]
    BY <1>4, <1>6, <2>1 DEF NetTypeOK, NetData
  <2>3. toBridge' \in [Tab -> Seq(EngineMsg)]
    BY <1>4, <1>6, <2>1, SignalType, PostType DEF NetTypeOK, NetData
  <2> QED BY <1>3, <1>6, <2>2, <2>3 DEF NetTypeOK, NetData
<1>7. ASSUME NEW how \in {"done", "failed", "redirected"}, NetTerminal(m.id, how)
      PROVE  NetTypeOK'
  BY <1>3, <1>4, <1>7 DEF NetTypeOK, NetTerminal, ClientState
<1> QED BY <1>5, <1>6, <1>7 DEF EngineReceive

LEMMA EngineStep ==
  ASSUME TypeOK,
         \/ \E r \in Req : EngineStart(r) \/ EngineCancel(r)
         \/ \E t \in Tab : EngineRun(t)
  PROVE  TypeOK'
<1> USE RequestsAssumption
<1>1. NetTypeOK'
  <2>1. ASSUME NEW r \in Req, EngineStart(r) PROVE NetTypeOK'
    <3>1. toBridge' \in [Tab -> Seq(EngineMsg)]
      BY <2>1, SignalType, PostType DEF EngineStart, NetBridgeStart, TypeOK
    <3> QED BY <2>1, <3>1 DEF EngineStart, NetBridgeStart, TypeOK, NetTypeOK, ClientState
  <2>2. ASSUME NEW r \in Req, EngineCancel(r) PROVE NetTypeOK'
    <3>1. toBridge' \in [Tab -> Seq(EngineMsg)]
      BY <2>2, SignalType, PostType DEF EngineCancel, NetBridgeCancel, TypeOK
    <3> QED BY <2>2, <3>1 DEF EngineCancel, NetBridgeCancel, TypeOK, NetTypeOK, ClientState
  <2>3. ASSUME NEW t \in Tab, EngineRun(t) PROVE NetTypeOK'
    BY <2>3, EngineReceiveType DEF EngineRun, TypeOK
  <2> QED BY <2>1, <2>2, <2>3
<1>2. UNCHANGED <<up, progressVars, streamVars, netVars, events, captureVars, ruleVars>>
  BY DEF EngineStart, EngineCancel, EngineRun
<1>3. CaptureTypeOK' /\ RulesTypeOK'
  BY <1>2 DEF TypeOK, CaptureTypeOK, RulesTypeOK, captureVars, ruleVars, tabRuleVars
<1>4. ProgressTypeOK' /\ StreamTypeOK' /\ BrowserTypeOK'
  BY <1>2 DEF TypeOK, ProgressTypeOK, StreamTypeOK, BrowserTypeOK, progressVars, streamVars, netVars
<1> QED BY <1>1, <1>3, <1>4 DEF TypeOK

\* Refuse and Begin: the first task of a request.
LEMMA BeginStep ==
  ASSUME TypeOK, NEW t \in Tab, NEW r \in Req, Refuse(t, r) \/ Begin(t, r)
  PROVE  TypeOK'
<1> USE RequestsAssumption
<1>1. CASE Refuse(t, r)
  <2>1. toBridge' \in [Tab -> Seq(EngineMsg)]
    BY <1>1, ReceivesType DEF Refuse, TypeOK
  <2>2. toEngine' \in [Tab -> Seq(BridgeMsg)]
    BY <1>1, SignalType, PostType DEF Refuse, TypeOK, FailKind
  <2>3. NetTypeOK'
    BY <1>1, <2>1, <2>2 DEF Refuse, TypeOK, NetTypeOK, engineVars
  <2>4. ProgressTypeOK'
    BY <1>1, GoesType DEF Refuse, TypeOK, ProgressTypeOK, Await
  <2>5. CaptureTypeOK' /\ RulesTypeOK' /\ StreamTypeOK' /\ BrowserTypeOK'
    BY <1>1 DEF Refuse, TypeOK, CaptureTypeOK, RulesTypeOK, StreamTypeOK, BrowserTypeOK,
                captureVars, ruleVars, tabRuleVars, streamVars, netVars
  <2> QED BY <2>3, <2>4, <2>5 DEF TypeOK
<1>2. CASE Begin(t, r)
  <2> DEFINE ua == UAOf[r]
             own == HasHeaders[r] \/ ~RidesBase(t, ua)
  <2>1. PICK id \in 0 .. MaxRuleId :
          /\ IF own THEN AllocRuleId(t, id) ELSE id = 0 /\ UNCHANGED <<nextRuleId, used>>
          /\ ruleId' = [ruleId EXCEPT ![r] = id]
          /\ Goes(r, IF RidesBase(t, ua) THEN "base" ELSE "add")
          /\ dnrOps' = [dnrOps EXCEPT ![t] =
               IF Adopts(t, ua) THEN Append(@, BaseOp(ua))
               ELSE IF RidesBase(t, ua) THEN @ ELSE Append(@, AddOp(id, r, ua))]
    BY <1>2 DEF Begin
  <2>2. own => id \in RuleId
    BY <2>1, AllocType DEF TypeOK
  <2>3. nextRuleId' \in [Tab -> RuleId] /\ used' \in [Tab -> SUBSET RuleId]
    BY <2>1, AllocType DEF TypeOK, RulesTypeOK
  <2>4. dnrOps' \in [Tab -> Seq(DnrOp)]
    <3>1. CASE Adopts(t, ua)
      <4>1. Append(dnrOps[t], BaseOp(ua)) \in Seq(DnrOp)
        BY DEF BaseOp, DnrOp, TypeOK, RulesTypeOK
      <4> QED BY <2>1, <3>1, <4>1 DEF TypeOK, RulesTypeOK
    <3>2. CASE ~Adopts(t, ua) /\ RidesBase(t, ua)
      BY <2>1, <3>2 DEF TypeOK, RulesTypeOK
    <3>3. CASE ~Adopts(t, ua) /\ ~RidesBase(t, ua)
      <4>1. AddOp(id, r, ua) \in DnrOp
        BY <2>2, <3>3, OpType
      <4>2. Append(dnrOps[t], AddOp(id, r, ua)) \in Seq(DnrOp)
        BY <4>1 DEF TypeOK, RulesTypeOK
      <4> QED BY <2>1, <3>3, <4>2 DEF TypeOK, RulesTypeOK
    <3> QED BY <3>1, <3>2, <3>3
  <2>5. RulesTypeOK'
    <3>1. userAgent' \in [Tab -> UA \cup {Nobody}]
      BY <1>2 DEF Begin, TypeOK, RulesTypeOK
    <3>2. adopted' \in [Tab -> BOOLEAN]
      <4>1. (adopted[t] \/ Adopts(t, ua)) \in BOOLEAN
        OBVIOUS
      <4>2. adopted' = [adopted EXCEPT ![t] = adopted[t] \/ Adopts(t, ua)]
        BY <1>2 DEF Begin
      <4> HIDE DEF ua
      <4> QED BY <4>1, <4>2 DEF TypeOK, RulesTypeOK
    <3>3. baseInstall' \in [Tab -> {"none", "pending", "ok", "failed"}]
      BY <1>2 DEF Begin, TypeOK, RulesTypeOK
    <3> QED BY <1>2, <2>3, <2>4, <3>1, <3>2, <3>3 DEF Begin, TypeOK, RulesTypeOK
  <2>6. ProgressTypeOK'
    <3>1. pc' \in [Req -> Await]
      BY <2>1, GoesType DEF TypeOK, Await
    <3>2. ruleId' \in [Req -> RuleId \cup {0}]
      BY <2>1, <2>2 DEF TypeOK, ProgressTypeOK
    <3> QED BY <1>2, <3>1, <3>2 DEF Begin, TypeOK, ProgressTypeOK
  <2>7. NetTypeOK'
    BY <1>2, ReceivesType DEF Begin, TypeOK, NetTypeOK, engineVars
  <2>8. CaptureTypeOK' /\ StreamTypeOK' /\ BrowserTypeOK'
    BY <1>2 DEF Begin, TypeOK, CaptureTypeOK, StreamTypeOK, BrowserTypeOK,
                captureVars, streamVars, netVars
  <2> QED BY <2>5, <2>6, <2>7, <2>8 DEF TypeOK
<1> QED BY <1>1, <1>2

LEMMA BaseStep ==
  ASSUME TypeOK, NEW r \in Req, BaseInstalled(r) \/ BaseRejected(r)
  PROVE  TypeOK'
<1> USE RequestsAssumption
<1>1. CASE BaseInstalled(r)
  <2>1. dnrOps' \in [Tab -> Seq(DnrOp)] /\ pc' \in [Req -> Await]
        /\ fetched' \in [Req -> BOOLEAN] /\ wire' \in [Req -> Wire] /\ UNCHANGED <<answer, carried>>
    <3>1. CASE /\ ruleId[r] # 0 /\ Goes(r, "add") /\ UNCHANGED <<fetched, netVars>>
               /\ dnrOps' = [dnrOps EXCEPT ![TabOf[r]] = Append(@, AddOp(ruleId[r], r, Nobody))]
      <4>1. ruleId[r] \in RuleId
        BY <3>1 DEF TypeOK, ProgressTypeOK
      <4>2. Append(dnrOps[TabOf[r]], AddOp(ruleId[r], r, Nobody)) \in Seq(DnrOp)
        BY <4>1, OpType DEF TypeOK, RulesTypeOK
      <4>3. pc' \in [Req -> Await]
        BY <3>1, GoesType DEF TypeOK, Await
      <4> QED BY <3>1, <4>2, <4>3 DEF TypeOK, RulesTypeOK, ProgressTypeOK, BrowserTypeOK, netVars
    <3>2. CASE StartFetch(r) /\ UNCHANGED dnrOps
      BY <3>2, StartFetchType DEF TypeOK, RulesTypeOK
    <3> QED BY <1>1, <3>1, <3>2 DEF BaseInstalled
  <2>2. ProgressTypeOK' /\ BrowserTypeOK' /\ RulesTypeOK'
    BY <1>1, <2>1 DEF BaseInstalled, TypeOK, ProgressTypeOK, BrowserTypeOK, RulesTypeOK, tabRuleVars
  <2>3. CaptureTypeOK' /\ NetTypeOK' /\ StreamTypeOK'
    BY <1>1 DEF BaseInstalled, TypeOK, CaptureTypeOK, NetTypeOK, StreamTypeOK,
                captureVars, engineVars, channelVars, streamVars
  <2> QED BY <2>2, <2>3 DEF TypeOK
<1>2. CASE BaseRejected(r)
  <2>1. /\ inflight' \in SUBSET Req /\ idle' \in [Req -> BOOLEAN]
        /\ used' \in [Tab -> SUBSET RuleId] /\ dnrOps' \in [Tab -> Seq(DnrOp)]
        /\ toEngine' \in [Tab -> Seq(BridgeMsg)] /\ pc' \in [Req -> Await]
    BY <1>2, FailType, GoesType DEF BaseRejected, TypeOK, FailKind, Await
  <2>2. RulesTypeOK' /\ NetTypeOK' /\ ProgressTypeOK' /\ StreamTypeOK'
    BY <1>2, <2>1 DEF BaseRejected, TypeOK, RulesTypeOK, NetTypeOK, ProgressTypeOK,
                      StreamTypeOK, engineVars
  <2>3. CaptureTypeOK' /\ BrowserTypeOK'
    BY <1>2 DEF BaseRejected, TypeOK, CaptureTypeOK, BrowserTypeOK, captureVars, netVars
  <2> QED BY <2>2, <2>3 DEF TypeOK
<1> QED BY <1>1, <1>2

\* What the browser executes next is a call some request made, or a base install.
LEMMA ExecutesType ==
  ASSUME NEW t \in Tab, NEW op, RulesTypeOK, Executes(t, op)
  PROVE  NextOp(t) \in DnrOp /\ NextOp(t).op = op /\ Tail(dnrOps[t]) \in Seq(DnrOp)
<1>1. dnrOps[t] \in Seq(DnrOp) /\ dnrOps[t] # <<>>
  BY DEF RulesTypeOK, Executes
<1> QED BY <1>1, HeadTailProperties DEF Executes, NextOp

LEMMA AddedRuleType ==
  ASSUME NEW t \in Tab, RulesTypeOK, Executes(t, "add")
  PROVE  NextOp(t).rule \in Rule /\ NextOp(t).rule.req \in Req
<1>1. NextOp(t).rule \in Rule
  BY ExecutesType DEF DnrOp
<1> QED BY <1>1 DEF Rule

LEMMA BrowserStep ==
  ASSUME TypeOK, NEW t \in Tab, BrowserTask(t)
  PROVE  TypeOK'
<1> USE RequestsAssumption
<1>1. CASE DnrBase(t)
  <2>1. Tail(dnrOps[t]) \in Seq(DnrOp) /\ NextOp(t).ua \in UA \cup {Nobody}
    BY <1>1, ExecutesType DEF DnrBase, TypeOK, DnrOp
  <2>2. dnrOps' \in [Tab -> Seq(DnrOp)]
    BY <1>1, <2>1 DEF DnrBase, TypeOK, RulesTypeOK
  <2>3. baseUA' \in UA \cup {Nobody}
        /\ baseInstall' \in [Tab -> {"none", "pending", "ok", "failed"}]
        /\ up' \in [Tab -> {"closed", "starting", "up"}]
    BY <1>1, <2>1 DEF DnrBase, TypeOK, RulesTypeOK, BrowserTypeOK
  <2>4. RulesTypeOK' /\ BrowserTypeOK'
    BY <1>1, <2>2, <2>3 DEF DnrBase, TypeOK, RulesTypeOK, BrowserTypeOK, netVars
  <2>5. CaptureTypeOK' /\ NetTypeOK' /\ ProgressTypeOK' /\ StreamTypeOK'
    BY <1>1 DEF DnrBase, TypeOK, CaptureTypeOK, NetTypeOK, ProgressTypeOK, StreamTypeOK,
                captureVars, engineVars, channelVars, progressVars, streamVars
  <2> QED BY <2>4, <2>5 DEF TypeOK
<1>2. CASE DnrAdd(t)
  <2> DEFINE rule == NextOp(t).rule
             r == rule.req
  <2>1. rule \in Rule /\ r \in Req /\ Tail(dnrOps[t]) \in Seq(DnrOp)
    BY <1>2, AddedRuleType, ExecutesType DEF DnrAdd, TypeOK
  <2>2. /\ pc' \in [Req -> Await] /\ fetched' \in [Req -> BOOLEAN]
        /\ wire' \in [Req -> Wire] /\ UNCHANGED <<answer, carried>>
    <3>1. CASE StartFetch(r)
      BY <2>1, <3>1, StartFetchType
    <3>2. CASE UNCHANGED <<fetched, pc, netVars>>
      BY <3>2 DEF TypeOK, ProgressTypeOK, BrowserTypeOK, netVars
    <3> QED BY <1>2, <3>1, <3>2 DEF DnrAdd
  <2>3. dnrOps' \in [Tab -> Seq(DnrOp)] /\ dnr' \subseteq Rule
    BY <1>2, <2>1 DEF DnrAdd, TypeOK, RulesTypeOK
  <2>4. RulesTypeOK' /\ ProgressTypeOK' /\ BrowserTypeOK'
    BY <1>2, <2>2, <2>3 DEF DnrAdd, TypeOK, RulesTypeOK, ProgressTypeOK, BrowserTypeOK, tabRuleVars
  <2>5. CaptureTypeOK' /\ NetTypeOK' /\ StreamTypeOK'
    BY <1>2 DEF DnrAdd, TypeOK, CaptureTypeOK, NetTypeOK, StreamTypeOK,
                captureVars, engineVars, channelVars, streamVars
  <2> QED BY <2>4, <2>5 DEF TypeOK
<1>3. CASE DnrReject(t)
  <2> DEFINE r == NextOp(t).rule.req
  <2>1. r \in Req /\ Tail(dnrOps[t]) \in Seq(DnrOp)
    BY <1>3, AddedRuleType, ExecutesType DEF DnrReject, TypeOK
  <2>2. /\ dnrOps' \in [Tab -> Seq(DnrOp)] /\ used' \in [Tab -> SUBSET RuleId]
        /\ inflight' \in SUBSET Req /\ toEngine' \in [Tab -> Seq(BridgeMsg)]
    <3>1. CASE /\ pc[r] = "add" /\ r \in inflight
               /\ inflight' = inflight \ {r}
               /\ used' = [used EXCEPT ![t] = @ \ {ruleId[r]}]
               /\ dnrOps' = [dnrOps EXCEPT ![t] = Append(Tail(@), RemoveOp(ruleId[r]))]
               /\ PostToEngine(t, Failure(r, "protocol"))
      <4>1. toEngine' \in [Tab -> Seq(BridgeMsg)]
        BY <2>1, <3>1, SignalType, PostType DEF TypeOK, FailKind
      <4>2. RemoveOp(ruleId[r]) \in DnrOp
        BY <1>3, <2>1, <3>1, OpType DEF DnrReject, TypeOK, ProgressTypeOK
      <4>3. Append(Tail(dnrOps[t]), RemoveOp(ruleId[r])) \in Seq(DnrOp)
        BY <2>1, <4>2
      <4>4. used[t] \ {ruleId[r]} \in SUBSET RuleId
        BY DEF TypeOK, RulesTypeOK
      <4> QED BY <3>1, <4>1, <4>3, <4>4 DEF TypeOK, RulesTypeOK, ProgressTypeOK
    <3>2. CASE dnrOps' = [dnrOps EXCEPT ![t] = Tail(@)] /\ UNCHANGED <<inflight, used, toEngine>>
      BY <2>1, <3>2 DEF TypeOK, RulesTypeOK, ProgressTypeOK, NetTypeOK
    <3> QED BY <1>3, <3>1, <3>2 DEF DnrReject
  <2>3. pc' \in [Req -> Await]
    BY <1>3, <2>1 DEF DnrReject, TypeOK, ProgressTypeOK, Await
  <2>4. RulesTypeOK' /\ ProgressTypeOK' /\ NetTypeOK'
    BY <1>3, <2>2, <2>3 DEF DnrReject, TypeOK, RulesTypeOK, ProgressTypeOK, NetTypeOK, engineVars
  <2>5. CaptureTypeOK' /\ StreamTypeOK' /\ BrowserTypeOK'
    BY <1>3 DEF DnrReject, TypeOK, CaptureTypeOK, StreamTypeOK, BrowserTypeOK,
                captureVars, streamVars, netVars
  <2> QED BY <2>4, <2>5 DEF TypeOK
<1>4. CASE DnrRemove(t)
  <2>1. dnrOps' \in [Tab -> Seq(DnrOp)] /\ dnr' \subseteq Rule
    BY <1>4, ExecutesType DEF DnrRemove, TypeOK, RulesTypeOK
  <2>2. RulesTypeOK'
    BY <1>4, <2>1 DEF DnrRemove, TypeOK, RulesTypeOK, tabRuleVars
  <2>3. CaptureTypeOK' /\ NetTypeOK' /\ ProgressTypeOK' /\ StreamTypeOK' /\ BrowserTypeOK'
    BY <1>4 DEF DnrRemove, TypeOK, CaptureTypeOK, NetTypeOK, ProgressTypeOK, StreamTypeOK,
                BrowserTypeOK, captureVars, engineVars, channelVars, progressVars, streamVars, netVars
  <2> QED BY <2>2, <2>3 DEF TypeOK
<1> QED BY <1>1, <1>2, <1>3, <1>4 DEF BrowserTask

LEMMA NetworkStep ==
  ASSUME TypeOK, NEW r \in Req, Network(r)
  PROVE  TypeOK'
<1> USE RequestsAssumption
<1>1. BrowserTypeOK'
  <2>1. CASE NetSend(r)
    <3>1. wire' \in [Req -> Wire]
      BY <2>1 DEF NetSend, TypeOK, BrowserTypeOK, Wire
    <3>2. PICK ua \in UA \cup {Nobody} :
            carried' = [carried EXCEPT ![r] = [rules |-> {x.req : x \in Matching(r)}, ua |-> ua]]
      BY <2>1 DEF NetSend
    <3>3. {x.req : x \in Matching(r)} \in SUBSET Req
      BY DEF Matching, TypeOK, RulesTypeOK, Rule
    <3>4. [rules |-> {x.req : x \in Matching(r)}, ua |-> ua] \in Carried
      BY <3>3 DEF Carried
    <3>5. carried' \in [Req -> Carried]
      BY <3>2, <3>4 DEF TypeOK, BrowserTypeOK
    <3> QED BY <2>1, <3>1, <3>5 DEF NetSend, TypeOK, BrowserTypeOK
  <2>2. CASE NetAnswer(r)
    <3>1. PICK a \in Answers :
            /\ answer' = [answer EXCEPT ![r] = a]
            /\ events' = [t \in Tab |->
                 IF a # "error" /\ up[t] # "closed"
                   THEN Append(events[t], [req |-> r, redirect |-> a # "ok"]) ELSE events[t]]
      BY <2>2 DEF NetAnswer
    <3>2. a \in Answer
      BY BridgeAssumption
    <3>3. [req |-> r, redirect |-> a # "ok"] \in Entry
      BY DEF Entry
    <3>4. \A t \in Tab : Append(events[t], [req |-> r, redirect |-> a # "ok"]) \in Seq(Entry)
      BY <3>3 DEF TypeOK, BrowserTypeOK
    <3>5. events' \in [Tab -> Seq(Entry)]
      BY <3>1, <3>4 DEF TypeOK, BrowserTypeOK
    <3> QED BY <2>2, <3>1, <3>2, <3>5 DEF NetAnswer, TypeOK, BrowserTypeOK, Wire
  <2>3. CASE NetDrop(r)
    BY <2>3 DEF NetDrop, TypeOK, BrowserTypeOK, Wire
  <2> QED BY <2>1, <2>2, <2>3 DEF Network
<1>2. UNCHANGED <<progressVars, streamVars, captureVars, ruleVars, engineVars, channelVars>>
  BY DEF Network, NetSend, NetAnswer, NetDrop
<1>3. CaptureTypeOK' /\ RulesTypeOK' /\ NetTypeOK' /\ ProgressTypeOK' /\ StreamTypeOK'
  BY <1>2 DEF TypeOK, CaptureTypeOK, RulesTypeOK, NetTypeOK, ProgressTypeOK, StreamTypeOK,
              captureVars, ruleVars, tabRuleVars, engineVars, channelVars, progressVars, streamVars
<1> QED BY <1>1, <1>3 DEF TypeOK

LEMMA FetchStep ==
  ASSUME TypeOK, NEW r \in Req, FetchSettles(r) \/ FetchAborted(r)
  PROVE  TypeOK'
<1> USE RequestsAssumption
<1>1. CASE FetchSettles(r)
  <2> DEFINE t == TabOf[r]
             u == UrlOf[r]
             resolved == answer[r] \in {"ok", "synth"}
  <2>1. CaptureTypeOK' /\ ProgressTypeOK' /\ StreamTypeOK' /\ RulesTypeOK'
        /\ toEngine' \in [Tab -> Seq(BridgeMsg)]
    <3>1. CASE /\ Captured(t, u) /\ TakeCaptured(t, u)
               /\ ResumeTake(r, resolved, Head(queues[t][u]).redirect)
      <4>1. CaptureTypeOK'
        BY <3>1, TakeType DEF TypeOK
      <4> QED BY <3>1, <4>1, ResumeTakeType
    <3>2. CASE /\ Wait(t, u, r) /\ Goes(r, IF resolved THEN "takeOk" ELSE "takeErr")
               /\ UNCHANGED <<inflight, abort, ruleId, fetched, took, streamVars, ruleVars, toEngine>>
      <4>1. CaptureTypeOK'
        BY <3>2, WaitType DEF TypeOK
      <4>2. pc' \in [Req -> Await]
        BY <3>2, GoesType DEF TypeOK, Await
      <4>3. ProgressTypeOK' /\ StreamTypeOK'
        BY <3>2, <4>2 DEF TypeOK, ProgressTypeOK, StreamTypeOK, streamVars
      <4>4. RulesTypeOK' /\ toEngine' \in [Tab -> Seq(BridgeMsg)]
        BY <3>2 DEF TypeOK, RulesTypeOK, NetTypeOK, ruleVars, tabRuleVars
      <4> QED BY <4>1, <4>3, <4>4
    <3> QED BY <1>1, <3>1, <3>2 DEF FetchSettles
  <2>2. BrowserTypeOK' /\ NetTypeOK'
    BY <1>1, <2>1 DEF FetchSettles, TypeOK, BrowserTypeOK, NetTypeOK, Wire, engineVars
  <2> QED BY <2>1, <2>2 DEF TypeOK
<1>2. CASE FetchAborted(r)
  <2>1. ProgressTypeOK' /\ BrowserTypeOK'
    BY <1>2 DEF FetchAborted, TypeOK, ProgressTypeOK, BrowserTypeOK, Goes, Await, Wire
  <2>2. CaptureTypeOK' /\ RulesTypeOK' /\ NetTypeOK' /\ StreamTypeOK'
    BY <1>2 DEF FetchAborted, TypeOK, CaptureTypeOK, RulesTypeOK, NetTypeOK, StreamTypeOK,
                captureVars, ruleVars, tabRuleVars, engineVars, channelVars, streamVars
  <2> QED BY <2>1, <2>2 DEF TypeOK
<1> QED BY <1>1, <1>2

LEMMA CaptureStep ==
  ASSUME TypeOK, NEW t \in Tab, EntryArrives(t) \/ \E u \in Url : TakeTimesOut(t, u)
  PROVE  TypeOK'
<1> USE RequestsAssumption
<1>1. ASSUME UNCHANGED <<progressVars, streamVars, ruleVars, toEngine>>
      PROVE  ProgressTypeOK' /\ StreamTypeOK' /\ RulesTypeOK' /\ toEngine' \in [Tab -> Seq(BridgeMsg)]
  BY <1>1 DEF TypeOK, ProgressTypeOK, StreamTypeOK, RulesTypeOK, NetTypeOK,
              progressVars, streamVars, ruleVars, tabRuleVars
<1>2. CASE EntryArrives(t)
  <2> DEFINE e == Head(events[t])
             u == UrlOf[e.req]
             w == Head(waiters[t][u])
  <2>1. e \in Entry /\ Tail(events[t]) \in Seq(Entry)
    BY <1>2, HeadTailProperties DEF EntryArrives, TypeOK, BrowserTypeOK
  <2>2. u \in Url
    BY <2>1 DEF Entry
  <2>3. CaptureTypeOK'
    BY <1>2, <2>1, <2>2, PushType DEF EntryArrives, TypeOK
  <2>4. BrowserTypeOK'
    BY <1>2, <2>1 DEF EntryArrives, TypeOK, BrowserTypeOK, netVars
  <2>5. ProgressTypeOK' /\ StreamTypeOK' /\ RulesTypeOK' /\ toEngine' \in [Tab -> Seq(BridgeMsg)]
    <3>1. CASE waiters[t][u] # <<>> /\ w # Nobody /\ ResumeTake(w, pc[w] = "takeOk", e.redirect)
      <4>1. waiters[t][u] \in Seq(Req \cup {Nobody})
        BY <2>2 DEF TypeOK, CaptureTypeOK
      <4> HIDE DEF u, e
      <4>2. w \in Req \cup {Nobody}
        BY <3>1, <4>1, HeadTailProperties
      <4>3. w \in Req
        BY <3>1, <4>2
      <4> HIDE DEF w
      <4> QED BY <3>1, <4>3, ResumeTakeType
    <3>2. CASE UNCHANGED <<progressVars, streamVars, ruleVars, toEngine>>
      BY <1>1, <3>2
    <3> QED BY <1>2, <3>1, <3>2 DEF EntryArrives
  <2>6. NetTypeOK'
    BY <1>2, <2>5 DEF EntryArrives, TypeOK, NetTypeOK, engineVars
  <2> QED BY <2>3, <2>4, <2>5, <2>6 DEF TypeOK
<1>3. ASSUME NEW u \in Url, TakeTimesOut(t, u) PROVE TypeOK'
  <2> DEFINE w == Head(waiters[t][u])
  <2>1. CaptureTypeOK' /\ w \in Req \cup {Nobody}
    BY <1>3, OldestWaiterLeaves DEF TakeTimesOut, GiveUp, TypeOK, CaptureTypeOK
  <2>2. ProgressTypeOK' /\ StreamTypeOK' /\ RulesTypeOK' /\ toEngine' \in [Tab -> Seq(BridgeMsg)]
    <3>1. CASE w # Nobody /\ ResumeTake(w, pc[w] = "takeOk", FALSE)
      <4>1. w \in Req
        BY <2>1, <3>1
      <4> HIDE DEF w
      <4> QED BY <3>1, <4>1, ResumeTakeType
    <3>2. CASE UNCHANGED <<progressVars, streamVars, ruleVars, toEngine>>
      BY <1>1, <3>2
    <3> QED BY <1>3, <3>1, <3>2 DEF TakeTimesOut
  <2>3. BrowserTypeOK' /\ NetTypeOK'
    BY <1>3, <2>2 DEF TakeTimesOut, TypeOK, BrowserTypeOK, NetTypeOK, netVars, engineVars
  <2> QED BY <2>1, <2>2, <2>3 DEF TypeOK
<1> QED BY <1>2, <1>3

LEMMA StreamStep ==
  ASSUME TypeOK, NEW r \in Req,
         \/ ReadChunk(r) \/ ReadEnd(r) \/ ReadFails(r) \/ IdleTimerFires(r)
         \/ DeliverSlice(r) \/ AwaitCredit(r)
  PROVE  TypeOK'
<1> USE RequestsAssumption, BridgeAssumption
<1>1. CASE ReadChunk(r)
  <2>1. PICK n \in 1 .. MaxChunk :
          /\ bytes' = [bytes EXCEPT ![r] = @ + n]
          /\ \/ /\ abort' = [abort EXCEPT ![r] = "too-large"]
                /\ Fail(r, "too-large")
                /\ Goes(r, "over")
                /\ UNCHANGED <<rem, running>>
             \/ /\ idle' = [idle EXCEPT ![r] = TRUE]
                /\ rem' = [rem EXCEPT ![r] = n]
                /\ Goes(r, "slice")
                /\ running' = [running EXCEPT ![TabOf[r]] = r]
                /\ UNCHANGED <<abort, inflight, used, dnrOps, toEngine>>
    BY <1>1 DEF ReadChunk
  <2>2. bytes' \in [Req -> Nat]
    BY <2>1 DEF TypeOK, StreamTypeOK
  <2>3. /\ abort' \in [Req -> {"no", "cancel", "idle", "too-large"}]
        /\ inflight' \in SUBSET Req /\ idle' \in [Req -> BOOLEAN]
        /\ used' \in [Tab -> SUBSET RuleId] /\ dnrOps' \in [Tab -> Seq(DnrOp)]
        /\ toEngine' \in [Tab -> Seq(BridgeMsg)] /\ pc' \in [Req -> Await]
        /\ rem' \in [Req -> Nat] /\ running' \in [Tab -> Req \cup {Nobody}]
    <3>1. CASE /\ abort' = [abort EXCEPT ![r] = "too-large"]
               /\ Fail(r, "too-large") /\ Goes(r, "over") /\ UNCHANGED <<rem, running>>
      <4>1. pc' \in [Req -> Await]
        BY <3>1, GoesType DEF TypeOK, Await
      <4> QED BY <3>1, <4>1, FailType DEF TypeOK, ProgressTypeOK, StreamTypeOK, FailKind
    <3>2. CASE /\ idle' = [idle EXCEPT ![r] = TRUE] /\ rem' = [rem EXCEPT ![r] = n]
               /\ Goes(r, "slice") /\ running' = [running EXCEPT ![TabOf[r]] = r]
               /\ UNCHANGED <<abort, inflight, used, dnrOps, toEngine>>
      <4>1. pc' \in [Req -> Await]
        BY <3>2, GoesType DEF TypeOK, Await
      <4>2. idle' \in [Req -> BOOLEAN] /\ rem' \in [Req -> Nat]
            /\ running' \in [Tab -> Req \cup {Nobody}]
        BY <3>2 DEF TypeOK, StreamTypeOK
      <4> QED BY <3>2, <4>1, <4>2 DEF TypeOK, ProgressTypeOK, RulesTypeOK, NetTypeOK
    <3> QED BY <2>1, <3>1, <3>2
  <2>4. ProgressTypeOK' /\ StreamTypeOK' /\ RulesTypeOK' /\ NetTypeOK'
    BY <1>1, <2>2, <2>3 DEF ReadChunk, TypeOK, ProgressTypeOK, StreamTypeOK, RulesTypeOK,
                            NetTypeOK, engineVars
  <2>5. CaptureTypeOK' /\ BrowserTypeOK'
    BY <1>1 DEF ReadChunk, TypeOK, CaptureTypeOK, BrowserTypeOK, captureVars, netVars
  <2> QED BY <2>4, <2>5 DEF TypeOK
<1>2. CASE ReadEnd(r) \/ ReadFails(r)
  <2>1. /\ inflight' \in SUBSET Req /\ idle' \in [Req -> BOOLEAN]
        /\ used' \in [Tab -> SUBSET RuleId] /\ dnrOps' \in [Tab -> Seq(DnrOp)]
        /\ toEngine' \in [Tab -> Seq(BridgeMsg)] /\ pc' \in [Req -> Await]
    <3>1. pc' \in [Req -> Await]
      BY <1>2, GoesType DEF ReadEnd, ReadFails, TypeOK, Await
    <3>2. CASE ReadEnd(r)
      BY <3>1, <3>2, SignalType, PostType, FinishType DEF ReadEnd, TypeOK
    <3>3. CASE ReadFails(r)
      BY <3>1, <3>3, FailType DEF ReadFails, FailKind
    <3> QED BY <1>2, <3>2, <3>3
  <2>2. ProgressTypeOK' /\ StreamTypeOK' /\ RulesTypeOK' /\ NetTypeOK'
    BY <1>2, <2>1 DEF ReadEnd, ReadFails, TypeOK, ProgressTypeOK, StreamTypeOK, RulesTypeOK,
                      NetTypeOK, engineVars
  <2>3. CaptureTypeOK' /\ BrowserTypeOK'
    BY <1>2 DEF ReadEnd, ReadFails, TypeOK, CaptureTypeOK, BrowserTypeOK, captureVars, netVars
  <2> QED BY <2>2, <2>3 DEF TypeOK
<1>3. CASE IdleTimerFires(r)
  <2>1. ProgressTypeOK' /\ StreamTypeOK'
    BY <1>3 DEF IdleTimerFires, TypeOK, ProgressTypeOK, StreamTypeOK
  <2>2. CaptureTypeOK' /\ RulesTypeOK' /\ NetTypeOK' /\ BrowserTypeOK'
    BY <1>3 DEF IdleTimerFires, TypeOK, CaptureTypeOK, RulesTypeOK, NetTypeOK, BrowserTypeOK,
                captureVars, ruleVars, tabRuleVars, engineVars, channelVars, netVars
  <2> QED BY <2>1, <2>2 DEF TypeOK
<1>4. CASE DeliverSlice(r)
  <2> DEFINE n == IF rem[r] < Slice THEN rem[r] ELSE Slice
  <2>1. n \in Nat /\ rem[r] - n \in Nat
    BY DEF TypeOK, StreamTypeOK
  <2>2. toEngine' \in [Tab -> Seq(BridgeMsg)]
    BY <1>4, <2>1, SignalType, PostType DEF DeliverSlice, TypeOK
  <2>3. pc' \in [Req -> Await]
    BY <1>4, GoesType DEF DeliverSlice, TypeOK, Await
  <2>4. StreamTypeOK'
    BY <1>4, <2>1 DEF DeliverSlice, TypeOK, StreamTypeOK
  <2>5. ProgressTypeOK' /\ NetTypeOK'
    BY <1>4, <2>2, <2>3 DEF DeliverSlice, TypeOK, ProgressTypeOK, NetTypeOK, engineVars
  <2>6. CaptureTypeOK' /\ RulesTypeOK' /\ BrowserTypeOK'
    BY <1>4 DEF DeliverSlice, TypeOK, CaptureTypeOK, RulesTypeOK, BrowserTypeOK,
                captureVars, ruleVars, tabRuleVars, netVars
  <2> QED BY <2>4, <2>5, <2>6 DEF TypeOK
<1>5. CASE AwaitCredit(r)
  <2>1. pc' \in [Req -> Await]
    BY <1>5, GoesType DEF AwaitCredit, TypeOK, Await
  <2>2. ProgressTypeOK' /\ StreamTypeOK'
    BY <1>5, <2>1 DEF AwaitCredit, TypeOK, ProgressTypeOK, StreamTypeOK
  <2>3. CaptureTypeOK' /\ RulesTypeOK' /\ NetTypeOK' /\ BrowserTypeOK'
    BY <1>5 DEF AwaitCredit, TypeOK, CaptureTypeOK, RulesTypeOK, NetTypeOK, BrowserTypeOK,
                captureVars, ruleVars, tabRuleVars, engineVars, channelVars, netVars
  <2> QED BY <2>2, <2>3 DEF TypeOK
<1> QED BY <1>1, <1>2, <1>3, <1>4, <1>5

LEMMA ReceiveStep ==
  ASSUME TypeOK, NEW t \in Tab, NEW r \in Req, ReceiveCancel(t, r) \/ ReceiveAck(t, r)
  PROVE  TypeOK'
<1> USE RequestsAssumption
<1>1. CASE ReceiveCancel(t, r)
  <2>1. toBridge' \in [Tab -> Seq(EngineMsg)]
    BY <1>1, ReceivesType DEF ReceiveCancel, TypeOK
  <2>2. /\ inflight' \in SUBSET Req /\ idle' \in [Req -> BOOLEAN]
        /\ used' \in [Tab -> SUBSET RuleId] /\ dnrOps' \in [Tab -> Seq(DnrOp)]
        /\ toEngine' \in [Tab -> Seq(BridgeMsg)]
    BY <1>1, FailType DEF ReceiveCancel, FailKind
  <2>3. CaptureTypeOK'
    <3>1. CASE Discard(t, UrlOf[r])
      BY <3>1, DiscardType DEF TypeOK
    <3>2. CASE UNCHANGED captureVars
      BY <3>2 DEF TypeOK, CaptureTypeOK, captureVars
    <3> QED BY <1>1, <3>1, <3>2 DEF ReceiveCancel
  <2>4. ProgressTypeOK' /\ StreamTypeOK' /\ RulesTypeOK'
    BY <1>1, <2>2 DEF ReceiveCancel, TypeOK, ProgressTypeOK, StreamTypeOK, RulesTypeOK, Await
  <2>5. NetTypeOK' /\ BrowserTypeOK'
    BY <1>1, <2>1, <2>2 DEF ReceiveCancel, TypeOK, NetTypeOK, BrowserTypeOK, engineVars, netVars
  <2> QED BY <2>3, <2>4, <2>5 DEF TypeOK
<1>2. CASE ReceiveAck(t, r)
  <2> DEFINE left == unacked[r] - Head(toBridge[t]).len
             wakes == r \in inflight /\ pc[r] = "credit" /\ left < Window
  <2>1. toBridge' \in [Tab -> Seq(EngineMsg)] /\ Head(toBridge[t]) \in EngineMsg
    BY <1>2, ReceivesType DEF ReceiveAck, TypeOK
  <2>2. left \in Int
    BY <2>1 DEF EngineMsg, TypeOK, StreamTypeOK
  <2>3. /\ unacked' = [unacked EXCEPT ![r] = IF r \in inflight THEN left ELSE @]
        /\ pc' = [pc EXCEPT ![r] = IF wakes THEN "slice" ELSE @]
        /\ running' = [running EXCEPT ![t] = IF wakes THEN r ELSE @]
    BY <1>2 DEF ReceiveAck
  <2> HIDE DEF left, wakes
  <2>4. unacked' \in [Req -> Int] /\ pc' \in [Req -> Await] /\ running' \in [Tab -> Req \cup {Nobody}]
    BY <2>2, <2>3 DEF TypeOK, StreamTypeOK, ProgressTypeOK, Await
  <2>5. ProgressTypeOK' /\ StreamTypeOK' /\ NetTypeOK'
    BY <1>2, <2>1, <2>4 DEF ReceiveAck, TypeOK, ProgressTypeOK, StreamTypeOK, NetTypeOK, engineVars
  <2>6. CaptureTypeOK' /\ RulesTypeOK' /\ BrowserTypeOK'
    BY <1>2 DEF ReceiveAck, TypeOK, CaptureTypeOK, RulesTypeOK, BrowserTypeOK,
                captureVars, ruleVars, tabRuleVars, netVars
  <2> QED BY <2>5, <2>6 DEF TypeOK
<1> QED BY <1>1, <1>2

LEMMA TabStep ==
  ASSUME TypeOK, NEW t \in Tab, OpenTab(t) \/ CloseTab(t)
  PROVE  TypeOK'
<1> USE RequestsAssumption
<1>1. CASE OpenTab(t)
  <2>1. dnrOps[t] \in Seq(DnrOp) /\ Append(dnrOps[t], BaseOp(Nobody)) \in Seq(DnrOp)
    BY DEF TypeOK, RulesTypeOK, BaseOp, DnrOp
  <2>2. RulesTypeOK' /\ BrowserTypeOK'
    BY <1>1, <2>1 DEF OpenTab, TypeOK, RulesTypeOK, BrowserTypeOK, tabRuleVars, netVars
  <2>3. CaptureTypeOK' /\ NetTypeOK' /\ ProgressTypeOK' /\ StreamTypeOK'
    BY <1>1 DEF OpenTab, TypeOK, CaptureTypeOK, NetTypeOK, ProgressTypeOK, StreamTypeOK,
                captureVars, engineVars, channelVars, progressVars, streamVars
  <2> QED BY <2>2, <2>3 DEF TypeOK
<1>2. CASE CloseTab(t)
  <2>1. [u \in Url |-> <<>>] \in [Url -> Seq(Entry)]
        /\ [u \in Url |-> <<>>] \in [Url -> Seq(Req \cup {Nobody})]
    OBVIOUS
  <2>2. CaptureTypeOK'
    BY <1>2, <2>1 DEF CloseTab, CaptureReset, TypeOK, CaptureTypeOK
  <2>3. nextRuleId' \in [Tab -> RuleId] /\ used' \in [Tab -> SUBSET RuleId]
    BY <1>2, RuleIdAssumption DEF CloseTab, TypeOK, RulesTypeOK, RuleId
  <2>4. RulesTypeOK'
    BY <1>2, <2>3 DEF CloseTab, TypeOK, RulesTypeOK
  <2>5. NetTypeOK'
    <3>1. toBridge' \in [Tab -> Seq(EngineMsg)] /\ toEngine' \in [Tab -> Seq(BridgeMsg)]
      BY <1>2 DEF CloseTab, TypeOK, NetTypeOK
    <3>2. client' \in [Req -> ClientState] /\ registered' \subseteq Req
      BY <1>2 DEF CloseTab, TypeOK, NetTypeOK, ClientState
    <3> QED BY <1>2, <3>1, <3>2 DEF CloseTab, TypeOK, NetTypeOK
  <2>6. ProgressTypeOK'
    BY <1>2 DEF CloseTab, TypeOK, ProgressTypeOK, Await
  <2>7. StreamTypeOK'
    BY <1>2 DEF CloseTab, TypeOK, StreamTypeOK
  <2>8. BrowserTypeOK'
    <3>1. events' \in [Tab -> Seq(Entry)]
      BY <1>2 DEF CloseTab, TypeOK, BrowserTypeOK
    <3> QED BY <1>2, <3>1 DEF CloseTab, TypeOK, BrowserTypeOK, Wire
  <2> QED BY <2>2, <2>4, <2>5, <2>6, <2>7, <2>8 DEF TypeOK
<1> QED BY <1>1, <1>2

LEMMA TypeInit == Init => TypeOK
<1> SUFFICES ASSUME Init PROVE TypeOK
  OBVIOUS
<1> USE DEF Init
<1>1. CaptureTypeOK
  BY DEF CaptureInit, CaptureTypeOK
<1>2. RulesTypeOK
  BY RuleIdAssumption DEF RulesInit, RulesTypeOK, RuleId
<1>3. NetTypeOK
  BY DEF NetInit, NetTypeOK, ClientState
<1>4. ProgressTypeOK /\ StreamTypeOK
  BY DEF ProgressTypeOK, StreamTypeOK, Await
<1>5. BrowserTypeOK
  <2>1. [rules |-> {}, ua |-> Nobody] \in Carried
    BY DEF Carried
  <2> QED BY <2>1 DEF BrowserTypeOK, Wire, Answer
<1> QED BY <1>1, <1>2, <1>3, <1>4, <1>5 DEF TypeOK

LEMMA TypeStep == TypeOK /\ [Next]_vars => TypeOK'
<1> SUFFICES ASSUME TypeOK, [Next]_vars PROVE TypeOK'
  OBVIOUS
<1>1. ASSUME NEW t \in Tab, PageTask(t) PROVE TypeOK'
  BY <1>1, CaptureStep, BeginStep, ReceiveStep DEF PageTask
<1>2. ASSUME NEW t \in Tab, EngineRun(t) \/ OpenTab(t) \/ CloseTab(t) PROVE TypeOK'
  BY <1>2, EngineStep, TabStep
<1>3. ASSUME NEW r \in Req, RequestTask(r) PROVE TypeOK'
  BY <1>3, BaseStep, FetchStep, StreamStep DEF RequestTask
<1>4. CASE UNCHANGED vars
  BY <1>4 DEF vars, TypeOK, CaptureTypeOK, RulesTypeOK, NetTypeOK, ProgressTypeOK,
              StreamTypeOK, BrowserTypeOK, captureVars, ruleVars, tabRuleVars, engineVars,
              channelVars, progressVars, streamVars, netVars
<1> QED BY <1>1, <1>2, <1>3, <1>4, EngineStep, BrowserStep, NetworkStep DEF Next

\* Every variable of the bridge keeps its type, for any tabs, requests, window,
\* slice and caps: no rule id outside [MIN, MAX), no negative rest of a chunk, no
\* message or rule operation of an unknown shape.
THEOREM TypeCorrect == Spec => []TypeOK
BY TypeInit, TypeStep, PTL DEF Spec

-----------------------------------------------------------------------------
(* The credit window.                                                      *)

LEMMA ReceiveAckLowers ==
  ASSUME TypeOK, NEW t \in Tab, NEW r \in Req, ReceiveAck(t, r)
  PROVE  \A x \in Req : unacked'[x] <= unacked[x]
<1>1. Head(toBridge[t]) \in EngineMsg
  BY ReceivesType DEF ReceiveAck, TypeOK
<1>2. Head(toBridge[t]).len \in Nat
  BY <1>1 DEF EngineMsg
<1>3. unacked' = [unacked EXCEPT ![r] =
                    IF r \in inflight THEN unacked[r] - Head(toBridge[t]).len ELSE @]
  BY DEF ReceiveAck
<1> QED BY <1>2, <1>3 DEF TypeOK, StreamTypeOK

LEMMA WindowStep == TypeOK /\ WindowRespected /\ [Next]_vars => WindowRespected'
<1> SUFFICES ASSUME TypeOK, WindowRespected, [Next]_vars PROVE WindowRespected'
  OBVIOUS
<1> USE RequestsAssumption, BridgeAssumption
<1>1. ASSUME UNCHANGED unacked PROVE WindowRespected'
  BY <1>1 DEF WindowRespected
<1>2. ASSUME NEW r \in Req, DeliverSlice(r) PROVE WindowRespected'
  <2>1. unacked[r] \in Int /\ unacked[r] < Window /\ rem[r] \in Nat
    BY <1>2 DEF DeliverSlice, TypeOK, StreamTypeOK
  <2> DEFINE n == IF rem[r] < Slice THEN rem[r] ELSE Slice
  <2>2. n \in Nat /\ n <= Slice /\ unacked' = [unacked EXCEPT ![r] = @ + n]
    BY <1>2, <2>1 DEF DeliverSlice
  <2> HIDE DEF n
  <2>3. unacked[r] + n < Window + Slice
    BY <2>1, <2>2
  <2> QED BY <2>2, <2>3 DEF WindowRespected, TypeOK, StreamTypeOK
<1>3. ASSUME NEW t \in Tab, NEW r \in Req, ReceiveAck(t, r) PROVE WindowRespected'
  <2>1. unacked \in [Req -> Int] /\ unacked' \in [Req -> Int]
    BY <1>3, ReceiveStep DEF TypeOK, StreamTypeOK
  <2> QED BY <1>3, <2>1, ReceiveAckLowers DEF WindowRespected
<1>4. ASSUME NEW t \in Tab, PageTask(t) PROVE WindowRespected'
  <2>1. ASSUME EntryArrives(t) \/ \E u \in Url : TakeTimesOut(t, u) PROVE UNCHANGED unacked
    BY <2>1 DEF EntryArrives, TakeTimesOut, ResumeTake, streamVars
  <2>2. ASSUME NEW r \in Req, Refuse(t, r) \/ Begin(t, r) \/ ReceiveCancel(t, r)
        PROVE UNCHANGED unacked
    BY <2>2 DEF Refuse, Begin, ReceiveCancel, streamVars
  <2> QED BY <1>1, <1>3, <1>4, <2>1, <2>2 DEF PageTask
<1>5. ASSUME NEW r \in Req, RequestTask(r) PROVE WindowRespected'
  <2>1. ASSUME ~DeliverSlice(r) PROVE UNCHANGED unacked
    BY <1>5, <2>1 DEF RequestTask, BaseInstalled, BaseRejected, FetchSettles, ResumeTake,
         FetchAborted, ReadChunk, ReadEnd, ReadFails, IdleTimerFires, AwaitCredit, streamVars
  <2> QED BY <1>1, <1>2, <1>5, <2>1
<1>6. ASSUME NEW t \in Tab, BrowserTask(t) \/ EngineRun(t) \/ OpenTab(t) \/ CloseTab(t)
      PROVE UNCHANGED unacked
  BY <1>6 DEF BrowserTask, DnrBase, DnrAdd, DnrReject, DnrRemove, EngineRun, OpenTab, CloseTab,
              streamVars
<1>7. ASSUME NEW r \in Req, EngineStart(r) \/ EngineCancel(r) \/ Network(r) PROVE UNCHANGED unacked
  BY <1>7 DEF EngineStart, EngineCancel, Network, NetSend, NetAnswer, NetDrop, streamVars
<1>8. CASE UNCHANGED vars
  BY <1>1, <1>8 DEF vars, streamVars
<1> QED BY <1>1, <1>4, <1>5, <1>6, <1>7, <1>8 DEF Next

\* The window holds for every window, slice, chunk and response size, and any
\* number of concurrent requests and tabs, closing ones included.
THEOREM WindowIsRespected == Spec => []WindowRespected
<1>1. Init => WindowRespected
  BY BridgeAssumption DEF Init, WindowRespected
<1> QED BY <1>1, WindowStep, TypeCorrect, PTL DEF Spec

-----------------------------------------------------------------------------
(* The capture's queues and waiters.                                       *)

\* A sweep leaves an empty queue empty.
LEMMA SweptEmpty ==
  ASSUME TypeOK, NEW t \in Tab, NEW u \in Url, NEW cut \in Cuts(t), queues[t][u] = <<>>
  PROVE  Swept(t, cut)[u] = <<>>
<1>1. cut[u] \in Int /\ 0 <= cut[u]
  BY DEF Cuts
<1>2. Len(queues[t][u]) = 0
  OBVIOUS
<1>3. SubSeq(queues[t][u], cut[u] + 1, Len(queues[t][u])) = <<>>
  BY <1>1, <1>2, SubSeqEmpty
<1> QED BY <1>3 DEF Swept

LEMMA PushKeepsApart ==
  ASSUME TypeOK, QueueOrWaiters, NEW t \in Tab, NEW u \in Url, NEW e \in Entry,
         NEW cut \in Cuts(t), Push(t, u, e, cut)
  PROVE  QueueOrWaiters'
<1>1. Swept(t, cut) \in [Url -> Seq(Entry)]
  BY SweptType DEF TypeOK
<1>2. \A v \in Url : queues[t][v] = <<>> => Swept(t, cut)[v] = <<>>
  BY SweptEmpty
<1>3. ASSUME NEW s \in Tab, NEW v \in Url PROVE queues'[s][v] = <<>> \/ waiters'[s][v] = <<>>
  <2>1. queues[s][v] = <<>> \/ waiters[s][v] = <<>>
    BY DEF QueueOrWaiters
  <2>2. CASE s # t
    <3>1. queues'[s] = queues[s] /\ waiters'[s] = waiters[s]
      BY <2>2 DEF Push, TypeOK, CaptureTypeOK
    <3> QED BY <2>1, <3>1
  <2>3. CASE s = t /\ v # u
    <3>1. queues'[t][v] = Swept(t, cut)[v] /\ waiters'[t][v] = waiters[t][v]
      BY <1>1, <2>3 DEF Push, TypeOK, CaptureTypeOK
    <3> QED BY <1>2, <2>1, <2>3, <3>1
  <2>4. CASE s = t /\ v = u
    <3>1. CASE waiters[t][u] = <<>> /\ UNCHANGED waiters
      BY <2>4, <3>1
    <3>2. CASE waiters[t][u] # <<>> /\ queues' = [queues EXCEPT ![t] = Swept(t, cut)]
      <4>1. queues'[t][u] = Swept(t, cut)[u]
        BY <3>2 DEF TypeOK, CaptureTypeOK
      <4> QED BY <1>2, <2>1, <2>4, <3>2, <4>1
    <3> QED BY <3>1, <3>2 DEF Push
  <2> QED BY <2>2, <2>3, <2>4
<1> QED BY <1>3 DEF QueueOrWaiters

LEMMA CaptureKeepsApart ==
  ASSUME TypeOK, QueueOrWaiters, NEW t \in Tab, NEW u \in Url, NEW w,
         \/ Captured(t, u) /\ TakeCaptured(t, u)
         \/ ~Captured(t, u) /\ Wait(t, u, w)
         \/ GiveUp(t, u)
  PROVE  QueueOrWaiters'
<1>1. ASSUME NEW s \in Tab, NEW v \in Url PROVE queues'[s][v] = <<>> \/ waiters'[s][v] = <<>>
  <2>1. queues[s][v] = <<>> \/ waiters[s][v] = <<>>
    BY DEF QueueOrWaiters
  <2>2. CASE s # t \/ v # u
    <3>1. queues'[s][v] = queues[s][v] /\ waiters'[s][v] = waiters[s][v]
      BY <2>2 DEF TakeCaptured, Wait, GiveUp, TypeOK, CaptureTypeOK
    <3> QED BY <2>1, <3>1
  <2>3. CASE s = t /\ v = u
    <3>1. CASE Captured(t, u) /\ TakeCaptured(t, u)
      BY <2>1, <2>3, <3>1 DEF Captured, TakeCaptured
    <3>2. CASE ~Captured(t, u) /\ Wait(t, u, w)
      BY <2>3, <3>2 DEF Captured, Wait
    <3>3. CASE GiveUp(t, u)
      BY <2>1, <2>3, <3>3 DEF GiveUp
    <3> QED BY <3>1, <3>2, <3>3
  <2> QED BY <2>2, <2>3
<1> QED BY <1>1 DEF QueueOrWaiters

LEMMA ApartStep == TypeOK /\ QueueOrWaiters /\ [Next]_vars => QueueOrWaiters'
<1> SUFFICES ASSUME TypeOK, QueueOrWaiters, [Next]_vars PROVE QueueOrWaiters'
  OBVIOUS
<1> USE RequestsAssumption
<1>1. ASSUME UNCHANGED captureVars PROVE QueueOrWaiters'
  BY <1>1 DEF QueueOrWaiters, captureVars
<1>2. ASSUME NEW t \in Tab, EntryArrives(t) PROVE QueueOrWaiters'
  <2>1. Head(events[t]) \in Entry
    BY <1>2, HeadTailProperties DEF EntryArrives, TypeOK, BrowserTypeOK
  <2>2. UrlOf[Head(events[t]).req] \in Url
    BY <2>1 DEF Entry
  <2> QED BY <1>2, <2>1, <2>2, PushKeepsApart DEF EntryArrives
<1>3. ASSUME NEW t \in Tab, NEW u \in Url, TakeTimesOut(t, u) PROVE QueueOrWaiters'
  BY <1>3, CaptureKeepsApart DEF TakeTimesOut
<1>4. ASSUME NEW r \in Req, FetchSettles(r) PROVE QueueOrWaiters'
  BY <1>4, CaptureKeepsApart DEF FetchSettles
<1>5. ASSUME NEW t \in Tab, NEW r \in Req, ReceiveCancel(t, r) PROVE QueueOrWaiters'
  BY <1>1, <1>5, CaptureKeepsApart DEF ReceiveCancel, Discard
<1>6. ASSUME NEW t \in Tab, CloseTab(t) PROVE QueueOrWaiters'
  <2>1. ASSUME NEW s \in Tab, NEW v \in Url PROVE queues'[s][v] = <<>> \/ waiters'[s][v] = <<>>
    BY <1>6 DEF CloseTab, CaptureReset, TypeOK, CaptureTypeOK, QueueOrWaiters
  <2> QED BY <2>1 DEF QueueOrWaiters
<1>7. ASSUME NEW t \in Tab, BrowserTask(t) \/ EngineRun(t) \/ OpenTab(t)
      PROVE UNCHANGED captureVars
  BY <1>7 DEF BrowserTask, DnrBase, DnrAdd, DnrReject, DnrRemove, EngineRun, OpenTab
<1>8. ASSUME NEW t \in Tab, NEW r \in Req, Refuse(t, r) \/ Begin(t, r) \/ ReceiveAck(t, r)
      PROVE UNCHANGED captureVars
  BY <1>8 DEF Refuse, Begin, ReceiveAck
<1>9. ASSUME NEW r \in Req, RequestTask(r), ~FetchSettles(r) PROVE UNCHANGED captureVars
  BY <1>9 DEF RequestTask, BaseInstalled, BaseRejected, FetchAborted, ReadChunk, ReadEnd,
              ReadFails, IdleTimerFires, DeliverSlice, AwaitCredit
<1>10. ASSUME NEW r \in Req, EngineStart(r) \/ EngineCancel(r) \/ Network(r)
       PROVE UNCHANGED captureVars
  BY <1>10 DEF EngineStart, EngineCancel, Network, NetSend, NetAnswer, NetDrop
<1>11. CASE UNCHANGED vars
  BY <1>1, <1>11 DEF vars
<1> QED BY <1>1, <1>2, <1>3, <1>4, <1>5, <1>6, <1>7, <1>8, <1>9, <1>10, <1>11 DEF Next, PageTask

\* For any tabs, URLs and requests, cancelled ones and closing tabs included, no
\* captured entry sits in a queue while a take() of its URL waits.
THEOREM EntriesMeetWaiters == Spec => []QueueOrWaiters
<1>1. Init => QueueOrWaiters
  BY DEF Init, CaptureInit, QueueOrWaiters
<1> QED BY <1>1, ApartStep, TypeCorrect, PTL DEF Spec

-----------------------------------------------------------------------------
(* The inductive invariant under RuleIdsMatch.  A request's rule id is set *)
(* once, in Begin, which must not find the request in flight already: that *)
(* rests on its "begin" message being the only one, and on no other task   *)
(* touching a request that has not begun.                                  *)

\* What has begun: a request nobody asked for has not, one in flight has, and so
\* have the one a slice loop runs for and those a take() waits for.
AskedFirst == \A r \in Req : client[r] = "new" => pc[r] = "new"
InflightHasBegun == \A r \in inflight : pc[r] # "new"
RunningHasBegun == \A t \in Tab : running[t] # Nobody => pc[running[t]] # "new"
WaitersHaveBegun ==
  \A t \in Tab, u \in Url : \A i \in DOMAIN waiters[t][u] :
    waiters[t][u][i] # Nobody => pc[waiters[t][u][i]] # "new"

Started == AskedFirst /\ InflightHasBegun /\ RunningHasBegun /\ WaitersHaveBegun

\* Message i of tab t's channel begins a request.
Begins(t, i) == toBridge[t][i].op = "begin"

\* A "begin" on its way is the first and the only one of its request.
BeginsOnce ==
  \A t \in Tab : \A i \in DOMAIN toBridge[t] : Begins(t, i) =>
    /\ TabOf[toBridge[t][i].id] = t
    /\ client[toBridge[t][i].id] # "new"
    /\ pc[toBridge[t][i].id] = "new"
    /\ \A j \in DOMAIN toBridge[t] :
         Begins(t, j) /\ toBridge[t][j].id = toBridge[t][i].id => j = i

\* A tab adds rules for its own requests only.
AddsAreOwn ==
  \A t \in Tab : \A i \in DOMAIN dnrOps[t] :
    dnrOps[t][i].op = "add" => TabOf[dnrOps[t][i].rule.req] = t

RuleInv == Started /\ BeginsOnce /\ AddsAreOwn /\ RuleIdsMatch

LEMMA TailIndex ==
  ASSUME NEW S, NEW s \in Seq(S), s # <<>>
  PROVE  \A i \in DOMAIN Tail(s) : i + 1 \in DOMAIN s /\ Tail(s)[i] = s[i + 1] /\ i \in Nat
BY HeadTailProperties

LEMMA AppendIndex ==
  ASSUME NEW S, NEW s \in Seq(S), NEW e \in S
  PROVE  \A i \in DOMAIN Append(s, e) :
           \/ i \in DOMAIN s /\ Append(s, e)[i] = s[i]
           \/ i = Len(s) + 1 /\ Append(s, e)[i] = e
OBVIOUS

\* No request begins in this step, and none becomes new again.
NoneBegins == \A r \in Req : pc'[r] = "new" <=> pc[r] = "new"

LEMMA GoesOn ==
  ASSUME TypeOK, NEW r \in Req, NEW to \in Await \ {"new"}, pc[r] # "new", Goes(r, to)
  PROVE  NoneBegins
BY DEF TypeOK, ProgressTypeOK, Goes, NoneBegins

LEMMA ResumeGoes ==
  ASSUME TypeOK, NEW r \in Req, NEW resolved, NEW seen, ResumeTake(r, resolved, seen)
  PROVE  Goes(r, "over") \/ Goes(r, "read")
BY DEF ResumeTake, Respond

\* A take() that resumes a request resumes one that has begun.
LEMMA WaiterHasBegun ==
  ASSUME TypeOK, Started, NEW t \in Tab, NEW u \in Url, waiters[t][u] # <<>>,
         Head(waiters[t][u]) # Nobody
  PROVE  Head(waiters[t][u]) \in Req /\ pc[Head(waiters[t][u])] # "new"
<1>1. waiters[t][u] \in Seq(Req \cup {Nobody})
  BY DEF TypeOK, CaptureTypeOK
<1>2. Head(waiters[t][u]) = waiters[t][u][1] /\ 1 \in DOMAIN waiters[t][u]
  BY <1>1
<1>3. Head(waiters[t][u]) \in Req
  BY <1>1, HeadTailProperties
<1> QED BY <1>2, <1>3 DEF Started, WaitersHaveBegun

LEMMA CaptureBeginsNone ==
  ASSUME TypeOK, Started, NEW t \in Tab, EntryArrives(t) \/ \E u \in Url : TakeTimesOut(t, u)
  PROVE  NoneBegins
<1> USE RequestsAssumption
<1>1. ASSUME UNCHANGED <<progressVars, streamVars, ruleVars, toEngine>> PROVE NoneBegins
  BY <1>1 DEF NoneBegins, progressVars
<1>2. ASSUME NEW w \in Req, pc[w] # "new", NEW resolved, NEW seen, ResumeTake(w, resolved, seen)
      PROVE NoneBegins
  BY <1>2, ResumeGoes, GoesOn DEF Await
<1>3. CASE EntryArrives(t)
  <2> DEFINE e == Head(events[t])
             u == UrlOf[e.req]
             w == Head(waiters[t][u])
  <2>1. e \in Entry
    BY <1>3, HeadTailProperties DEF EntryArrives, TypeOK, BrowserTypeOK
  <2>2. u \in Url
    BY <2>1 DEF Entry
  <2>3. CASE waiters[t][u] # <<>> /\ w # Nobody /\ ResumeTake(w, pc[w] = "takeOk", e.redirect)
    <3> HIDE DEF u, e
    <3>1. w \in Req /\ pc[w] # "new"
      BY <2>2, <2>3, WaiterHasBegun
    <3> HIDE DEF w
    <3> QED BY <1>2, <2>3, <3>1
  <2> QED BY <1>1, <1>3, <2>3 DEF EntryArrives
<1>4. ASSUME NEW u \in Url, TakeTimesOut(t, u) PROVE NoneBegins
  <2> DEFINE w == Head(waiters[t][u])
  <2>1. CASE w # Nobody /\ ResumeTake(w, pc[w] = "takeOk", FALSE)
    <3>1. w \in Req /\ pc[w] # "new"
      BY <1>4, <2>1, WaiterHasBegun DEF TakeTimesOut, GiveUp
    <3> HIDE DEF w
    <3> QED BY <1>2, <2>1, <3>1
  <2> QED BY <1>1, <1>4, <2>1 DEF TakeTimesOut
<1> QED BY <1>3, <1>4

LEMMA RequestTaskBeginsNone ==
  ASSUME TypeOK, Started, NEW r \in Req, RequestTask(r)
  PROVE  NoneBegins
<1> USE RequestsAssumption DEF Await
<1>1. CASE BaseInstalled(r) \/ BaseRejected(r)
  <2>1. pc[r] # "new" /\ (Goes(r, "add") \/ Goes(r, "fetch") \/ Goes(r, "over"))
    BY <1>1 DEF BaseInstalled, BaseRejected, Due, StartFetch
  <2> QED BY <2>1, GoesOn
<1>2. CASE FetchSettles(r)
  <2>1. pc[r] # "new"
    BY <1>2 DEF FetchSettles
  <2>2. Goes(r, "over") \/ Goes(r, "read") \/ Goes(r, "takeOk") \/ Goes(r, "takeErr")
    BY <1>2, ResumeGoes DEF FetchSettles
  <2> QED BY <2>1, <2>2, GoesOn
<1>3. CASE FetchAborted(r) \/ ReadEnd(r) \/ ReadFails(r)
  <2>1. pc[r] # "new" /\ Goes(r, "over")
    BY <1>3 DEF FetchAborted, ReadEnd, ReadFails
  <2> QED BY <2>1, GoesOn
<1>4. CASE ReadChunk(r)
  <2>1. pc[r] # "new" /\ (Goes(r, "over") \/ Goes(r, "slice"))
    BY <1>4 DEF ReadChunk
  <2> QED BY <2>1, GoesOn
<1>5. CASE IdleTimerFires(r)
  BY <1>5 DEF IdleTimerFires, NoneBegins
<1>6. CASE DeliverSlice(r) \/ AwaitCredit(r)
  <2>1. running[TabOf[r]] = r
    BY <1>6 DEF DeliverSlice, AwaitCredit
  <2>2. pc[r] # "new"
    BY <2>1 DEF Started, RunningHasBegun
  <2>3. Goes(r, "read") \/ Goes(r, "slice") \/ Goes(r, "credit")
    BY <1>6 DEF DeliverSlice, AwaitCredit
  <2> QED BY <2>2, <2>3, GoesOn
<1> QED BY <1>1, <1>2, <1>3, <1>4, <1>5, <1>6 DEF RequestTask

LEMMA OthersBeginNone ==
  ASSUME TypeOK, Started,
         \/ \E t \in Tab : BrowserTask(t) \/ EngineRun(t) \/ OpenTab(t)
         \/ \E t \in Tab, r \in Req : ReceiveCancel(t, r) \/ ReceiveAck(t, r)
         \/ \E r \in Req : EngineStart(r) \/ EngineCancel(r) \/ Network(r)
  PROVE  NoneBegins
<1> USE RequestsAssumption
<1>1. ASSUME UNCHANGED pc PROVE NoneBegins
  BY <1>1 DEF NoneBegins
<1>2. ASSUME NEW t \in Tab, DnrAdd(t) PROVE NoneBegins
  <2> DEFINE r == NextOp(t).rule.req
  <2>1. r \in Req
    BY <1>2, AddedRuleType DEF DnrAdd, TypeOK
  <2>2. (pc[r] = "add" /\ Goes(r, "fetch")) \/ UNCHANGED pc
    BY <1>2 DEF DnrAdd, StartFetch
  <2> HIDE DEF r
  <2> QED BY <1>1, <2>1, <2>2, GoesOn DEF Await
<1>3. ASSUME NEW t \in Tab, DnrReject(t) PROVE NoneBegins
  <2> DEFINE r == NextOp(t).rule.req
  <2>1. pc' = [pc EXCEPT ![r] = IF @ = "add" THEN "over" ELSE @]
    BY <1>3 DEF DnrReject
  <2> HIDE DEF r
  <2> QED BY <2>1 DEF TypeOK, ProgressTypeOK, NoneBegins
<1>4. ASSUME NEW t \in Tab, DnrBase(t) \/ DnrRemove(t) \/ EngineRun(t) \/ OpenTab(t)
      PROVE UNCHANGED pc
  BY <1>4 DEF DnrBase, DnrRemove, EngineRun, OpenTab, progressVars
<1>5. ASSUME NEW t \in Tab, NEW r \in Req, ReceiveCancel(t, r) \/ ReceiveAck(t, r)
      PROVE NoneBegins
  BY <1>5 DEF ReceiveCancel, ReceiveAck, TypeOK, ProgressTypeOK, NoneBegins
<1>6. ASSUME NEW r \in Req, EngineStart(r) \/ EngineCancel(r) \/ Network(r) PROVE UNCHANGED pc
  BY <1>6 DEF EngineStart, EngineCancel, Network, NetSend, NetAnswer, NetDrop, progressVars
<1> QED BY <1>1, <1>2, <1>3, <1>4, <1>5, <1>6 DEF BrowserTask

LEMMA BeginGoes ==
  ASSUME TypeOK, NEW t \in Tab, NEW r \in Req, Refuse(t, r) \/ Begin(t, r)
  PROVE  Receives(t, "begin", r) /\ (Goes(r, "over") \/ Goes(r, "base") \/ Goes(r, "add"))
<1>1. CASE Refuse(t, r)
  BY <1>1 DEF Refuse
<1>2. CASE Begin(t, r)
  BY <1>2 DEF Begin
<1> QED BY <1>1, <1>2

\* What the oldest message of a channel begins is its tab's, was asked for, has
\* not begun, and no other message begins it.
LEMMA BeginIsFirst ==
  ASSUME TypeOK, BeginsOnce, NEW t \in Tab, NEW r \in Req, Receives(t, "begin", r)
  PROVE  /\ TabOf[r] = t /\ client[r] # "new" /\ pc[r] = "new"
         /\ \A j \in DOMAIN toBridge[t] : Begins(t, j) /\ toBridge[t][j].id = r => j = 1
<1>1. toBridge[t] \in Seq(EngineMsg) /\ toBridge[t] # <<>>
  BY DEF Receives, TypeOK, NetTypeOK
<1>2. 1 \in DOMAIN toBridge[t] /\ Head(toBridge[t]) = toBridge[t][1]
  BY <1>1
<1>3. Begins(t, 1) /\ toBridge[t][1].id = r
  BY <1>2 DEF Receives, Begins
<1> QED BY <1>2, <1>3 DEF BeginsOnce

LEMMA NeverNewAgain ==
  ASSUME TypeOK, Started, Next
  PROVE  \A r \in Req : pc[r] # "new" => pc'[r] # "new"
<1> SUFFICES ASSUME ~NoneBegins PROVE \A r \in Req : pc[r] # "new" => pc'[r] # "new"
  BY DEF NoneBegins
<1>1. ASSUME NEW t \in Tab, NEW r \in Req, Refuse(t, r) \/ Begin(t, r)
      PROVE  \A x \in Req : pc[x] # "new" => pc'[x] # "new"
  BY <1>1, BeginGoes DEF Goes, TypeOK, ProgressTypeOK
<1>2. ASSUME NEW t \in Tab, CloseTab(t)
      PROVE  \A x \in Req : pc[x] # "new" => pc'[x] # "new"
  BY <1>2 DEF CloseTab
<1> QED BY <1>1, <1>2, CaptureBeginsNone, RequestTaskBeginsNone, OthersBeginNone
        DEF Next, PageTask

LEMMA ClientNeverNew ==
  ASSUME TypeOK, Next
  PROVE  \A r \in Req : client'[r] = "new" => client[r] = "new"
<1> USE RequestsAssumption
<1>1. ASSUME NEW t \in Tab, EngineReceive(t) PROVE \A r \in Req : client'[r] = "new" => client[r] = "new"
  <2>1. Head(toEngine[t]).id \in Req
    BY <1>1, HeadTailProperties DEF EngineReceive, TypeOK, NetTypeOK, BridgeMsg
  <2> QED BY <1>1, <2>1 DEF EngineReceive, NetResponse, NetData, NetTerminal, TypeOK, NetTypeOK
<1>2. ASSUME NEW r \in Req, EngineStart(r) \/ EngineCancel(r)
      PROVE \A x \in Req : client'[x] = "new" => client[x] = "new"
  BY <1>2 DEF EngineStart, EngineCancel, NetBridgeStart, NetBridgeCancel, TypeOK, NetTypeOK
<1>3. ASSUME NEW t \in Tab, CloseTab(t) PROVE \A x \in Req : client'[x] = "new" => client[x] = "new"
  BY <1>3 DEF CloseTab
<1>4. ASSUME NEW t \in Tab, PageTask(t) \/ BrowserTask(t) \/ OpenTab(t) PROVE UNCHANGED client
  BY <1>4 DEF PageTask, EntryArrives, TakeTimesOut, Refuse, Begin, ReceiveCancel, ReceiveAck,
              BrowserTask, DnrBase, DnrAdd, DnrReject, DnrRemove, OpenTab, engineVars
<1>5. ASSUME NEW r \in Req, RequestTask(r) \/ Network(r) PROVE UNCHANGED client
  BY <1>5 DEF RequestTask, BaseInstalled, BaseRejected, FetchSettles, FetchAborted, ReadChunk,
              ReadEnd, ReadFails, IdleTimerFires, DeliverSlice, AwaitCredit, Network, NetSend,
              NetAnswer, NetDrop, engineVars
<1> QED BY <1>1, <1>2, <1>3, <1>4, <1>5 DEF Next, EngineRun

\* Finish, alone or in Fail, only takes requests out of flight.
LEMMA InflightShrinks ==
  ASSUME TypeOK, Next, \A t \in Tab, r \in Req : ~Begin(t, r)
  PROVE  inflight' \subseteq inflight
<1>1. ASSUME NEW t \in Tab, PageTask(t) PROVE inflight' \subseteq inflight
  BY <1>1 DEF PageTask, EntryArrives, TakeTimesOut, Refuse, ReceiveCancel, ReceiveAck,
              ResumeTake, Respond, Fail, Finish, progressVars
<1>2. ASSUME NEW t \in Tab, BrowserTask(t) \/ EngineRun(t) \/ OpenTab(t) \/ CloseTab(t)
      PROVE inflight' \subseteq inflight
  BY <1>2 DEF BrowserTask, DnrBase, DnrAdd, DnrReject, DnrRemove, EngineRun, OpenTab, CloseTab,
              progressVars
<1>3. ASSUME NEW r \in Req, EngineStart(r) \/ EngineCancel(r) \/ Network(r)
      PROVE inflight' \subseteq inflight
  BY <1>3 DEF EngineStart, EngineCancel, Network, NetSend, NetAnswer, NetDrop, progressVars
<1>4. ASSUME NEW r \in Req, RequestTask(r) PROVE inflight' \subseteq inflight
  BY <1>4 DEF RequestTask, BaseInstalled, BaseRejected, FetchSettles, FetchAborted, ReadChunk,
              ReadEnd, ReadFails, IdleTimerFires, DeliverSlice, AwaitCredit, ResumeTake, Respond,
              Fail, Finish
<1> QED BY <1>1, <1>2, <1>3, <1>4 DEF Next

LEMMA AskedStep == TypeOK /\ Started /\ BeginsOnce /\ Next => AskedFirst'
<1> SUFFICES ASSUME TypeOK, Started, BeginsOnce, Next PROVE AskedFirst'
  OBVIOUS
<1> SUFFICES ASSUME NEW x \in Req, client'[x] = "new" PROVE pc'[x] = "new"
  BY DEF AskedFirst
<1>1. client[x] = "new" /\ pc[x] = "new"
  BY ClientNeverNew DEF Started, AskedFirst
<1>2. CASE NoneBegins
  BY <1>1, <1>2 DEF NoneBegins
<1>3. ASSUME NEW t \in Tab, NEW r \in Req, Refuse(t, r) \/ Begin(t, r) PROVE pc'[x] = "new"
  <2>1. x # r
    BY <1>1, <1>3, BeginGoes, BeginIsFirst
  <2> QED BY <1>1, <1>3, <2>1, BeginGoes DEF Goes, TypeOK, ProgressTypeOK
<1>4. ASSUME NEW t \in Tab, CloseTab(t) PROVE pc'[x] = "new"
  BY <1>1, <1>4 DEF CloseTab
<1> QED BY <1>2, <1>3, <1>4, CaptureBeginsNone, RequestTaskBeginsNone, OthersBeginNone
        DEF Next, PageTask

LEMMA InflightStep == TypeOK /\ Started /\ Next => InflightHasBegun'
<1> SUFFICES ASSUME TypeOK, Started, Next PROVE InflightHasBegun'
  OBVIOUS
<1>1. inflight \subseteq Req
  BY DEF TypeOK, ProgressTypeOK
<1>2. CASE inflight' \subseteq inflight
  BY <1>1, <1>2, NeverNewAgain DEF Started, InflightHasBegun
<1>3. ASSUME NEW t \in Tab, NEW r \in Req, Begin(t, r) PROVE InflightHasBegun'
  <2>1. pc'[r] # "new"
    BY <1>3, BeginGoes DEF Goes, TypeOK, ProgressTypeOK
  <2>2. inflight' = inflight \cup {r}
    BY <1>3 DEF Begin
  <2> QED BY <1>1, <2>1, <2>2, NeverNewAgain DEF Started, InflightHasBegun
<1> QED BY <1>2, <1>3, InflightShrinks

\* A slice loop starts for a request that has begun; one that stops leaves none.
LEMMA RunningStep == TypeOK /\ Started /\ Next => RunningHasBegun'
<1> SUFFICES ASSUME TypeOK, Started, Next PROVE RunningHasBegun'
  OBVIOUS
<1> USE RequestsAssumption
<1>1. running \in [Tab -> Req \cup {Nobody}] /\ pc \in [Req -> Await]
  BY DEF TypeOK, StreamTypeOK, ProgressTypeOK
<1> DEFINE Fine(s) == \/ running'[s] = running[s] \/ running'[s] = Nobody
                      \/ pc'[running'[s]] # "new"
<1>2. SUFFICES ASSUME NEW s \in Tab PROVE Fine(s)
  <2>1. ASSUME NEW s \in Tab, running'[s] = running[s], running[s] # Nobody
        PROVE pc'[running[s]] # "new"
    <3>1. running[s] \in Req
      BY <1>1, <2>1
    <3> QED BY <2>1, <3>1, NeverNewAgain DEF Started, RunningHasBegun
  <2> QED BY <1>2, <2>1 DEF RunningHasBegun
<1>3. CASE UNCHANGED running
  BY <1>3
<1>4. ASSUME NEW r \in Req, ReadChunk(r) PROVE Fine(s)
  <2>1. UNCHANGED running \/ (Goes(r, "slice") /\ running' = [running EXCEPT ![TabOf[r]] = r])
    BY <1>4 DEF ReadChunk
  <2> QED BY <1>1, <2>1 DEF Goes
<1>5. ASSUME NEW r \in Req, DeliverSlice(r) \/ AwaitCredit(r) PROVE Fine(s)
  BY <1>1, <1>5 DEF DeliverSlice, AwaitCredit
<1>6. ASSUME NEW t \in Tab, NEW r \in Req, ReceiveAck(t, r) PROVE Fine(s)
  BY <1>1, <1>6 DEF ReceiveAck
<1>7. ASSUME NEW t \in Tab, CloseTab(t) PROVE Fine(s)
  BY <1>1, <1>7 DEF CloseTab
<1>8. ASSUME NEW t \in Tab, PageTask(t), \A r \in Req : ~ReceiveAck(t, r)
      PROVE UNCHANGED running
  BY <1>8 DEF PageTask, EntryArrives, TakeTimesOut, Refuse, Begin, ReceiveCancel, ResumeTake,
              streamVars
<1>9. ASSUME NEW t \in Tab, BrowserTask(t) \/ EngineRun(t) \/ OpenTab(t)
      PROVE UNCHANGED running
  BY <1>9 DEF BrowserTask, DnrBase, DnrAdd, DnrReject, DnrRemove, EngineRun, OpenTab, streamVars
<1>10. ASSUME NEW r \in Req, EngineStart(r) \/ EngineCancel(r) \/ Network(r)
       PROVE UNCHANGED running
  BY <1>10 DEF EngineStart, EngineCancel, Network, NetSend, NetAnswer, NetDrop, streamVars
<1>11. ASSUME NEW r \in Req, RequestTask(r), ~ReadChunk(r), ~DeliverSlice(r), ~AwaitCredit(r)
       PROVE UNCHANGED running
  BY <1>11 DEF RequestTask, BaseInstalled, BaseRejected, FetchSettles, FetchAborted, ReadEnd,
               ReadFails, IdleTimerFires, ResumeTake, streamVars
<1> QED BY <1>3, <1>4, <1>5, <1>6, <1>7, <1>8, <1>9, <1>10, <1>11 DEF Next

\* A take() starts to wait for nobody, or for a request whose fetch has settled.
LEMMA WaitersStep == TypeOK /\ Started /\ Next => WaitersHaveBegun'
<1> SUFFICES ASSUME TypeOK, Started, Next PROVE WaitersHaveBegun'
  OBVIOUS
<1> USE RequestsAssumption
<1>1. waiters \in [Tab -> [Url -> Seq(Req \cup {Nobody})]]
  BY DEF TypeOK, CaptureTypeOK
<1>2. \A t \in Tab, u \in Url : \A i \in DOMAIN waiters[t][u] :
        waiters[t][u][i] = Nobody \/ pc'[waiters[t][u][i]] # "new"
  <2>1. ASSUME NEW t \in Tab, NEW u \in Url, NEW i \in DOMAIN waiters[t][u],
               waiters[t][u][i] # Nobody
        PROVE  waiters[t][u][i] \in Req
    BY <1>1, <2>1
  <2> QED BY <2>1, NeverNewAgain DEF Started, WaitersHaveBegun
<1>3. CASE UNCHANGED waiters
  BY <1>2, <1>3 DEF WaitersHaveBegun
<1>4. ASSUME NEW t \in Tab, NEW u \in Url, waiters[t][u] # <<>>,
             waiters' = [waiters EXCEPT ![t][u] = Tail(@)]
      PROVE  WaitersHaveBegun'
  <2>1. ASSUME NEW s \in Tab, NEW v \in Url, NEW i \in DOMAIN waiters'[s][v]
        PROVE  waiters'[s][v][i] = Nobody \/ pc'[waiters'[s][v][i]] # "new"
    <3>1. CASE s = t /\ v = u
      <4>1. waiters[t][u] \in Seq(Req \cup {Nobody})
        BY <1>1
      <4>2. waiters'[s][v] = Tail(waiters[t][u])
        BY <1>1, <1>4, <3>1
      <4>3. i + 1 \in DOMAIN waiters[t][u] /\ Tail(waiters[t][u])[i] = waiters[t][u][i + 1]
        BY <1>4, <2>1, <4>1, <4>2, TailIndex
      <4> QED BY <1>2, <4>2, <4>3
    <3>2. CASE s # t \/ v # u
      BY <1>1, <1>2, <1>4, <3>2
    <3> QED BY <3>1, <3>2
  <2> QED BY <2>1 DEF WaitersHaveBegun
<1>5. ASSUME NEW t \in Tab, NEW u \in Url, NEW w \in Req \cup {Nobody},
             w = Nobody \/ pc'[w] # "new", Wait(t, u, w)
      PROVE  WaitersHaveBegun'
  <2>1. ASSUME NEW s \in Tab, NEW v \in Url, NEW i \in DOMAIN waiters'[s][v]
        PROVE  waiters'[s][v][i] = Nobody \/ pc'[waiters'[s][v][i]] # "new"
    <3>1. CASE s = t /\ v = u
      <4>1. waiters[t][u] \in Seq(Req \cup {Nobody})
        BY <1>1
      <4>2. waiters'[s][v] = Append(waiters[t][u], w)
        BY <1>1, <1>5, <3>1 DEF Wait
      <4>3. \/ i \in DOMAIN waiters[t][u] /\ Append(waiters[t][u], w)[i] = waiters[t][u][i]
            \/ Append(waiters[t][u], w)[i] = w
        BY <2>1, <4>1, <4>2, AppendIndex
      <4> QED BY <1>2, <1>5, <4>2, <4>3
    <3>2. CASE s # t \/ v # u
      BY <1>1, <1>2, <1>5, <3>2 DEF Wait
    <3> QED BY <3>1, <3>2
  <2> QED BY <2>1 DEF WaitersHaveBegun
<1>6. ASSUME NEW t \in Tab, EntryArrives(t) PROVE WaitersHaveBegun'
  <2>1. PICK cut \in Cuts(t) : Push(t, UrlOf[Head(events[t]).req], Head(events[t]), cut)
    BY <1>6 DEF EntryArrives
  <2>2. Head(events[t]) \in Entry
    BY <1>6, HeadTailProperties DEF EntryArrives, TypeOK, BrowserTypeOK
  <2>3. UrlOf[Head(events[t]).req] \in Url
    BY <2>2 DEF Entry
  <2> QED BY <1>3, <1>4, <2>1, <2>3 DEF Push
<1>7. ASSUME NEW t \in Tab, NEW u \in Url, TakeTimesOut(t, u) PROVE WaitersHaveBegun'
  BY <1>4, <1>7 DEF TakeTimesOut, GiveUp
<1>8. ASSUME NEW r \in Req, FetchSettles(r) PROVE WaitersHaveBegun'
  <2>1. CASE TakeCaptured(TabOf[r], UrlOf[r])
    BY <1>3, <2>1 DEF TakeCaptured
  <2>2. CASE /\ Wait(TabOf[r], UrlOf[r], r)
             /\ Goes(r, IF answer[r] \in {"ok", "synth"} THEN "takeOk" ELSE "takeErr")
    <3>1. pc'[r] # "new"
      BY <2>2 DEF Goes, TypeOK, ProgressTypeOK
    <3> QED BY <1>5, <2>2, <3>1
  <2> QED BY <1>8, <2>1, <2>2 DEF FetchSettles
<1>9. ASSUME NEW t \in Tab, NEW r \in Req, ReceiveCancel(t, r) PROVE WaitersHaveBegun'
  <2>1. CASE UNCHANGED waiters
    BY <1>3, <2>1
  <2>2. CASE Wait(t, UrlOf[r], Nobody)
    BY <1>5, <2>2
  <2> QED BY <1>9, <2>1, <2>2 DEF ReceiveCancel, Discard, TakeCaptured, captureVars
<1>10. ASSUME NEW t \in Tab, CloseTab(t) PROVE WaitersHaveBegun'
  <2>1. waiters' = [waiters EXCEPT ![t] = [u \in Url |-> <<>>]]
    BY <1>10 DEF CloseTab, CaptureReset
  <2>2. ASSUME NEW s \in Tab, NEW v \in Url, NEW i \in DOMAIN waiters'[s][v]
        PROVE  waiters'[s][v][i] = Nobody \/ pc'[waiters'[s][v][i]] # "new"
    <3>1. CASE s # t
      BY <1>1, <1>2, <2>1, <3>1
    <3>2. CASE s = t
      <4>1. waiters'[s][v] = <<>>
        BY <1>1, <2>1, <3>2
      <4> QED BY <4>1
    <3> QED BY <3>1, <3>2
  <2> QED BY <2>2 DEF WaitersHaveBegun
<1>11. ASSUME NEW t \in Tab, BrowserTask(t) \/ EngineRun(t) \/ OpenTab(t)
       PROVE UNCHANGED waiters
  BY <1>11 DEF BrowserTask, DnrBase, DnrAdd, DnrReject, DnrRemove, EngineRun, OpenTab, captureVars
<1>12. ASSUME NEW t \in Tab, NEW r \in Req, Refuse(t, r) \/ Begin(t, r) \/ ReceiveAck(t, r)
       PROVE UNCHANGED waiters
  BY <1>12 DEF Refuse, Begin, ReceiveAck, captureVars
<1>13. ASSUME NEW r \in Req, RequestTask(r), ~FetchSettles(r) PROVE UNCHANGED waiters
  BY <1>13 DEF RequestTask, BaseInstalled, BaseRejected, FetchAborted, ReadChunk, ReadEnd,
               ReadFails, IdleTimerFires, DeliverSlice, AwaitCredit, captureVars
<1>14. ASSUME NEW r \in Req, EngineStart(r) \/ EngineCancel(r) \/ Network(r)
       PROVE UNCHANGED waiters
  BY <1>14 DEF EngineStart, EngineCancel, Network, NetSend, NetAnswer, NetDrop, captureVars
<1> QED BY <1>3, <1>6, <1>7, <1>8, <1>9, <1>10, <1>11, <1>12, <1>13, <1>14 DEF Next, PageTask

LEMMA StartedStep == TypeOK /\ Started /\ BeginsOnce /\ Next => Started'
BY AskedStep, InflightStep, RunningStep, WaitersStep DEF Started

\* What a step may do to the engine's messages to tab t, but for EngineStart: take
\* the oldest, drop them all, or add one that begins no request.
Kept(t) ==
  \/ toBridge'[t] = toBridge[t]
  \/ toBridge'[t] = <<>>
  \/ toBridge[t] # <<>> /\ toBridge'[t] = Tail(toBridge[t])
  \/ \E m \in EngineMsg : m.op # "begin" /\ toBridge'[t] = Append(toBridge[t], m)

\* A "begin" that is on its way after such a step was on its way before, and is
\* still the only one of its request.
LEMMA KeptBegins ==
  ASSUME TypeOK, BeginsOnce, NEW t \in Tab, Kept(t), NEW i \in DOMAIN toBridge'[t],
         toBridge'[t][i].op = "begin"
  PROVE  /\ \E k \in DOMAIN toBridge[t] : toBridge[t][k] = toBridge'[t][i]
         /\ \A j \in DOMAIN toBridge'[t] :
              toBridge'[t][j].op = "begin" /\ toBridge'[t][j].id = toBridge'[t][i].id => j = i
<1> DEFINE Shift(d) == \A j \in DOMAIN toBridge'[t] : toBridge'[t][j].op = "begin" =>
              j + d \in DOMAIN toBridge[t] /\ toBridge[t][j + d] = toBridge'[t][j] /\ j \in Int
<1>1. toBridge[t] \in Seq(EngineMsg)
  BY DEF TypeOK, NetTypeOK
<1>2. ASSUME NEW d \in {0, 1}, Shift(d)
      PROVE  /\ \E k \in DOMAIN toBridge[t] : toBridge[t][k] = toBridge'[t][i]
             /\ \A j \in DOMAIN toBridge'[t] :
                  toBridge'[t][j].op = "begin" /\ toBridge'[t][j].id = toBridge'[t][i].id
                  => j = i
  <2>1. ASSUME NEW j \in DOMAIN toBridge'[t],
               toBridge'[t][j].op = "begin" /\ toBridge'[t][j].id = toBridge'[t][i].id
        PROVE  j = i
    <3>1. /\ j + d \in DOMAIN toBridge[t] /\ toBridge[t][j + d] = toBridge'[t][j] /\ j \in Int
          /\ i + d \in DOMAIN toBridge[t] /\ toBridge[t][i + d] = toBridge'[t][i] /\ i \in Int
      BY <1>2, <2>1
    <3>2. j + d = i + d
      BY <2>1, <3>1 DEF BeginsOnce, Begins
    <3> QED BY <3>1, <3>2
  <2> QED BY <1>2, <2>1
<1>3. CASE toBridge'[t] = toBridge[t]
  <2>1. Shift(0)
    BY <1>1, <1>3
  <2> QED BY <1>2, <2>1
<1>4. CASE toBridge[t] # <<>> /\ toBridge'[t] = Tail(toBridge[t])
  <2>1. Shift(1)
    BY <1>1, <1>4, TailIndex
  <2> QED BY <1>2, <2>1
<1>5. ASSUME NEW m \in EngineMsg, m.op # "begin", toBridge'[t] = Append(toBridge[t], m)
      PROVE  Shift(0)
  BY <1>1, <1>5, AppendIndex
<1>6. CASE toBridge'[t] = <<>>
  BY <1>6
<1> QED BY <1>2, <1>3, <1>4, <1>5, <1>6 DEF Kept

LEMMA ChannelStep ==
  ASSUME TypeOK, Next, \A r \in Req : ~EngineStart(r)
  PROVE  \A s \in Tab : Kept(s)
<1> USE RequestsAssumption
<1> SUFFICES ASSUME NEW s \in Tab PROVE Kept(s)
  OBVIOUS
<1>1. toBridge \in [Tab -> Seq(EngineMsg)]
  BY DEF TypeOK, NetTypeOK
<1>2. CASE UNCHANGED toBridge
  BY <1>2 DEF Kept
<1>3. ASSUME NEW t \in Tab, NEW r \in Req, NEW op, Receives(t, op, r) PROVE Kept(s)
  BY <1>1, <1>3 DEF Receives, Kept
<1>4. ASSUME NEW t \in Tab, NEW m \in EngineMsg, m.op # "begin", PostToBridge(t, m)
      PROVE  Kept(s)
  BY <1>1, <1>4 DEF PostToBridge, Kept
<1>5. ASSUME NEW r \in Req, EngineCancel(r) PROVE Kept(s)
  <2>1. Signal("cancel", r, 0) \in EngineMsg /\ Signal("cancel", r, 0).op # "begin"
    BY SignalType DEF Signal
  <2> QED BY <1>4, <1>5, <2>1 DEF EngineCancel, NetBridgeCancel
<1>6. ASSUME NEW t \in Tab, EngineRun(t) PROVE Kept(s)
  <2> DEFINE m == Head(toEngine[t])
  <2>1. m \in BridgeMsg
    BY <1>6, HeadTailProperties DEF EngineRun, EngineReceive, TypeOK, NetTypeOK
  <2>2. UNCHANGED toBridge \/ (m.op = "data" /\ PostToBridge(t, Signal("ack", m.id, m.len)))
    BY <1>6 DEF EngineRun, EngineReceive, NetResponse, NetData, NetTerminal
  <2>3. m.op = "data" => m.id \in Req /\ m.len \in Nat
    BY <2>1 DEF BridgeMsg
  <2> HIDE DEF m
  <2>4. m.op = "data" => /\ Signal("ack", m.id, m.len) \in EngineMsg
                         /\ Signal("ack", m.id, m.len).op # "begin"
    BY <2>3, SignalType DEF Signal
  <2> QED BY <1>2, <1>4, <2>2, <2>4
<1>7. ASSUME NEW t \in Tab, CloseTab(t) PROVE Kept(s)
  BY <1>1, <1>7 DEF CloseTab, Kept
<1>8. ASSUME NEW t \in Tab, NEW r \in Req,
             Refuse(t, r) \/ Begin(t, r) \/ ReceiveCancel(t, r) \/ ReceiveAck(t, r)
      PROVE  Kept(s)
  BY <1>3, <1>8 DEF Refuse, Begin, ReceiveCancel, ReceiveAck
<1>9. ASSUME NEW t \in Tab, EntryArrives(t) \/ (\E u \in Url : TakeTimesOut(t, u))
      PROVE  UNCHANGED toBridge
  BY <1>9 DEF EntryArrives, TakeTimesOut
<1>10. ASSUME NEW t \in Tab, BrowserTask(t) \/ OpenTab(t) PROVE UNCHANGED toBridge
  BY <1>10 DEF BrowserTask, DnrBase, DnrAdd, DnrReject, DnrRemove, OpenTab, channelVars
<1>11. ASSUME NEW r \in Req, RequestTask(r) \/ Network(r) PROVE UNCHANGED toBridge
  BY <1>11 DEF RequestTask, BaseInstalled, BaseRejected, FetchSettles, FetchAborted, ReadChunk,
               ReadEnd, ReadFails, IdleTimerFires, DeliverSlice, AwaitCredit, Network, NetSend,
               NetAnswer, NetDrop, channelVars
<1> QED BY <1>2, <1>5, <1>6, <1>7, <1>8, <1>9, <1>10, <1>11 DEF Next, PageTask

LEMMA BeginsStep == TypeOK /\ Started /\ BeginsOnce /\ Next => BeginsOnce'
<1> SUFFICES ASSUME TypeOK, Started, BeginsOnce, Next PROVE BeginsOnce'
  OBVIOUS
<1> USE RequestsAssumption
<1>1. toBridge \in [Tab -> Seq(EngineMsg)] /\ toBridge' \in [Tab -> Seq(EngineMsg)]
  BY TypeStep DEF TypeOK, NetTypeOK
\* A message that began nothing before begins nothing now.
<1>2. ASSUME \A s \in Tab : Kept(s),
             \A s \in Tab : \A i \in DOMAIN toBridge'[s] :
               toBridge'[s][i].op = "begin" /\ pc[toBridge'[s][i].id] = "new"
               => pc'[toBridge'[s][i].id] = "new"
      PROVE  BeginsOnce'
  <2> SUFFICES ASSUME NEW s \in Tab, NEW i \in DOMAIN toBridge'[s],
                      toBridge'[s][i].op = "begin"
               PROVE  /\ TabOf[toBridge'[s][i].id] = s
                      /\ client'[toBridge'[s][i].id] # "new"
                      /\ pc'[toBridge'[s][i].id] = "new"
                      /\ \A j \in DOMAIN toBridge'[s] :
                           toBridge'[s][j].op = "begin"
                           /\ toBridge'[s][j].id = toBridge'[s][i].id => j = i
    BY DEF BeginsOnce, Begins
  <2>1. PICK k \in DOMAIN toBridge[s] : toBridge[s][k] = toBridge'[s][i]
    BY <1>2, KeptBegins
  <2>2. \A j \in DOMAIN toBridge'[s] :
          toBridge'[s][j].op = "begin" /\ toBridge'[s][j].id = toBridge'[s][i].id => j = i
    BY <1>2, KeptBegins
  <2>3. toBridge[s][k] \in EngineMsg
    BY <1>1
  <2>4. toBridge[s][k].id \in Req
    BY <2>3 DEF EngineMsg
  <2>5. TabOf[toBridge[s][k].id] = s /\ client[toBridge[s][k].id] # "new"
        /\ pc[toBridge[s][k].id] = "new"
    BY <2>1 DEF BeginsOnce, Begins
  <2> QED BY <1>2, <2>1, <2>2, <2>4, <2>5, ClientNeverNew
<1>3. CASE NoneBegins /\ \A r \in Req : ~EngineStart(r)
  <2>1. ASSUME NEW s \in Tab, NEW i \in DOMAIN toBridge'[s]
        PROVE  toBridge'[s][i].id \in Req
    <3>1. toBridge'[s][i] \in EngineMsg
      BY <1>1, <2>1
    <3> QED BY <3>1 DEF EngineMsg
  <2> QED BY <1>2, <1>3, <2>1, ChannelStep DEF NoneBegins
<1>4. ASSUME NEW t \in Tab, NEW r \in Req, Refuse(t, r) \/ Begin(t, r) PROVE BeginsOnce'
  <2>1. Receives(t, "begin", r) /\ pc' = [pc EXCEPT ![r] = pc'[r]]
    BY <1>4, BeginGoes DEF Goes, TypeOK, ProgressTypeOK
  <2>2. toBridge' = [toBridge EXCEPT ![t] = Tail(@)] /\ toBridge[t] # <<>>
    BY <2>1 DEF Receives
  <2>3. \A s \in Tab : Kept(s)
    BY <1>1, <2>2 DEF Kept
  <2>4. ASSUME NEW s \in Tab, NEW i \in DOMAIN toBridge'[s], toBridge'[s][i].op = "begin"
        PROVE  toBridge'[s][i].id # r
    <3>1. CASE s = t
      <4>1. i + 1 \in DOMAIN toBridge[t] /\ toBridge'[s][i] = toBridge[t][i + 1] /\ i \in Nat
        BY <1>1, <2>2, <2>4, <3>1, TailIndex
      <4>2. i # 0
        BY <1>1, <2>4
      <4> QED BY <2>1, <2>4, <4>1, <4>2, BeginIsFirst DEF Begins
    <3>2. CASE s # t
      <4>1. PICK k \in DOMAIN toBridge[s] : toBridge[s][k] = toBridge'[s][i]
        BY <2>3, <2>4, KeptBegins
      <4> QED BY <2>1, <2>4, <3>2, <4>1, BeginIsFirst DEF BeginsOnce, Begins
    <3> QED BY <3>1, <3>2
  <2>5. ASSUME NEW x \in Req, x # r PROVE pc'[x] = pc[x]
    BY <2>1, <2>5 DEF TypeOK, ProgressTypeOK
  <2>6. ASSUME NEW s \in Tab, NEW i \in DOMAIN toBridge'[s] PROVE toBridge'[s][i].id \in Req
    <3>1. toBridge'[s][i] \in EngineMsg
      BY <1>1, <2>6
    <3> QED BY <3>1 DEF EngineMsg
  <2> QED BY <1>2, <2>3, <2>4, <2>5, <2>6
<1>5. ASSUME NEW t \in Tab, CloseTab(t) PROVE BeginsOnce'
  <2>1. toBridge' = [toBridge EXCEPT ![t] = <<>>]
    BY <1>5 DEF CloseTab
  <2>2. \A s \in Tab : Kept(s)
    BY <1>1, <2>1 DEF Kept
  <2>3. ASSUME NEW s \in Tab, NEW i \in DOMAIN toBridge'[s], toBridge'[s][i].op = "begin"
        PROVE  pc'[toBridge'[s][i].id] = pc[toBridge'[s][i].id]
    <3>1. s # t
      BY <1>1, <2>1, <2>3
    <3>2. PICK k \in DOMAIN toBridge[s] : toBridge[s][k] = toBridge'[s][i]
      BY <2>2, <2>3, KeptBegins
    <3>3. TabOf[toBridge[s][k].id] = s
      BY <2>3, <3>2 DEF BeginsOnce, Begins
    <3>4. toBridge[s][k] \in EngineMsg
      BY <1>1
    <3>5. toBridge[s][k].id \in Req
      BY <3>4 DEF EngineMsg
    <3> QED BY <1>5, <3>1, <3>2, <3>3, <3>5 DEF CloseTab
  <2> QED BY <1>2, <2>2, <2>3
<1>6. ASSUME NEW r \in Req, EngineStart(r) PROVE BeginsOnce'
  <2> DEFINE m == Signal("begin", r, 0)
             t == TabOf[r]
  <2>1. m \in EngineMsg /\ m.op = "begin" /\ m.id = r
    BY SignalType DEF Signal
  <2>2. /\ client[r] = "new" /\ client' = [client EXCEPT ![r] = "open"] /\ UNCHANGED pc
        /\ toBridge' = [toBridge EXCEPT ![t] = Append(@, m)]
    BY <1>6 DEF EngineStart, NetBridgeStart, PostToBridge, progressVars
  <2>3. pc[r] = "new" /\ client'[r] # "new"
    BY <2>2 DEF Started, AskedFirst, TypeOK, NetTypeOK
  <2> HIDE DEF m
  <2>4. ASSUME NEW s \in Tab, NEW i \in DOMAIN toBridge[s], Begins(s, i)
        PROVE  toBridge[s][i].id # r
    BY <2>2, <2>4 DEF BeginsOnce
  <2>5. ASSUME NEW s \in Tab, NEW i \in DOMAIN toBridge'[s]
        PROVE  \/ i \in DOMAIN toBridge[s] /\ toBridge'[s][i] = toBridge[s][i]
               \/ s = t /\ i = Len(toBridge[t]) + 1 /\ toBridge'[s][i] = m
    <3>1. CASE s = t
      BY <1>1, <2>1, <2>2, <2>5, <3>1, AppendIndex
    <3>2. CASE s # t
      BY <1>1, <2>2, <2>5, <3>2
    <3> QED BY <3>1, <3>2
  <2>6. ASSUME NEW s \in Tab, NEW i \in DOMAIN toBridge[s] PROVE toBridge[s][i].id \in Req
    <3>1. toBridge[s][i] \in EngineMsg
      BY <1>1, <2>6
    <3> QED BY <3>1 DEF EngineMsg
  <2> SUFFICES ASSUME NEW s \in Tab, NEW i \in DOMAIN toBridge'[s],
                      toBridge'[s][i].op = "begin"
               PROVE  /\ TabOf[toBridge'[s][i].id] = s
                      /\ client'[toBridge'[s][i].id] # "new"
                      /\ pc'[toBridge'[s][i].id] = "new"
                      /\ \A j \in DOMAIN toBridge'[s] :
                           toBridge'[s][j].op = "begin"
                           /\ toBridge'[s][j].id = toBridge'[s][i].id => j = i
    BY DEF BeginsOnce, Begins
  <2>7. CASE i \in DOMAIN toBridge[s] /\ toBridge'[s][i] = toBridge[s][i]
    <3>1. Begins(s, i) /\ toBridge[s][i].id \in Req /\ toBridge[s][i].id # r
      BY <2>4, <2>6, <2>7 DEF Begins
    <3>2. TabOf[toBridge[s][i].id] = s /\ client[toBridge[s][i].id] # "new"
          /\ pc[toBridge[s][i].id] = "new"
      BY <2>7, <3>1 DEF BeginsOnce
    <3>3. client'[toBridge[s][i].id] # "new" /\ pc'[toBridge[s][i].id] = "new"
      BY <2>2, <3>1, <3>2, ClientNeverNew
    <3>4. ASSUME NEW j \in DOMAIN toBridge'[s], toBridge'[s][j].op = "begin",
                 toBridge'[s][j].id = toBridge'[s][i].id
          PROVE  j = i
      <4>1. j \in DOMAIN toBridge[s] /\ toBridge'[s][j] = toBridge[s][j]
        BY <2>1, <2>5, <2>7, <3>1, <3>4
      <4> QED BY <2>7, <3>1, <3>4, <4>1 DEF BeginsOnce, Begins
    <3> QED BY <2>7, <3>2, <3>3, <3>4
  <2>8. CASE s = t /\ i = Len(toBridge[t]) + 1 /\ toBridge'[s][i] = m
    <3>1. ASSUME NEW j \in DOMAIN toBridge'[s], toBridge'[s][j].op = "begin",
                 toBridge'[s][j].id = r
          PROVE  j = i
      BY <2>4, <2>5, <2>8, <3>1 DEF Begins
    <3> QED BY <2>1, <2>2, <2>3, <2>8, <3>1
  <2> QED BY <2>5, <2>7, <2>8
<1> QED BY <1>3, <1>4, <1>5, <1>6, CaptureBeginsNone, RequestTaskBeginsNone, OthersBeginNone
        DEF Next, PageTask

\* The ops of a tab after a step are ops it had before, or rules for its own
\* requests, or no additions at all.
LEMMA AddsStep == TypeOK /\ BeginsOnce /\ AddsAreOwn /\ Next => AddsAreOwn'
<1> SUFFICES ASSUME TypeOK, BeginsOnce, AddsAreOwn, Next PROVE AddsAreOwn'
  OBVIOUS
<1> USE RequestsAssumption
<1> DEFINE Own(t, o) == o.op = "add" => TabOf[o.rule.req] = t
<1>1. /\ dnrOps \in [Tab -> Seq(DnrOp)]
      /\ \A t \in Tab : \A i \in DOMAIN dnrOps[t] : Own(t, dnrOps[t][i])
  BY DEF TypeOK, RulesTypeOK, AddsAreOwn
<1>2. CASE UNCHANGED dnrOps
  BY <1>1, <1>2 DEF AddsAreOwn
\* One tab's ops become a sequence of its own.
<1>3. ASSUME NEW t \in Tab, NEW q \in Seq(DnrOp), dnrOps' = [dnrOps EXCEPT ![t] = q],
             \A i \in DOMAIN q : Own(t, q[i])
      PROVE  AddsAreOwn'
  <2>1. ASSUME NEW s \in Tab, NEW i \in DOMAIN dnrOps'[s] PROVE Own(s, dnrOps'[s][i])
    <3>1. CASE s = t
      <4>1. dnrOps'[s] = q
        BY <1>1, <1>3, <3>1
      <4> QED BY <1>3, <3>1, <2>1, <4>1
    <3>2. CASE s # t
      <4>1. dnrOps'[s] = dnrOps[s]
        BY <1>1, <1>3, <3>2
      <4> QED BY <1>1, <2>1, <4>1
    <3> QED BY <3>1, <3>2
  <2> QED BY <2>1 DEF AddsAreOwn
<1>4. ASSUME NEW t \in Tab, NEW q \in Seq(DnrOp), \A i \in DOMAIN q : Own(t, q[i]),
             NEW o \in DnrOp, Own(t, o), dnrOps' = [dnrOps EXCEPT ![t] = Append(q, o)]
      PROVE  AddsAreOwn'
  <2>1. Append(q, o) \in Seq(DnrOp) /\ \A i \in DOMAIN Append(q, o) : Own(t, Append(q, o)[i])
    BY <1>4, AppendIndex
  <2> QED BY <1>3, <1>4, <2>1
<1>5. ASSUME NEW t \in Tab PROVE dnrOps[t] \in Seq(DnrOp)
  BY <1>1, <1>5
<1>6. ASSUME NEW t \in Tab, dnrOps[t] # <<>>
      PROVE  Tail(dnrOps[t]) \in Seq(DnrOp)
             /\ \A i \in DOMAIN Tail(dnrOps[t]) : Own(t, Tail(dnrOps[t])[i])
  BY <1>1, <1>5, <1>6, TailIndex
<1>7. ASSUME NEW r \in Req, Finish(r) PROVE AddsAreOwn'
  <2>1. CASE ruleId[r] # 0
             /\ dnrOps' = [dnrOps EXCEPT ![TabOf[r]] = Append(@, RemoveOp(ruleId[r]))]
    <3>1. ruleId[r] \in RuleId \cup {0}
      BY DEF TypeOK, ProgressTypeOK
    <3>2. RemoveOp(ruleId[r]) \in DnrOp /\ RemoveOp(ruleId[r]).op # "add"
      <4>1. RemoveOp(ruleId[r]).op = "remove"
        BY DEF RemoveOp
      <4> QED BY <3>1, <4>1 DEF DnrOp, RemoveOp
    <3>3. TabOf[r] \in Tab /\ dnrOps[TabOf[r]] \in Seq(DnrOp)
      BY <1>5
    <3>4. dnrOps' = [dnrOps EXCEPT ![TabOf[r]] = Append(dnrOps[TabOf[r]], RemoveOp(ruleId[r]))]
      BY <2>1
    <3> QED BY <1>1, <1>4, <3>2, <3>3, <3>4
  <2> QED BY <1>2, <1>7, <2>1 DEF Finish
<1>8. ASSUME NEW t \in Tab, NEW r \in Req, Begin(t, r) PROVE AddsAreOwn'
  <2>0. TabOf[r] = t
    BY <1>8, BeginGoes, BeginIsFirst
  <2>1. PICK id \in 0 .. MaxRuleId :
          /\ IF HasHeaders[r] \/ ~RidesBase(t, UAOf[r]) THEN AllocRuleId(t, id)
             ELSE id = 0 /\ UNCHANGED <<nextRuleId, used>>
          /\ dnrOps' = [dnrOps EXCEPT ![t] =
               IF Adopts(t, UAOf[r]) THEN Append(@, BaseOp(UAOf[r]))
               ELSE IF RidesBase(t, UAOf[r]) THEN @ ELSE Append(@, AddOp(id, r, UAOf[r]))]
    BY <1>8 DEF Begin
  <2>2. UAOf[r] \in UA \cup {Nobody}
    OBVIOUS
  <2>3. CASE Adopts(t, UAOf[r])
    <3>1. BaseOp(UAOf[r]).op # "add"
      BY DEF BaseOp
    <3>2. BaseOp(UAOf[r]) \in DnrOp
      BY <2>2 DEF BaseOp, DnrOp
    <3>3. dnrOps' = [dnrOps EXCEPT ![t] = Append(dnrOps[t], BaseOp(UAOf[r]))]
      BY <2>1, <2>3
    <3> QED BY <1>1, <1>4, <1>5, <3>1, <3>2, <3>3
  <2>4. CASE ~Adopts(t, UAOf[r]) /\ RidesBase(t, UAOf[r])
    <3>1. dnrOps' = [dnrOps EXCEPT ![t] = dnrOps[t]]
      BY <2>1, <2>4
    <3>2. UNCHANGED dnrOps
      BY <1>1, <3>1
    <3> QED BY <1>2, <3>2
  <2>5. CASE ~Adopts(t, UAOf[r]) /\ ~RidesBase(t, UAOf[r])
    <3>1. id \in RuleId
      BY <2>1, <2>5, AllocType DEF TypeOK
    <3>2. AddOp(id, r, UAOf[r]) \in DnrOp
      BY <2>2, <3>1, OpType
    <3>3. AddOp(id, r, UAOf[r]).rule.req = r
      BY DEF AddOp
    <3>4. dnrOps' = [dnrOps EXCEPT ![t] = Append(dnrOps[t], AddOp(id, r, UAOf[r]))]
      BY <2>1, <2>5
    <3> QED BY <1>1, <1>4, <1>5, <2>0, <3>2, <3>3, <3>4
  <2> QED BY <2>3, <2>4, <2>5
<1>9. ASSUME NEW r \in Req, BaseInstalled(r) PROVE AddsAreOwn'
  <2>1. CASE ruleId[r] # 0
             /\ dnrOps' = [dnrOps EXCEPT ![TabOf[r]] = Append(@, AddOp(ruleId[r], r, Nobody))]
    <3>1. ruleId[r] \in RuleId
      BY <2>1 DEF TypeOK, ProgressTypeOK
    <3>2. AddOp(ruleId[r], r, Nobody) \in DnrOp /\ AddOp(ruleId[r], r, Nobody).rule.req = r
      BY <3>1, OpType DEF AddOp
    <3>3. TabOf[r] \in Tab /\ dnrOps[TabOf[r]] \in Seq(DnrOp)
      BY <1>5
    <3> QED BY <1>1, <1>4, <2>1, <3>2, <3>3
  <2> QED BY <1>2, <1>9, <2>1 DEF BaseInstalled
<1>10. ASSUME NEW t \in Tab, BrowserTask(t) PROVE AddsAreOwn'
  <2>1. dnrOps[t] # <<>>
    BY <1>10 DEF BrowserTask, DnrBase, DnrAdd, DnrReject, DnrRemove, Executes
  <2>2. CASE dnrOps' = [dnrOps EXCEPT ![t] = Tail(@)]
    BY <1>3, <1>6, <2>1, <2>2
  <2>3. ASSUME NEW x \in Req, dnrOps' = [dnrOps EXCEPT ![t] = Append(Tail(@), RemoveOp(ruleId[x]))]
        PROVE  AddsAreOwn'
    <3>1. ruleId[x] \in RuleId \cup {0}
      BY DEF TypeOK, ProgressTypeOK
    <3>2. RemoveOp(ruleId[x]).op # "add"
      BY DEF RemoveOp
    <3>3. RemoveOp(ruleId[x]) \in DnrOp
      BY <3>1 DEF DnrOp, RemoveOp
    <3>4. dnrOps' = [dnrOps EXCEPT ![t] = Append(Tail(dnrOps[t]), RemoveOp(ruleId[x]))]
      BY <2>3
    <3> QED BY <1>4, <1>6, <2>1, <3>2, <3>3, <3>4
  <2>4. CASE DnrReject(t)
    <3>1. NextOp(t).rule.req \in Req
      BY <2>4, AddedRuleType DEF DnrReject, TypeOK
    <3> QED BY <2>2, <2>3, <2>4, <3>1 DEF DnrReject
  <2> QED BY <1>10, <2>2, <2>4 DEF BrowserTask, DnrBase, DnrAdd, DnrRemove
<1>11. ASSUME NEW t \in Tab, OpenTab(t) PROVE AddsAreOwn'
  <2>1. dnrOps' = [dnrOps EXCEPT ![t] = Append(dnrOps[t], BaseOp(Nobody))]
    BY <1>11 DEF OpenTab
  <2>2. BaseOp(Nobody).op # "add"
    BY DEF BaseOp
  <2>3. BaseOp(Nobody) \in DnrOp
    BY DEF BaseOp, DnrOp
  <2> QED BY <1>1, <1>4, <1>5, <2>1, <2>2, <2>3
<1>12. ASSUME NEW t \in Tab, EngineRun(t) \/ CloseTab(t) PROVE UNCHANGED dnrOps
  BY <1>12 DEF EngineRun, CloseTab, ruleVars
<1>13. ASSUME NEW r \in Req, NEW resolved, NEW seen, ResumeTake(r, resolved, seen)
       PROVE  UNCHANGED dnrOps \/ Finish(r)
  BY <1>13 DEF ResumeTake, Respond, Fail
<1>14. ASSUME NEW t \in Tab, EntryArrives(t) \/ \E u \in Url : TakeTimesOut(t, u)
       PROVE  AddsAreOwn'
  <2>1. CASE UNCHANGED dnrOps
    BY <1>2, <2>1
  <2>2. ASSUME NEW u \in Url, NEW resolved, NEW seen, waiters[t][u] # <<>>,
               Head(waiters[t][u]) # Nobody, ResumeTake(Head(waiters[t][u]), resolved, seen)
        PROVE  AddsAreOwn'
    <3>1. waiters[t][u] \in Seq(Req \cup {Nobody})
      BY DEF TypeOK, CaptureTypeOK
    <3>2. Head(waiters[t][u]) \in Req
      BY <2>2, <3>1, HeadTailProperties
    <3> QED BY <1>7, <1>13, <2>1, <2>2, <3>2
  <2>3. CASE EntryArrives(t)
    <3>1. Head(events[t]) \in Entry
      BY <2>3, HeadTailProperties DEF EntryArrives, TypeOK, BrowserTypeOK
    <3>2. UrlOf[Head(events[t]).req] \in Url
      BY <3>1 DEF Entry
    <3> QED BY <2>1, <2>2, <2>3, <3>2 DEF EntryArrives, ruleVars
  <2>4. ASSUME NEW u \in Url, TakeTimesOut(t, u) PROVE AddsAreOwn'
    BY <2>1, <2>2, <2>4 DEF TakeTimesOut, GiveUp, ruleVars
  <2> QED BY <1>14, <2>3, <2>4
<1>15. ASSUME NEW r \in Req, RequestTask(r), ~BaseInstalled(r) PROVE UNCHANGED dnrOps \/ Finish(r)
  BY <1>13, <1>15 DEF RequestTask, BaseRejected, FetchSettles, FetchAborted, ReadChunk, ReadEnd,
               ReadFails, IdleTimerFires, DeliverSlice, AwaitCredit, Fail, ruleVars
<1>16. ASSUME NEW r \in Req, EngineStart(r) \/ EngineCancel(r) \/ Network(r)
       PROVE UNCHANGED dnrOps
  BY <1>16 DEF EngineStart, EngineCancel, Network, NetSend, NetAnswer, NetDrop, ruleVars
<1>17. ASSUME NEW t \in Tab, NEW r \in Req, Refuse(t, r) \/ ReceiveCancel(t, r) \/ ReceiveAck(t, r)
       PROVE UNCHANGED dnrOps \/ Finish(r)
  BY <1>17 DEF Refuse, ReceiveCancel, ReceiveAck, Fail, ruleVars
<1> QED BY <1>2, <1>7, <1>8, <1>9, <1>10, <1>11, <1>12, <1>14, <1>15, <1>16, <1>17
        DEF Next, PageTask

-----------------------------------------------------------------------------
(* RuleIdsMatch itself.                                                    *)

\* #finish gives back the id of the request it takes out of flight.
LEMMA FinishMatches ==
  ASSUME TypeOK, RuleIdsMatch, NEW r \in Req, r \in inflight,
         inflight' = inflight \ {r}, UNCHANGED ruleId,
         used' = [used EXCEPT ![TabOf[r]] = @ \ {ruleId[r]}]
  PROVE  RuleIdsMatch'
<1> USE RequestsAssumption DEF TypeOK, RulesTypeOK, ProgressTypeOK
<1>1. \A x, y \in inflight' :
        x # y /\ TabOf[x] = TabOf[y] /\ ruleId'[x] = ruleId'[y] => ruleId'[x] = 0
  BY DEF RuleIdsMatch
<1>2. ASSUME NEW t \in Tab
      PROVE  used'[t] = {ruleId'[x] : x \in {y \in inflight' : TabOf[y] = t}} \ {0}
  <2> DEFINE Mine == {y \in inflight : TabOf[y] = t}
  <2>1. used[t] = {ruleId[x] : x \in Mine} \ {0}
    BY DEF RuleIdsMatch
  <2>2. CASE t # TabOf[r]
    <3>1. used'[t] = used[t] /\ {y \in inflight' : TabOf[y] = t} = Mine
      BY <2>2
    <3> QED BY <2>1, <3>1
  <2>3. CASE t = TabOf[r]
    <3>1. used'[t] = used[t] \ {ruleId[r]} /\ {y \in inflight' : TabOf[y] = t} = Mine \ {r}
      BY <2>3
    <3>2. \A x \in Mine : x # r /\ ruleId[x] # 0 => ruleId[x] # ruleId[r]
      BY <2>3 DEF RuleIdsMatch
    <3> QED BY <2>1, <3>1, <3>2
  <2> QED BY <2>2, <2>3
<1> QED BY <1>1, <1>2 DEF RuleIdsMatch

LEMMA FinishKeepsMatch ==
  ASSUME TypeOK, RuleIdsMatch, NEW r \in Req, Finish(r), UNCHANGED ruleId
  PROVE  RuleIdsMatch'
<1> USE RequestsAssumption
<1>1. CASE UNCHANGED <<inflight, used>>
  BY <1>1 DEF RuleIdsMatch
<1>2. CASE r \in inflight /\ inflight' = inflight \ {r} /\ ruleId[r] = 0 /\ UNCHANGED used
  <2>1. 0 \notin used[TabOf[r]]
    BY DEF RuleIdsMatch
  <2>2. used' = [used EXCEPT ![TabOf[r]] = @ \ {ruleId[r]}]
    BY <1>2, <2>1 DEF TypeOK, RulesTypeOK
  <2> QED BY <1>2, <2>2, FinishMatches
<1>3. CASE /\ r \in inflight /\ inflight' = inflight \ {r}
           /\ used' = [used EXCEPT ![TabOf[r]] = @ \ {ruleId[r]}]
  BY <1>3, FinishMatches
<1> QED BY <1>1, <1>2, <1>3 DEF Finish

\* A request that begins gets an id nobody in its tab holds, or none.
LEMMA BeginMatches ==
  ASSUME TypeOK, Started, BeginsOnce, RuleIdsMatch, NEW t \in Tab, NEW r \in Req, Begin(t, r)
  PROVE  RuleIdsMatch'
<1> USE RequestsAssumption
<1>1. TabOf[r] = t /\ pc[r] = "new"
  BY BeginGoes, BeginIsFirst
<1>2. r \notin inflight /\ inflight' = inflight \cup {r}
  BY <1>1 DEF Started, InflightHasBegun, Begin
<1>3. PICK id \in 0 .. MaxRuleId :
        /\ ruleId' = [ruleId EXCEPT ![r] = id]
        /\ \/ id \notin used[t] /\ used' = [used EXCEPT ![t] = @ \cup {id}] /\ AllocRuleId(t, id)
           \/ id = 0 /\ UNCHANGED used
  BY DEF Begin, AllocRuleId, FreshRuleId
<1>4. used \in [Tab -> SUBSET RuleId] /\ ruleId \in [Req -> RuleId \cup {0}] /\ inflight \subseteq Req
  BY DEF TypeOK, RulesTypeOK, ProgressTypeOK
<1>5. ruleId'[r] = id /\ \A x \in inflight : ruleId'[x] = ruleId[x]
  BY <1>2, <1>3, <1>4
<1>6. \A x \in inflight : TabOf[x] = t /\ ruleId[x] # 0 => ruleId[x] \in used[t]
  BY DEF RuleIdsMatch
<1>7. \A x, y \in inflight' :
        x # y /\ TabOf[x] = TabOf[y] /\ ruleId'[x] = ruleId'[y] => ruleId'[x] = 0
  BY <1>1, <1>2, <1>3, <1>5, <1>6 DEF RuleIdsMatch
<1>8. ASSUME NEW s \in Tab
      PROVE  used'[s] = {ruleId'[x] : x \in {y \in inflight' : TabOf[y] = s}} \ {0}
  <2> DEFINE Mine == {y \in inflight : TabOf[y] = s}
             ids == {ruleId[x] : x \in Mine}
  <2>1. used[s] = ids \ {0}
    BY DEF RuleIdsMatch
  <2>2. CASE s # t
    <3>1. used'[s] = used[s] /\ {y \in inflight' : TabOf[y] = s} = Mine
      BY <1>1, <1>2, <1>3, <1>4, <2>2
    <3> QED BY <1>5, <2>1, <3>1
  <2>3. CASE s = t
    <3>1. {y \in inflight' : TabOf[y] = s} = Mine \cup {r}
      BY <1>1, <1>2, <2>3
    <3>2. {ruleId'[x] : x \in Mine \cup {r}} = ids \cup {id}
      BY <1>5
    <3>3. used'[s] = (used[s] \cup {id}) \ {0}
      <4>1. 0 \notin used[s]
        BY <2>1
      <4>2. CASE id = 0 /\ UNCHANGED used
        BY <4>1, <4>2
      <4>3. CASE used' = [used EXCEPT ![t] = @ \cup {id}] /\ AllocRuleId(t, id)
        <5>1. id # 0
          BY <4>3, AllocType, RuleIdAssumption DEF TypeOK, RuleId
        <5> QED BY <1>4, <2>3, <4>1, <4>3, <5>1
      <4> QED BY <1>3, <4>2, <4>3
    <3> HIDE DEF ids
    <3> QED BY <2>1, <3>1, <3>2, <3>3
  <2> QED BY <2>2, <2>3
<1> QED BY <1>7, <1>8 DEF RuleIdsMatch

\* A page that goes takes all its requests in flight, and their ids, with it.
LEMMA CloseMatches ==
  ASSUME TypeOK, Started, RuleIdsMatch, NEW t \in Tab, CloseTab(t)
  PROVE  RuleIdsMatch'
<1>1. inflight \subseteq Req /\ used \in [Tab -> SUBSET RuleId]
  BY DEF TypeOK, ProgressTypeOK, RulesTypeOK
<1>2. \A x \in inflight : client[x] # "new"
  BY <1>1 DEF Started, AskedFirst, InflightHasBegun
<1>3. inflight' = {x \in inflight : TabOf[x] # t}
  BY <1>1, <1>2 DEF CloseTab
<1>4. used' = [used EXCEPT ![t] = {}] /\ UNCHANGED ruleId
  BY DEF CloseTab
<1>5. ASSUME NEW s \in Tab
      PROVE  used'[s] = {ruleId'[x] : x \in {y \in inflight' : TabOf[y] = s}} \ {0}
  <2>1. CASE s = t
    <3>1. used'[s] = {} /\ {y \in inflight' : TabOf[y] = s} = {}
      BY <1>1, <1>3, <1>4, <2>1
    <3> QED BY <3>1
  <2>2. CASE s # t
    <3>1. used'[s] = used[s]
          /\ {y \in inflight' : TabOf[y] = s} = {y \in inflight : TabOf[y] = s}
      BY <1>1, <1>3, <1>4, <2>2
    <3>2. used[s] = {ruleId[x] : x \in {y \in inflight : TabOf[y] = s}} \ {0}
      BY DEF RuleIdsMatch
    <3> QED BY <1>4, <3>1, <3>2
  <2> QED BY <2>1, <2>2
<1> QED BY <1>3, <1>4, <1>5 DEF RuleIdsMatch

LEMMA MatchStep == TypeOK /\ Started /\ BeginsOnce /\ AddsAreOwn /\ RuleIdsMatch /\ Next
                   => RuleIdsMatch'
<1> SUFFICES ASSUME TypeOK, Started, BeginsOnce, AddsAreOwn, RuleIdsMatch, Next
             PROVE  RuleIdsMatch'
  OBVIOUS
<1> USE RequestsAssumption
<1> DEFINE Same == UNCHANGED <<inflight, used, ruleId>>
<1>1. CASE Same
  BY <1>1 DEF RuleIdsMatch
<1>2. ASSUME NEW r \in Req, NEW resolved, NEW seen, ResumeTake(r, resolved, seen)
      PROVE  Same \/ (Finish(r) /\ UNCHANGED ruleId)
  BY <1>2 DEF ResumeTake, Respond, Fail
<1>3. ASSUME NEW t \in Tab, EntryArrives(t) \/ \E u \in Url : TakeTimesOut(t, u)
      PROVE  RuleIdsMatch'
  <2>1. ASSUME NEW u \in Url, NEW resolved, NEW seen, waiters[t][u] # <<>>,
               Head(waiters[t][u]) # Nobody, ResumeTake(Head(waiters[t][u]), resolved, seen)
        PROVE  RuleIdsMatch'
    <3>1. Head(waiters[t][u]) \in Req
      BY <2>1, WaiterHasBegun
    <3> QED BY <1>1, <1>2, <2>1, <3>1, FinishKeepsMatch
  <2>2. CASE EntryArrives(t)
    <3>1. Head(events[t]) \in Entry
      BY <2>2, HeadTailProperties DEF EntryArrives, TypeOK, BrowserTypeOK
    <3>2. UrlOf[Head(events[t]).req] \in Url
      BY <3>1 DEF Entry
    <3> QED BY <1>1, <2>1, <2>2, <3>2 DEF EntryArrives, ruleVars, tabRuleVars, progressVars
  <2>3. ASSUME NEW u \in Url, TakeTimesOut(t, u) PROVE RuleIdsMatch'
    BY <1>1, <2>1, <2>3 DEF TakeTimesOut, GiveUp, ruleVars, tabRuleVars, progressVars
  <2> QED BY <1>3, <2>2, <2>3
<1>4. ASSUME NEW r \in Req, RequestTask(r) PROVE Same \/ (Finish(r) /\ UNCHANGED ruleId)
  BY <1>2, <1>4 DEF RequestTask, BaseInstalled, BaseRejected, FetchSettles, FetchAborted,
      ReadChunk, ReadEnd, ReadFails, IdleTimerFires, DeliverSlice, AwaitCredit, Fail, ruleVars,
      tabRuleVars
<1>5. ASSUME NEW t \in Tab, NEW r \in Req, Refuse(t, r) \/ ReceiveCancel(t, r) \/ ReceiveAck(t, r)
      PROVE  Same \/ (Finish(r) /\ UNCHANGED ruleId)
  BY <1>5 DEF Refuse, ReceiveCancel, ReceiveAck, Fail, ruleVars, tabRuleVars
<1>6. ASSUME NEW t \in Tab, DnrReject(t) PROVE RuleIdsMatch'
  <2> DEFINE r == NextOp(t).rule.req
  <2>1. r \in Req
    BY <1>6, AddedRuleType DEF DnrReject, TypeOK
  <2>2. TabOf[r] = t
    <3>1. dnrOps[t] \in Seq(DnrOp) /\ dnrOps[t] # <<>>
      BY <1>6 DEF DnrReject, Executes, TypeOK, RulesTypeOK
    <3>2. 1 \in DOMAIN dnrOps[t] /\ NextOp(t) = dnrOps[t][1] /\ NextOp(t).op = "add"
      BY <1>6, <3>1 DEF DnrReject, Executes, NextOp
    <3> QED BY <3>2 DEF AddsAreOwn
  <2>3. \/ Same
        \/ /\ r \in inflight /\ inflight' = inflight \ {r} /\ UNCHANGED ruleId
           /\ used' = [used EXCEPT ![t] = @ \ {ruleId[r]}]
    BY <1>6 DEF DnrReject
  <2> HIDE DEF r
  <2> QED BY <1>1, <2>1, <2>2, <2>3, FinishMatches
<1>7. ASSUME NEW t \in Tab, DnrBase(t) \/ DnrAdd(t) \/ DnrRemove(t) \/ EngineRun(t) \/ OpenTab(t)
      PROVE  Same
  BY <1>7 DEF DnrBase, DnrAdd, DnrRemove, EngineRun, OpenTab, progressVars, ruleVars, tabRuleVars
<1>8. ASSUME NEW r \in Req, EngineStart(r) \/ EngineCancel(r) \/ Network(r) PROVE Same
  BY <1>8 DEF EngineStart, EngineCancel, Network, NetSend, NetAnswer, NetDrop, progressVars,
              ruleVars, tabRuleVars
<1> QED BY <1>1, <1>3, <1>4, <1>5, <1>6, <1>7, <1>8, BeginMatches, CloseMatches, FinishKeepsMatch
        DEF Next, PageTask, BrowserTask

LEMMA RuleStep == TypeOK /\ RuleInv /\ [Next]_vars => RuleInv'
<1>1. TypeOK /\ RuleInv /\ Next => RuleInv'
  BY StartedStep, BeginsStep, AddsStep, MatchStep DEF RuleInv
<1>2. RuleInv /\ UNCHANGED vars => RuleInv'
  <2> SUFFICES ASSUME RuleInv, UNCHANGED vars PROVE RuleInv'
    OBVIOUS
  <2>1. /\ UNCHANGED <<pc, inflight, ruleId, running, waiters, client, toBridge>>
        /\ UNCHANGED <<dnrOps, used>>
    BY DEF vars, progressVars, streamVars, captureVars, ruleVars, tabRuleVars, engineVars,
           channelVars
  <2>2. Started'
    BY <2>1 DEF RuleInv, Started, AskedFirst, InflightHasBegun, RunningHasBegun, WaitersHaveBegun
  <2>3. BeginsOnce' /\ AddsAreOwn'
    BY <2>1 DEF RuleInv, BeginsOnce, Begins, AddsAreOwn
  <2>4. RuleIdsMatch'
    BY <2>1 DEF RuleInv, RuleIdsMatch
  <2> QED BY <2>2, <2>3, <2>4 DEF RuleInv
<1> QED BY <1>1, <1>2

\* For any number of tabs, requests and rule ids, in any order of cancels,
\* rejections and closings, the ids a tab holds are those of its requests in
\* flight and no two of these share one (bridge-rules.mjs, "collisions guarded by
\* the bridge's in-flight set").
THEOREM RuleIdsAreExclusive == Spec => []RuleIdsMatch
<1>1. Init => RuleInv
  BY RequestsAssumption DEF Init, CaptureInit, RulesInit, NetInit, RuleInv, Started, AskedFirst,
     InflightHasBegun, RunningHasBegun, WaitersHaveBegun, BeginsOnce, Begins, AddsAreOwn,
     RuleIdsMatch
<1>2. RuleInv => RuleIdsMatch
  BY DEF RuleInv
<1> QED BY <1>1, <1>2, RuleStep, TypeCorrect, PTL DEF Spec

=============================================================================
