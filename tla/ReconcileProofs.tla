--------------------------- MODULE ReconcileProofs ---------------------------
(***************************************************************************)
(* For any hosts and tabs: what the browser's stores hold is well-formed,  *)
(* the mirror of the escape hatches says what the rules enforce, and no    *)
(* page is left running natively that the lists sandbox.                   *)
(***************************************************************************)
EXTENDS Reconcile, TLAPS

LEMMA PlacesType ==
  ASSUME TypeOK, NEW t \in Tabs, NEW h \in Hosts
  PROVE  /\ At("viewer", h) \in OpenPlaces /\ At("native", h) \in OpenPlaces
         /\ Landed(t, h) \in OpenPlaces
         /\ IsOpen(t) => tabs[t] \in OpenPlaces
<1>1. \A kind \in {"native", "viewer"} : At(kind, h) \in OpenPlaces
  BY DEF At, OpenPlaces
<1>2. tabs[t] \in OpenPlaces \cup {Absent, Closed}
  BY DEF TypeOK
<1> QED BY <1>1, <1>2 DEF Landed, IsOpen, Absent, Closed, At

LEMMA MoveType ==
  ASSUME TypeOK, NEW t \in Tabs, NEW place \in OpenPlaces, Move(t, place)
  PROVE  tabs' \in [Tabs -> OpenPlaces \cup {Absent, Closed}] /\ policy' \in [Tabs -> States]
BY DEF Move, TypeOK

LEMMA RulesType ==
  ASSUME NEW s \in States
  PROVE  DesiredRules(s) \in [catchall : BOOLEAN, allow : SUBSET Entries, redirect : SUBSET Entries]
BY DEF DesiredRules, States

LEMMA EntryType == \A h \in Hosts : Entry(h) \in Entries
BY EntriesAssumption

LEMMA RestingType ==
  \A last \in {"done", "failed", "cut"} : Resting(last) \in Applies /\ Resting(last).pc = "idle"
BY DEF Resting, Applies, Escapes, States, DEFAULT_STATE

LEMMA RenderedType ==
  ASSUME TypeOK, NEW s \in States, NEW t \in Tabs
  PROVE  Rendered(s, t) \in Popups \cup {None}
<1>1. CASE IsOpen(t)
  <2>1. tabs[t] \in OpenPlaces
    BY <1>1 DEF TypeOK, IsOpen, Absent, Closed, At
  <2> QED BY <1>1, <2>1 DEF Rendered, Popups, OpenPlaces
<1>2. CASE ~IsOpen(t)
  BY <1>2 DEF Rendered
<1> QED BY <1>1, <1>2

\* The handlers' and pages' actions each keep the types of what they change.
LEMMA ApplyTypes ==
  ASSUME TypeOK, Apply \/ ApplyFails \/ WorkerStops
  PROVE  TypeOK'
<1> USE DEF TypeOK
<1>1. CASE Apply
  <2>1. UNCHANGED <<sync, escapes, grants, asleep, hatch, failed, cleanup, popup, options>>
    BY <1>1 DEF Apply, handlers
  <2>2. CASE ApplyRead
    BY <2>1, <2>2 DEF ApplyRead, Due, Applies
  <2>3. CASE ApplyRules
    BY <2>1, <2>3, RulesType DEF ApplyRules, Applies
  <2>4. CASE ApplyGrants
    BY <2>1, <2>4 DEF ApplyGrants, Applies
  <2>5. CASE ApplyQuery
    <3>1. {[id |-> t, at |-> tabs[t]] : t \in {x \in Tabs : IsOpen(x)}} \subseteq [id : Tabs, at : OpenPlaces]
      BY DEF IsOpen, Absent, Closed, At
    <3> QED BY <2>1, <2>5, <3>1 DEF ApplyQuery, Applies
  <2>6. CASE SweepTab
    <3>1. PICK tab \in apply.left :
            /\ LET op == SweepAction(apply.state, tab.at, apply.escapes[tab.id])
               IN IF ~IsOpen(tab.id) \/ op = "none" THEN UNCHANGED <<tabs, policy>>
                  ELSE Move(tab.id, IF op = "sandbox" THEN At("viewer", tab.at.host) ELSE Landed(tab.id, tab.at.host))
            /\ NextTab(tab)
      BY <2>6 DEF SweepTab
    <3>2. tab.id \in Tabs /\ tab.at \in OpenPlaces /\ tab.at.host \in Hosts
      BY DEF Applies, OpenPlaces
    <3>3. At("viewer", tab.at.host) \in OpenPlaces /\ Landed(tab.id, tab.at.host) \in OpenPlaces
      BY <3>2, PlacesType
    <3>4. tabs' \in [Tabs -> OpenPlaces \cup {Absent, Closed}] /\ policy' \in [Tabs -> States]
      BY <3>1, <3>2, <3>3, MoveType
    <3>5. apply' \in Applies
      BY <3>1 DEF NextTab, Applies
    <3>6. UNCHANGED <<rules, pending>> /\ pending > 0
      BY <2>6 DEF SweepTab
    <3> QED BY <2>1, <3>4, <3>5, <3>6
  <2>7. CASE ApplyDone
    <3>1. apply' = Resting("done") /\ pending' = pending - 1 /\ UNCHANGED <<rules, tabs, policy>>
      BY <2>7 DEF ApplyDone, Settles
    <3>2. pending' \in Nat
      BY <2>7, <3>1 DEF ApplyDone
    <3> QED BY <2>1, <3>1, <3>2, RestingType
  <2> QED BY <1>1, <2>2, <2>3, <2>4, <2>5, <2>6, <2>7 DEF Apply
<1>2. CASE ApplyFails
  <2>1. apply' = Resting("failed") /\ pending' = pending - 1
        /\ UNCHANGED <<sync, rules, escapes, grants, tabs, policy, asleep, hatch, failed, cleanup, popup, options>>
    BY <1>2 DEF ApplyFails, Settles, handlers
  <2>2. pending > 0 /\ pending' \in Nat
    BY <1>2, <2>1 DEF ApplyFails, Due
  <2> QED BY <2>1, <2>2, RestingType
<1>3. CASE WorkerStops
  BY <1>3, RestingType DEF WorkerStops, Applies, handlers
<1> QED BY <1>1, <1>2, <1>3

\* A call served: a host leaves one queue, and joins another or none
LEMMA QueuesType ==
  ASSUME TypeOK, NEW t \in Tabs, NEW call \in {"rule", "grant", "go"}, hatch[t][call] # <<>>
  PROVE  /\ Head(hatch[t][call]) \in Hosts /\ Tail(hatch[t][call]) \in Seq(Hosts)
         /\ \A queue \in Seq(Hosts) : Append(queue, Head(hatch[t][call])) \in Seq(Hosts)
<1>1. hatch[t][call] \in Seq(Hosts)
  BY DEF TypeOK, Hatches
<1>2. \A q \in Seq(Hosts) : q # <<>> => Head(q) \in Hosts /\ Tail(q) \in Seq(Hosts)
  OBVIOUS
<1> QED BY <1>1, <1>2

LEMMA NoHandlersType == NoHandlers \in Hatches
BY DEF NoHandlers, Hatches

LEMMA EventType ==
  ASSUME TypeOK, NEW n \in Nat, Event(n)
  PROVE  /\ ~asleep' /\ asleep' \in BOOLEAN /\ pending' \in Nat /\ pending' >= pending + n
         /\ UNCHANGED apply /\ (apply.pc # "idle" => pending' > 0)
<1>1. pending \in Nat /\ (apply.pc # "idle" => pending > 0)
  BY DEF TypeOK
<1>2. UNCHANGED apply /\ asleep' = FALSE /\ (pending' = pending + n \/ pending' = pending + n + 1)
  <2>1. CASE asleep
    BY <1>1, <2>1 DEF Event
  <2>2. CASE ~asleep
    BY <1>1, <2>2 DEF Event
  <2> QED BY <2>1, <2>2
<1>3. pending' \in Nat /\ pending' >= pending + n /\ (pending > 0 => pending' > 0)
  BY <1>1, <1>2
<1> QED BY <1>1, <1>2, <1>3

LEMMA HatchTypes ==
  ASSUME TypeOK, NEW t \in Tabs, HatchStep(t) \/ HatchFails(t) \/ CloseTab(t) \/ CleanUp(t)
  PROVE  TypeOK'
<1>1. CASE HatchStep(t)
  <2>1. UNCHANGED <<sync, rules, asleep, pending, apply, cleanup, options>>
    BY <1>1 DEF HatchStep, worker
  <2>2. CASE SetRule(t)
    <3>1. Head(hatch[t].rule) \in Hosts /\ Tail(hatch[t].rule) \in Seq(Hosts)
          /\ Append(hatch[t].grant, Head(hatch[t].rule)) \in Seq(Hosts) /\ hatch[t].go \in Seq(Hosts)
      BY <2>2, QueuesType DEF SetRule, TypeOK, Hatches
    <3>2. escapes' = [escapes EXCEPT ![t] = Entry(Head(hatch[t].rule))] /\ escapes' \in Escapes
      BY <2>2, <3>1, EntryType DEF SetRule, TypeOK, Escapes
    <3>3. hatch' \in [Tabs -> Hatches]
      BY <2>2, <3>1 DEF SetRule, TypeOK, Hatches
    <3> QED BY <2>1, <2>2, <3>2, <3>3 DEF SetRule, TypeOK
  <2>3. CASE StoreGrant(t)
    <3>1. Head(hatch[t].grant) \in Hosts /\ Tail(hatch[t].grant) \in Seq(Hosts)
          /\ Append(hatch[t].go, Head(hatch[t].grant)) \in Seq(Hosts) /\ hatch[t].rule \in Seq(Hosts)
      BY <2>3, QueuesType DEF StoreGrant, TypeOK, Hatches
    <3>2. grants' \in Escapes
      BY <2>3, <3>1, EntryType DEF StoreGrant, Grant, TypeOK, Escapes
    <3>3. hatch' \in [Tabs -> Hatches]
      BY <2>3, <3>1 DEF StoreGrant, TypeOK, Hatches
    <3>4. failed' \in [Tabs -> {None, "grant", "go"}]
      BY <2>3 DEF StoreGrant, TypeOK
    <3> QED BY <2>1, <2>3, <3>2, <3>3, <3>4 DEF StoreGrant, TypeOK
  <2>4. CASE GoNative(t)
    <3>1. Head(hatch[t].go) \in Hosts /\ Tail(hatch[t].go) \in Seq(Hosts)
      BY <2>4, QueuesType DEF GoNative
    <3>2. Landed(t, Head(hatch[t].go)) \in OpenPlaces
      BY <3>1, PlacesType
    <3>3. tabs' \in [Tabs -> OpenPlaces \cup {Absent, Closed}] /\ policy' \in [Tabs -> States]
      BY <2>4, <3>2, MoveType DEF GoNative, TypeOK
    <3>4. hatch' \in [Tabs -> Hatches]
      BY <2>4, <3>1 DEF GoNative, TypeOK, Hatches
    <3>5. popup' \in Popups \cup {None}
      BY <2>4 DEF GoNative, TypeOK
    <3> QED BY <2>1, <2>4, <3>3, <3>4, <3>5 DEF GoNative, TypeOK
  <2> QED BY <1>1, <2>2, <2>3, <2>4 DEF HatchStep
<1>2. CASE HatchFails(t)
  <2>1. PICK call \in {"rule", "grant", "go"} :
          /\ hatch[t][call] # <<>>
          /\ hatch' = [hatch EXCEPT ![t][call] = Tail(hatch[t][call])]
          /\ failed' = IF call = "rule" \/ failed[t] = "grant" THEN failed ELSE [failed EXCEPT ![t] = call]
    BY <1>2 DEF HatchFails
  <2>2. hatch' \in [Tabs -> Hatches]
    BY <2>1, QueuesType DEF TypeOK, Hatches
  <2>3. failed' \in [Tabs -> {None, "grant", "go"}]
    BY <2>1 DEF TypeOK
  <2> QED BY <1>2, <2>2, <2>3 DEF HatchFails, TypeOK, worker
<1>3. CASE CloseTab(t)
  <2>1. Event(0)
    BY <1>3 DEF CloseTab
  <2>2. /\ ~asleep' /\ asleep' \in BOOLEAN /\ pending' \in Nat
        /\ UNCHANGED apply /\ (apply.pc # "idle" => pending' > 0)
    BY <2>1, EventType
  <2> QED BY <1>3, <2>2 DEF CloseTab, TypeOK
<1>4. CASE CleanUp(t)
  BY <1>4 DEF CleanUp, Escapes, TypeOK, worker
<1> QED BY <1>1, <1>2, <1>3, <1>4

LEMMA EditedType ==
  ASSUME TypeOK, popup \in Popups, NEW button \in Offered, button.op # "open-native-once"
  PROVE  Edited(button, popup.state) \in States
<1>1. button.entry \in Entries /\ button.op \in {"trust", "untrust", "sandbox", "unsandbox"}
  BY EntryType DEF Offered, Button, Covering, Popups, States
<1>2. sync \in States /\ popup.state \in States
  BY DEF TypeOK, Popups
<1> QED BY <1>1, <1>2 DEF Edited, States

LEMMA SetType ==
  ASSUME TypeOK, NEW new \in States, Set(new)
  PROVE  /\ sync' \in States /\ ~asleep' /\ asleep' \in BOOLEAN /\ pending' \in Nat /\ pending' > pending
         /\ UNCHANGED <<rules, escapes, grants, tabs, policy, apply, hatch, failed, cleanup>>
<1>1. Event(1) /\ sync' = new /\ UNCHANGED <<rules, escapes, grants, tabs, policy, hatch, failed, cleanup>>
  BY DEF Set, handlers
<1> QED BY <1>1, EventType DEF TypeOK

\* A render after an edit: of the tab the popup was opened on
LEMMA RerenderedType ==
  ASSUME TypeOK, popup \in Popups, sync' \in States
  PROVE  Rendered(sync', popup.tab) \in Popups \cup {None}
BY RenderedType DEF Popups

LEMMA PageTypes ==
  ASSUME TypeOK, PopupEdit \/ PopupEscape \/ PopupSwitch \/ OptionsOpen \/ OptionsSave
                 \/ \E t \in Tabs : PopupRender(t)
  PROVE  TypeOK'
<1>1. CASE PopupEdit
  <2>1. PICK button \in Offered : button.op # "open-native-once" /\ Set(Edited(button, popup.state))
    BY <1>1 DEF PopupEdit
  <2>2. popup \in Popups /\ popup' = Rendered(sync', popup.tab) /\ UNCHANGED options
    BY <1>1 DEF PopupEdit, TypeOK
  <2>3. Edited(button, popup.state) \in States
    BY <2>1, <2>2, EditedType
  <2>4. /\ sync' \in States /\ ~asleep' /\ asleep' \in BOOLEAN /\ pending' \in Nat /\ pending' > pending
        /\ UNCHANGED <<rules, escapes, grants, tabs, policy, apply, hatch, failed, cleanup>>
    BY <2>1, <2>3, SetType
  <2> QED BY <2>2, <2>4, RerenderedType DEF TypeOK
<1>2. CASE PopupEscape
  <2>1. popup.tab \in Tabs /\ Append(hatch[popup.tab].rule, popup.host) \in Seq(Hosts)
    BY <1>2 DEF PopupEscape, TypeOK, Popups, Hatches
  <2>2. hatch' \in [Tabs -> Hatches]
    BY <1>2, <2>1 DEF PopupEscape, TypeOK, Hatches
  <2>3. /\ ~asleep' /\ asleep' \in BOOLEAN /\ pending' \in Nat
        /\ UNCHANGED apply /\ (apply.pc # "idle" => pending' > 0)
    BY <1>2, EventType DEF PopupEscape
  <2> QED BY <1>2, <2>2, <2>3 DEF PopupEscape, TypeOK
<1>3. CASE PopupSwitch
  <2>1. popup \in Popups /\ popup' = Rendered(sync', popup.tab) /\ UNCHANGED options
    BY <1>3 DEF PopupSwitch, TypeOK
  <2>2. \E new \in States : Set(new)
    <3>1. [sync EXCEPT !.active = ~@] \in States /\ \A m \in {"whitelist", "blacklist"} : [sync EXCEPT !.mode = m] \in States
      BY DEF TypeOK, States
    <3> QED BY <1>3, <3>1 DEF PopupSwitch
  <2>3. /\ sync' \in States /\ ~asleep' /\ asleep' \in BOOLEAN /\ pending' \in Nat /\ pending' > pending
        /\ UNCHANGED <<rules, escapes, grants, tabs, policy, apply, hatch, failed, cleanup>>
    BY <2>2, SetType
  <2> QED BY <2>1, <2>3, RerenderedType DEF TypeOK
<1>4. CASE OptionsOpen
  <2>1. /\ ~asleep' /\ asleep' \in BOOLEAN /\ pending' \in Nat
        /\ UNCHANGED apply /\ (apply.pc # "idle" => pending' > 0)
    BY <1>4, EventType DEF OptionsOpen
  <2> QED BY <1>4, <2>1 DEF OptionsOpen, TypeOK, handlers, States, Lists
<1>5. CASE OptionsSave
  <2>1. PICK e \in Entries, list \in {"whitelist", "blacklist"}, add \in BOOLEAN :
          /\ options' = [options EXCEPT ![list] = IF add THEN @ \cup {e} ELSE @ \ {e}]
          /\ Set([sync EXCEPT !.whitelist = options'.whitelist, !.blacklist = options'.blacklist])
    BY <1>5 DEF OptionsSave
  <2>2. options \in Lists /\ UNCHANGED popup
    BY <1>5 DEF OptionsSave, TypeOK
  <2>3. options' \in Lists
    BY <2>1, <2>2 DEF Lists
  <2>4. [sync EXCEPT !.whitelist = options'.whitelist, !.blacklist = options'.blacklist] \in States
    BY <2>3 DEF TypeOK, States, Lists
  <2>5. /\ sync' \in States /\ ~asleep' /\ asleep' \in BOOLEAN /\ pending' \in Nat /\ pending' > pending
        /\ UNCHANGED <<rules, escapes, grants, tabs, policy, apply, hatch, failed, cleanup>>
    BY <2>1, <2>4, SetType
  <2> QED BY <2>2, <2>3, <2>5 DEF TypeOK
<1>6. ASSUME NEW t \in Tabs, PopupRender(t) PROVE TypeOK'
  <2>1. popup' \in Popups \cup {None}
    BY <1>6, RenderedType DEF PopupRender, TypeOK
  <2> QED BY <1>6, <2>1 DEF PopupRender, TypeOK, worker, handlers
<1> QED BY <1>1, <1>2, <1>3, <1>4, <1>5, <1>6

LEMMA BrowserTypes ==
  ASSUME TypeOK, Restart \/ \E t \in Tabs : ViewerRefresh(t) \/ \E h \in Hosts : Browse(t, h) \/ ViewerNavigate(t, h)
  PROVE  TypeOK'
<1>1. CASE Restart
  <2>1. PICK unseen \in SUBSET {t \in Tabs : tabs[t].kind = "native"} :
          tabs' = [t \in Tabs |-> CASE t \in unseen -> tabs[t]
                                    [] tabs[t].kind = "native" /\ t \notin unseen ->
                                         At(IF Redirected(None, tabs[t].host) THEN "viewer" ELSE "native", tabs[t].host)
                                    [] tabs[t] = Closed -> Absent
                                    [] OTHER -> tabs[t]]
    BY <1>1 DEF Restart
  <2>2. \A t \in Tabs : tabs[t].kind = "native" => tabs[t].host \in Hosts
    BY DEF TypeOK, OpenPlaces, Absent, Closed, At
  <2>3. \A t \in Tabs : tabs'[t] \in OpenPlaces \cup {Absent, Closed}
    <3> SUFFICES ASSUME NEW t \in Tabs PROVE tabs'[t] \in OpenPlaces \cup {Absent, Closed}
      OBVIOUS
    <3>1. CASE tabs[t].kind = "native" /\ t \notin unseen
      BY <2>1, <2>2, <3>1 DEF At, OpenPlaces
    <3>2. CASE ~(tabs[t].kind = "native" /\ t \notin unseen)
      <4>1. tabs'[t] \in {tabs[t], Absent}
        BY <2>1, <3>2
      <4> QED BY <4>1 DEF TypeOK
    <3> QED BY <3>1, <3>2
  <2>4. tabs' \in [Tabs -> OpenPlaces \cup {Absent, Closed}]
    BY <2>1, <2>3
  <2>5. /\ escapes' = [t \in Tabs |-> None] /\ grants' = [t \in Tabs |-> None] /\ policy' = [t \in Tabs |-> sync]
        /\ asleep' = FALSE /\ pending' = 2 /\ apply' = Resting("done")
        /\ hatch' = [t \in Tabs |-> NoHandlers] /\ failed' = [t \in Tabs |-> None] /\ cleanup' = {}
        /\ popup' = None /\ options' = None /\ UNCHANGED <<sync, rules>>
    BY <1>1 DEF Restart
  <2> QED BY <2>4, <2>5, RestingType, NoHandlersType DEF TypeOK, Escapes
<1>2. ASSUME NEW t \in Tabs, ViewerRefresh(t) PROVE TypeOK'
  BY <1>2 DEF ViewerRefresh, TypeOK, worker, handlers
<1>3. ASSUME NEW t \in Tabs, NEW h \in Hosts, Browse(t, h) PROVE TypeOK'
  <2>1. tabs' \in [Tabs -> OpenPlaces \cup {Absent, Closed}] /\ policy' \in [Tabs -> States]
    BY <1>3, PlacesType, MoveType DEF Browse
  <2>2. /\ ~asleep' /\ asleep' \in BOOLEAN /\ pending' \in Nat
        /\ UNCHANGED apply /\ (apply.pc # "idle" => pending' > 0)
    BY <1>3, EventType DEF Browse
  <2> QED BY <1>3, <2>1, <2>2 DEF Browse, TypeOK, handlers
<1>4. ASSUME NEW t \in Tabs, NEW h \in Hosts, ViewerNavigate(t, h) PROVE TypeOK'
  <2>1. tabs' \in [Tabs -> OpenPlaces \cup {Absent, Closed}] /\ policy' \in [Tabs -> States]
    <3>1. CASE ShouldSandbox(policy[t], h)
      BY <1>4, <3>1, PlacesType DEF ViewerNavigate, TypeOK
    <3>2. CASE ~ShouldSandbox(policy[t], h)
      BY <1>4, <3>2, PlacesType, MoveType DEF ViewerNavigate
    <3> QED BY <3>1, <3>2
  <2>2. /\ ~asleep' /\ asleep' \in BOOLEAN /\ pending' \in Nat
        /\ UNCHANGED apply /\ (apply.pc # "idle" => pending' > 0)
    BY <1>4, EventType DEF ViewerNavigate
  <2> QED BY <1>4, <2>1, <2>2 DEF ViewerNavigate, TypeOK, handlers
<1> QED BY <1>1, <1>2, <1>3, <1>4

\* What the stores, the pages and the messages hold is always what the code expects to read.
THEOREM ReconcileTypes == Spec => []TypeOK
<1>1. Init => TypeOK
  <2> SUFFICES ASSUME Init PROVE TypeOK
    OBVIOUS
  <2>1. DEFAULT_STATE \in States /\ [DEFAULT_STATE EXCEPT !.active = FALSE] \in States
    BY DEF DEFAULT_STATE, States
  <2> QED BY <2>1, RulesType, RestingType, NoHandlersType DEF Init, TypeOK, Escapes
<1>2. TypeOK /\ [Next]_vars => TypeOK'
  <2> SUFFICES ASSUME TypeOK, [Next]_vars PROVE TypeOK'
    OBVIOUS
  <2>1. CASE UNCHANGED vars
    BY <2>1 DEF vars, worker, handlers, TypeOK, Absent, Closed
  <2> QED BY <2>1, ApplyTypes, HatchTypes, PageTypes, BrowserTypes DEF Next
<1> QED BY <1>1, <1>2, PTL DEF Spec

-----------------------------------------------------------------------------
(* The escape hatch writes the rule, then its mirror; between the two they differ.  Of     *)
(* handlers that overlap, the last one with its rule in is the last to store the mirror.   *)

Last(queue) == queue[Len(queue)]
\* Of a tab that is not closed
Mirrors(t) == IF hatch[t].grant # <<>> THEN escapes[t] = Entry(Last(hatch[t].grant))
              ELSE failed[t] # "grant" => grants[t] = escapes[t]
MirrorInv ==
  /\ \A t \in Tabs : tabs[t] # Closed => Mirrors(t)
  /\ \A t \in Tabs, what \in {"rule", "grant"} : <<t, what>> \in cleanup => tabs[t] = Closed

\* A tab id that is closed stays so while the browser runs.
LEMMA ClosedStays ==
  ASSUME TypeOK, Next, ~Restart, NEW t \in Tabs, tabs[t] = Closed
  PROVE  tabs'[t] = Closed
<1>1. ~IsOpen(t)
  BY DEF IsOpen, Closed, At
<1>2. CASE Apply
  <2>1. CASE SweepTab
    <3>1. PICK tab \in apply.left :
            tabs' = tabs \/ \E place : IsOpen(tab.id) /\ Move(tab.id, place)
      BY <2>1 DEF SweepTab
    <3> QED BY <1>1, <3>1 DEF Move, TypeOK
  <2> QED BY <1>2, <2>1 DEF Apply, ApplyRead, ApplyRules, ApplyGrants, ApplyQuery, ApplyDone
<1>3. ASSUME NEW u \in Tabs, HatchStep(u) PROVE tabs'[t] = Closed
  BY <1>1, <1>3 DEF HatchStep, SetRule, StoreGrant, GoNative, Move, TypeOK
<1>4. ASSUME NEW u \in Tabs, CloseTab(u) PROVE tabs'[t] = Closed
  BY <1>4 DEF CloseTab, TypeOK
<1>5. ASSUME NEW u \in Tabs, NEW h \in Hosts, Browse(u, h) PROVE tabs'[t] = Closed
  BY <1>5 DEF Browse, Move, TypeOK
<1>6. ASSUME NEW u \in Tabs, NEW h \in Hosts, ViewerNavigate(u, h) PROVE tabs'[t] = Closed
  BY <1>1, <1>6 DEF ViewerNavigate, IsOpen, Move, TypeOK
<1>7. CASE tabs' = tabs
  BY <1>7
<1> QED
  BY <1>2, <1>3, <1>4, <1>5, <1>6, <1>7
  DEF Next, ApplyFails, WorkerStops, PopupEdit, PopupEscape, PopupSwitch, OptionsOpen, OptionsSave, Set,
      CleanUp, HatchFails, PopupRender, ViewerRefresh

\* The queues of calls: what joins is last, and what leaves was first
LEMMA QueueFacts ==
  /\ \A q \in Seq(Hosts), h \in Hosts : Append(q, h) # <<>> /\ Last(Append(q, h)) = h
  /\ \A q \in Seq(Hosts) : q # <<>> /\ Tail(q) # <<>> => Last(Tail(q)) = Last(q)
  /\ \A q \in Seq(Hosts) : q # <<>> /\ Tail(q) = <<>> => Last(q) = Head(q)
BY DEF Last

LEMMA HatchMirrors ==
  ASSUME TypeOK, NEW t \in Tabs, Mirrors(t), HatchStep(t) \/ HatchFails(t)
  PROVE  /\ Mirrors(t)' /\ UNCHANGED cleanup
         /\ \A u \in Tabs \ {t} : UNCHANGED <<escapes[u], grants[u], hatch[u], failed[u]>>
<1>0. hatch[t].rule \in Seq(Hosts) /\ hatch[t].grant \in Seq(Hosts) /\ hatch[t].go \in Seq(Hosts)
  BY DEF TypeOK, Hatches
<1>1. CASE SetRule(t) /\ UNCHANGED cleanup
  <2>1. hatch'[t].grant = Append(hatch[t].grant, Head(hatch[t].rule))
        /\ escapes'[t] = Entry(Head(hatch[t].rule)) /\ Head(hatch[t].rule) \in Hosts
    BY <1>1, QueuesType DEF SetRule, TypeOK, Escapes, Hatches
  <2>2. Mirrors(t)'
    BY <1>0, <2>1, QueueFacts DEF Mirrors
  <2> QED BY <1>1, <2>2 DEF SetRule, TypeOK, Escapes
<1>2. CASE StoreGrant(t) /\ UNCHANGED cleanup
  <2>1. /\ hatch[t].grant # <<>> /\ hatch'[t].grant = Tail(hatch[t].grant)
        /\ grants'[t] = Entry(Head(hatch[t].grant)) /\ escapes' = escapes
    BY <1>2 DEF StoreGrant, Grant, TypeOK, Escapes, Hatches
  <2>2. Mirrors(t)'
    BY <1>0, <2>1, QueueFacts DEF Mirrors
  <2> QED BY <1>2, <2>2 DEF StoreGrant, Grant, TypeOK, Escapes
<1>3. CASE GoNative(t) /\ UNCHANGED cleanup
  <2>1. hatch'[t].grant = hatch[t].grant /\ UNCHANGED <<escapes, grants, failed>>
    BY <1>3 DEF GoNative, TypeOK, Hatches
  <2>2. Mirrors(t)'
    BY <2>1 DEF Mirrors
  <2> QED BY <1>3, <2>2 DEF GoNative, TypeOK
<1>4. CASE HatchFails(t)
  <2>1. PICK call \in {"rule", "grant", "go"} :
          /\ hatch[t][call] # <<>>
          /\ hatch' = [hatch EXCEPT ![t][call] = Tail(hatch[t][call])]
          /\ failed' = IF call = "rule" \/ failed[t] = "grant" THEN failed ELSE [failed EXCEPT ![t] = call]
    BY <1>4 DEF HatchFails
  <2>2. UNCHANGED <<escapes, grants, cleanup>>
    BY <1>4 DEF HatchFails
  <2>3. CASE call = "grant"
    <3>1. hatch'[t].grant = Tail(hatch[t].grant) /\ (failed'[t] = "grant" \/ failed'[t] = failed[t])
      BY <2>1, <2>3 DEF TypeOK, Hatches
    <3> QED BY <1>0, <2>1, <2>2, <2>3, <3>1, QueueFacts DEF Mirrors, TypeOK
  <2>4. CASE call # "grant"
    <3>1. hatch'[t].grant = hatch[t].grant /\ (failed'[t] # "grant" => failed[t] # "grant")
      BY <2>1, <2>4, NoneAssumption DEF TypeOK, Hatches
    <3> QED BY <2>1, <2>2, <2>4, <3>1 DEF Mirrors, TypeOK
  <2> QED BY <2>3, <2>4
<1> QED BY <1>1, <1>2, <1>3, <1>4 DEF HatchStep

LEMMA MirrorStep ==
  ASSUME TypeOK, TypeOK', MirrorInv, [Next]_vars
  PROVE  MirrorInv'
<1> USE DEF MirrorInv
<1>1. CASE UNCHANGED <<escapes, grants, hatch, failed, cleanup>> /\ Next /\ ~Restart
  <2>1. \A t \in Tabs : tabs[t] = Closed => tabs'[t] = Closed
    BY <1>1, ClosedStays
  <2> QED BY <1>1, <2>1 DEF Mirrors
<1>2. ASSUME NEW t \in Tabs, HatchStep(t) \/ HatchFails(t) PROVE MirrorInv'
  <2>1. \A u \in Tabs : tabs[u] = Closed <=> tabs'[u] = Closed
    <3>1. \A u \in Tabs : tabs'[u] # tabs[u] => IsOpen(u) /\ tabs'[u] \in OpenPlaces
      <4>1. CASE GoNative(t)
        <5>1. Head(hatch[t].go) \in Hosts
          BY <4>1, QueuesType DEF GoNative
        <5> QED BY <4>1, <5>1, PlacesType DEF GoNative, Move, TypeOK
      <4>2. CASE UNCHANGED tabs
        BY <4>2
      <4> QED BY <1>2, <4>1, <4>2 DEF HatchStep, HatchFails, SetRule, StoreGrant
    <3> QED BY <3>1 DEF IsOpen, Closed, At, OpenPlaces
  <2>2. CASE tabs[t] # Closed
    <3>1. /\ Mirrors(t)' /\ UNCHANGED cleanup
          /\ \A u \in Tabs \ {t} : UNCHANGED <<escapes[u], grants[u], hatch[u], failed[u]>>
      BY <1>2, <2>2, HatchMirrors
    <3> QED BY <2>1, <3>1 DEF Mirrors
  <2>3. CASE tabs[t] = Closed
    <3>1. /\ UNCHANGED cleanup
          /\ \A u \in Tabs \ {t} : UNCHANGED <<escapes[u], grants[u], hatch[u], failed[u]>>
      BY <1>2 DEF HatchStep, HatchFails, SetRule, StoreGrant, GoNative, Grant, TypeOK, Escapes
    <3> QED BY <2>1, <2>3, <3>1 DEF Mirrors
  <2> QED BY <2>2, <2>3
<1>3. ASSUME NEW t \in Tabs, CloseTab(t) PROVE MirrorInv'
  BY <1>3 DEF CloseTab, Mirrors, TypeOK
<1>4. ASSUME NEW t \in Tabs, CleanUp(t) PROVE MirrorInv'
  <2>1. tabs[t] = Closed
    BY <1>4 DEF CleanUp
  <2> QED BY <1>4, <2>1 DEF CleanUp, Mirrors, TypeOK, Escapes
<1>5. CASE PopupEscape
  <2>1. /\ popup.tab \in Tabs /\ UNCHANGED <<escapes, grants, failed, cleanup, tabs>>
        /\ \A u \in Tabs : hatch'[u].grant = hatch[u].grant
    BY <1>5 DEF PopupEscape, TypeOK, Popups, Hatches
  <2> QED BY <2>1 DEF Mirrors
<1>6. CASE Restart
  BY <1>6 DEF Restart, Mirrors, NoHandlers
<1>7. CASE UNCHANGED vars
  BY <1>7 DEF vars, handlers, Mirrors, Closed
<1> QED
  BY <1>1, <1>2, <1>3, <1>4, <1>5, <1>6, <1>7
  DEF Next, Apply, ApplyFails, WorkerStops, PopupEdit, PopupSwitch, OptionsOpen, OptionsSave, Set,
      PopupRender, ViewerRefresh, Browse, ViewerNavigate, handlers

\* For any tabs and hosts: an open tab's grant is its rule but while a mirror is on its way, or was
\* rejected, whichever hatches, closings and cleanups interleaved.
THEOREM GrantsMirrorRules == Spec => []GrantMirrorsRule
<1>1. Init => MirrorInv
  BY DEF Init, MirrorInv, Mirrors, NoHandlers
<1>2. TypeOK /\ TypeOK' /\ MirrorInv /\ [Next]_vars => MirrorInv'
  BY MirrorStep
<1>3. TypeOK /\ MirrorInv => GrantMirrorsRule
  BY DEF MirrorInv, Mirrors, GrantMirrorsRule, IsOpen, Closed, At
<1> QED BY <1>1, <1>2, <1>3, ReconcileTypes, PTL DEF Spec
-----------------------------------------------------------------------------
(* The sweep works through a snapshot while tabs move.  A tab is Covered when it is where *)
(* the lists want it, or still where the snapshot saw it and yet to be swept.             *)

Allowed(t) ==
  tabs[t].kind = "native" /\ ~Escaping(t)
    => ~ShouldSandbox(sync, tabs[t].host) \/ EntryMatches(escapes[t], tabs[t].host)
Covered(t) ==
  \/ Allowed(t)
  \/ /\ apply.pc \in {"query", "sweep"}
     /\ ~EntryMatches(apply.escapes[t], tabs[t].host)
     /\ apply.pc = "sweep" => [id |-> t, at |-> tabs[t]] \in apply.left

RulesCurrent == (apply.pc \in {"grants", "query", "sweep"} /\ pending = 1) \/ (pending = 0 /\ apply.last = "done")
TabsCurrent == (apply.pc \in {"query", "sweep"} /\ pending = 1) \/ (pending = 0 /\ apply.last = "done")

\* The last apply of the chain works on the state there is
SweepInv ==
  /\ apply.pc # "idle" /\ pending = 1 => apply.state = sync
  /\ RulesCurrent => rules = DesiredRules(sync)
  /\ TabsCurrent => \A t \in Tabs : Covered(t)

LEMMA LandedAllowed ==
  ASSUME sync \in States, rules = DesiredRules(sync), NEW t \in Tabs, NEW h,
         Landed(t, h).kind = "native"
  PROVE  Landed(t, h).host = h /\ (~ShouldSandbox(sync, h) \/ EntryMatches(escapes[t], h))
<1>1. ~Redirected(escapes[t], h) /\ Landed(t, h).host = h
  BY DEF Landed, At
<1>2. CASE sync.active /\ sync.mode = "whitelist"
  BY <1>1, <1>2 DEF Redirected, DesiredRules, ShouldSandbox
<1>3. CASE ~(sync.active /\ sync.mode = "whitelist")
  BY <1>1, <1>3 DEF Redirected, DesiredRules, ShouldSandbox, States, ListMatches, Covering
<1> QED BY <1>1, <1>2, <1>3

\* A step outside the apply leaves each tab alone, or where the lists want it.
LEMMA QuietStep ==
  ASSUME SweepInv, UNCHANGED <<sync, rules, pending, apply>>,
         \A t \in Tabs : \/ UNCHANGED <<tabs[t], Escaping(t), escapes[t]>>
                         \/ rules = DesiredRules(sync) => Allowed(t)'
  PROVE  SweepInv'
<1>1. TabsCurrent => RulesCurrent
  BY DEF TabsCurrent, RulesCurrent
<1>2. ASSUME TabsCurrent, NEW t \in Tabs PROVE Covered(t)'
  <2>1. CASE UNCHANGED <<tabs[t], Escaping(t), escapes[t]>>
    <3>1. Covered(t)
      BY <1>2 DEF SweepInv
    <3> QED BY <2>1, <3>1 DEF Covered, Allowed, Escaping
  <2>2. CASE Allowed(t)'
    BY <2>2 DEF Covered
  <2> QED BY <1>1, <1>2, <2>1, <2>2 DEF SweepInv
<1> QED BY <1>2 DEF SweepInv, RulesCurrent, TabsCurrent

LEMMA ApplySweeps ==
  ASSUME TypeOK, MirrorInv, SweepInv, Apply
  PROVE  SweepInv'
<1>0. UNCHANGED <<sync, escapes, grants, hatch, failed>>
  BY DEF Apply, handlers
<1>1. CASE ApplyRead
  BY <1>0, <1>1 DEF ApplyRead, Due, SweepInv, RulesCurrent, TabsCurrent, TypeOK, Applies
<1>2. CASE ApplyRules
  BY <1>0, <1>2 DEF ApplyRules, SweepInv, RulesCurrent, TabsCurrent, TypeOK, Applies
<1>3. CASE ApplyGrants
  <2>1. /\ apply.pc = "grants" /\ apply'.pc = "query" /\ apply'.escapes = grants /\ apply'.state = apply.state
        /\ UNCHANGED <<rules, pending, tabs>> /\ pending > 0
    BY <1>3 DEF ApplyGrants, TypeOK, Applies
  <2>2. ASSUME NEW t \in Tabs PROVE Covered(t)'
    <3>1. tabs[t].kind = "native" /\ ~Escaping(t) => grants[t] = escapes[t]
      BY NoneAssumption DEF MirrorInv, Mirrors, Escaping, Closed, At
    <3> QED BY <1>0, <2>1, <3>1 DEF Covered, Allowed, Escaping
  <2> QED BY <1>0, <2>1, <2>2 DEF SweepInv, RulesCurrent, TabsCurrent, TypeOK
<1>4. CASE ApplyQuery
  <2>1. /\ apply.pc = "query" /\ apply'.pc = "sweep" /\ UNCHANGED <<rules, pending, tabs>> /\ pending > 0
        /\ apply'.escapes = apply.escapes /\ apply'.state = apply.state
        /\ apply'.left = {[id |-> t, at |-> tabs[t]] : t \in {x \in Tabs : IsOpen(x)}}
    BY <1>4 DEF ApplyQuery, TypeOK, Applies
  <2>2. ASSUME NEW t \in Tabs, Covered(t) PROVE Covered(t)'
    BY <1>0, <2>1, <2>2 DEF Covered, Allowed, Escaping, IsOpen
  <2> QED BY <1>0, <2>1, <2>2 DEF SweepInv, RulesCurrent, TabsCurrent, TypeOK
<1>5. CASE SweepTab
  <2>1. PICK tab \in apply.left :
          /\ LET op == SweepAction(apply.state, tab.at, apply.escapes[tab.id])
             IN IF ~IsOpen(tab.id) \/ op = "none" THEN UNCHANGED <<tabs, policy>>
                ELSE Move(tab.id, IF op = "sandbox" THEN At("viewer", tab.at.host) ELSE Landed(tab.id, tab.at.host))
          /\ NextTab(tab)
    BY <1>5 DEF SweepTab
  <2>2. /\ apply.pc = "sweep" /\ apply'.pc = "sweep" /\ apply'.escapes = apply.escapes
        /\ apply'.state = apply.state /\ apply'.left = apply.left \ {tab}
        /\ UNCHANGED <<rules, pending>> /\ pending > 0 /\ tab.id \in Tabs
    BY <1>5, <2>1 DEF SweepTab, NextTab, TypeOK, Applies
  <2>3. ASSUME NEW t \in Tabs, pending = 1 PROVE Covered(t)'
    <3>1. Covered(t) /\ apply.state = sync /\ rules = DesiredRules(sync)
      BY <2>2, <2>3 DEF SweepInv, RulesCurrent, TabsCurrent
    <3>2. CASE tabs'[t] # tabs[t]
      <4>1. t = tab.id /\ tabs'[t] \in {At("viewer", tab.at.host), Landed(t, tab.at.host)}
        BY <2>1, <3>2 DEF Move, TypeOK
      <4>2. Allowed(t)'
        BY <1>0, <3>1, <4>1, LandedAllowed DEF Allowed, Escaping, At, TypeOK
      <4> QED BY <4>2 DEF Covered
    <3>3. CASE tabs'[t] = tabs[t] /\ Allowed(t)
      BY <1>0, <3>3 DEF Covered, Allowed, Escaping
    <3>4. CASE tabs'[t] = tabs[t] /\ ~Allowed(t) /\ tab # [id |-> t, at |-> tabs[t]]
      BY <2>2, <3>1, <3>4 DEF Covered
    <3>5. CASE tabs'[t] = tabs[t] /\ ~Allowed(t) /\ tab = [id |-> t, at |-> tabs[t]]
      <4>1. /\ tabs[t].kind = "native" /\ ShouldSandbox(sync, tabs[t].host)
            /\ ~EntryMatches(apply.escapes[t], tabs[t].host)
        BY <3>1, <3>5 DEF Allowed, Covered
      <4>2. SweepAction(apply.state, tab.at, apply.escapes[tab.id]) = "sandbox" /\ IsOpen(tab.id)
        BY <3>1, <3>5, <4>1 DEF SweepAction, IsOpen
      <4>3. tabs'[t] = At("viewer", tab.at.host)
        BY <2>1, <3>5, <4>2 DEF Move, TypeOK
      <4> QED BY <3>5, <4>1, <4>3 DEF At
    <3> QED BY <3>2, <3>3, <3>4, <3>5
  <2> QED BY <1>0, <2>2, <2>3 DEF SweepInv, RulesCurrent, TabsCurrent, TypeOK
<1>6. CASE ApplyDone
  <2>1. /\ apply.pc = "sweep" /\ apply.left = {} /\ apply'.pc = "idle" /\ pending' = pending - 1
        /\ pending \in Nat /\ pending > 0 /\ UNCHANGED <<rules, tabs>>
    BY <1>6 DEF ApplyDone, Settles, Resting, TypeOK
  <2>2. ASSUME NEW t \in Tabs, Covered(t) PROVE Covered(t)'
    BY <1>0, <2>1, <2>2 DEF Covered, Allowed, Escaping
  <2> QED BY <1>0, <2>1, <2>2 DEF SweepInv, RulesCurrent, TabsCurrent
<1> QED BY <1>1, <1>2, <1>3, <1>4, <1>5, <1>6 DEF Apply

\* What an event adds to the chain is an apply of the state there is
LEMMA EventIs ==
  ASSUME TypeOK, NEW n \in Nat, Event(n), n > 0 \/ asleep
  PROVE  pending' > pending /\ UNCHANGED apply
BY DEF Event, TypeOK

LEMMA MoreApplies ==
  ASSUME TypeOK, TypeOK', SweepInv, UNCHANGED apply, pending' > pending
  PROVE  SweepInv'
BY DEF SweepInv, RulesCurrent, TabsCurrent, TypeOK

\* An event that adds nothing finds the script awake
LEMMA QuietEvent ==
  ASSUME TypeOK, TypeOK', SweepInv, Event(0), UNCHANGED <<sync, rules>>,
         \A t \in Tabs : \/ UNCHANGED <<tabs[t], Escaping(t), escapes[t]>>
                         \/ rules = DesiredRules(sync) => Allowed(t)'
  PROVE  SweepInv'
<1>1. CASE asleep
  BY <1>1, EventIs, MoreApplies
<1>2. CASE ~asleep
  BY <1>2, QuietStep DEF Event, TypeOK
<1> QED BY <1>1, <1>2

LEMMA SweepStep ==
  ASSUME TypeOK, TypeOK', MirrorInv, SweepInv, [Next]_vars
  PROVE  SweepInv'
<1>1. CASE UNCHANGED <<sync, rules, pending, apply, tabs, hatch, failed, escapes>>
  BY <1>1, QuietStep DEF Escaping
<1>2. CASE ApplyFails
  <2>1. pending' = pending - 1 /\ apply' = Resting("failed") /\ pending > 0
    BY <1>2 DEF ApplyFails, Due, Settles, TypeOK
  <2> QED BY <2>1 DEF SweepInv, RulesCurrent, TabsCurrent, Resting
<1>3. CASE WorkerStops
  <2>0. UNCHANGED <<sync, rules, escapes, tabs, hatch, failed>>
    BY <1>3 DEF WorkerStops, handlers
  <2>1. CASE pending > 0
    BY <1>3, <2>1 DEF WorkerStops, Resting, SweepInv, RulesCurrent, TabsCurrent
  <2>2. CASE pending = 0
    <3>1. /\ pending' = 0 /\ apply'.pc = "idle" /\ apply.pc = "idle" /\ apply'.last = apply.last
      BY <1>3, <2>2 DEF WorkerStops, Resting, TypeOK
    <3>2. \A t \in Tabs : Covered(t) => Covered(t)'
      BY <2>0, <3>1 DEF Covered, Allowed, Escaping
    <3> QED BY <2>0, <2>2, <3>1, <3>2 DEF SweepInv, RulesCurrent, TabsCurrent
  <2> QED BY <2>1, <2>2 DEF TypeOK
<1>4. CASE Restart
  BY <1>4 DEF Restart, Resting, SweepInv, RulesCurrent, TabsCurrent
<1>5. ASSUME NEW new, Set(new) PROVE SweepInv'
  BY <1>5, EventIs, MoreApplies DEF Set
<1>6. ASSUME NEW t \in Tabs, HatchStep(t) PROVE SweepInv'
  <2>0. UNCHANGED <<sync, rules, pending, apply>>
    BY <1>6 DEF HatchStep, worker
  <2>1. \A u \in Tabs \ {t} : UNCHANGED <<tabs[u], Escaping(u), escapes[u]>>
    BY <1>6 DEF HatchStep, SetRule, StoreGrant, GoNative, Move, TypeOK, Escapes, Escaping
  <2>2. CASE SetRule(t)
    <3>1. hatch'[t].grant = Append(hatch[t].grant, Head(hatch[t].rule)) /\ hatch[t].grant \in Seq(Hosts)
          /\ Head(hatch[t].rule) \in Hosts
      BY <2>2, QueuesType DEF SetRule, TypeOK, Hatches
    <3>2. Escaping(t)'
      BY <3>1, QueueFacts DEF Escaping
    <3> QED BY <2>0, <2>1, <3>2, QuietStep DEF Allowed
  <2>3. CASE StoreGrant(t)
    <3>1. hatch'[t].go = Append(hatch[t].go, Head(hatch[t].grant)) /\ hatch[t].go \in Seq(Hosts)
          /\ Head(hatch[t].grant) \in Hosts
      BY <2>3, QueuesType DEF StoreGrant, TypeOK, Hatches
    <3>2. Escaping(t)'
      BY <3>1, QueueFacts DEF Escaping
    <3> QED BY <2>0, <2>1, <3>2, QuietStep DEF Allowed
  <2>4. CASE GoNative(t)
    <3>1. escapes' = escapes
          /\ IF IsOpen(t) THEN tabs'[t] = Landed(t, Head(hatch[t].go)) ELSE tabs' = tabs
      BY <2>4 DEF GoNative, Move, TypeOK
    <3>2. rules = DesiredRules(sync) => Allowed(t)'
      BY <2>0, <3>1, LandedAllowed DEF Allowed, IsOpen, TypeOK
    <3> QED BY <2>0, <2>1, <3>2, QuietStep
  <2> QED BY <1>6, <2>2, <2>3, <2>4 DEF HatchStep
<1>7. ASSUME NEW t \in Tabs, HatchFails(t) PROVE SweepInv'
  <2>0. UNCHANGED <<sync, rules, pending, apply, tabs, escapes>>
    BY <1>7 DEF HatchFails, worker
  <2>1. PICK call \in {"rule", "grant", "go"} :
          /\ hatch' = [hatch EXCEPT ![t][call] = Tail(hatch[t][call])]
          /\ failed' = IF call = "rule" \/ failed[t] = "grant" THEN failed ELSE [failed EXCEPT ![t] = call]
    BY <1>7 DEF HatchFails
  <2>2. \A u \in Tabs \ {t} : UNCHANGED Escaping(u)
    BY <2>1 DEF Escaping, TypeOK
  <2>3. CASE call = "rule"
    <3>1. UNCHANGED Escaping(t)
      BY <2>1, <2>3 DEF Escaping, TypeOK, Hatches
    <3> QED BY <2>0, <2>2, <3>1, QuietStep
  <2>4. CASE call # "rule"
    <3>1. failed'[t] # None
      BY <2>1, <2>4, NoneAssumption DEF TypeOK
    <3>2. Allowed(t)'
      BY <3>1 DEF Allowed, Escaping
    <3> QED BY <2>0, <2>2, <3>2, QuietStep
  <2> QED BY <2>3, <2>4
<1>8. ASSUME NEW t \in Tabs, CloseTab(t) PROVE SweepInv'
  <2>1. \A u \in Tabs : UNCHANGED <<tabs[u], Escaping(u), escapes[u]>> \/ Allowed(u)'
    BY <1>8 DEF CloseTab, TypeOK, Allowed, Escaping, Closed, At
  <2> QED BY <1>8, <2>1, QuietEvent DEF CloseTab
<1>9. ASSUME NEW t \in Tabs, CleanUp(t) PROVE SweepInv'
  <2>1. tabs[t] = Closed
    BY <1>9 DEF CleanUp, MirrorInv
  <2>2. \A u \in Tabs : UNCHANGED <<tabs[u], Escaping(u), escapes[u]>> \/ Allowed(u)'
    BY <1>9, <2>1 DEF CleanUp, TypeOK, Escapes, Escaping, Allowed, Closed, At
  <2> QED BY <1>9, <2>2, QuietStep DEF CleanUp, worker
<1>10. ASSUME NEW t \in Tabs, NEW h \in Hosts, Browse(t, h) \/ ViewerNavigate(t, h) PROVE SweepInv'
  <2>1. UNCHANGED <<sync, rules, escapes, hatch, failed>> /\ Event(0)
        /\ tabs'[t] \in {At("viewer", h), Landed(t, h)} /\ \A u \in Tabs \ {t} : tabs'[u] = tabs[u]
    BY <1>10 DEF Browse, ViewerNavigate, Move, TypeOK, handlers
  <2>2. rules = DesiredRules(sync) => Allowed(t)'
    BY <2>1, LandedAllowed DEF Allowed, At, TypeOK
  <2>3. \A u \in Tabs \ {t} : UNCHANGED <<tabs[u], Escaping(u), escapes[u]>>
    BY <2>1 DEF Escaping
  <2> QED BY <2>1, <2>2, <2>3, QuietEvent
<1>11. CASE PopupEscape
  <2>1. /\ UNCHANGED <<sync, rules, escapes, tabs, failed>> /\ Event(0)
        /\ \A u \in Tabs : hatch'[u].grant = hatch[u].grant /\ hatch'[u].go = hatch[u].go
    BY <1>11 DEF PopupEscape, TypeOK, Popups, Hatches
  <2>2. \A u \in Tabs : UNCHANGED <<tabs[u], Escaping(u), escapes[u]>>
    BY <2>1 DEF Escaping
  <2> QED BY <2>1, <2>2, QuietEvent
<1>12. CASE OptionsOpen
  BY <1>12, QuietEvent DEF OptionsOpen, handlers, Escaping
<1>13. CASE PopupEdit \/ PopupSwitch \/ OptionsSave
  BY <1>5, <1>13 DEF PopupEdit, PopupSwitch, OptionsSave
<1> QED
  BY <1>1, <1>2, <1>3, <1>4, <1>6, <1>7, <1>8, <1>9, <1>10, <1>11, <1>12, <1>13, ApplySweeps
  DEF Next, PopupRender, ViewerRefresh, worker, handlers, vars

\* For any tabs and hosts: when the last apply succeeded, no page runs natively that the lists
\* sandbox, except by a live escape hatch, however edits, tabs, hatches and restarts interleaved.
THEOREM SweptIsAllowed == Spec => []NativeIsAllowed
<1>1. Init => MirrorInv /\ SweepInv
  BY DEF Init, MirrorInv, Mirrors, NoHandlers, SweepInv, RulesCurrent, TabsCurrent, Resting
<1>2. TypeOK /\ TypeOK' /\ MirrorInv /\ SweepInv /\ [Next]_vars => MirrorInv' /\ SweepInv'
  BY MirrorStep, SweepStep
<1>3. TypeOK /\ SweepInv => NativeIsAllowed
  <2> SUFFICES ASSUME TypeOK, SweepInv, pending = 0, apply.last = "done" PROVE NativeIsAllowed
    BY DEF NativeIsAllowed
  <2>1. apply.pc = "idle"
    BY DEF TypeOK
  <2>2. rules = DesiredRules(sync) /\ \A t \in Tabs : Allowed(t)
    BY <2>1 DEF SweepInv, RulesCurrent, TabsCurrent, Covered
  <2> QED BY <2>2 DEF NativeIsAllowed, Allowed
<1> QED BY <1>1, <1>2, <1>3, ReconcileTypes, PTL DEF Spec
=============================================================================
