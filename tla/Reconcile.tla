----------------------------- MODULE Reconcile ------------------------------
(***************************************************************************)
(* Activation, mode and site lists live in storage.sync.  The background   *)
(* script (sw.mjs) turns them into DNR rules and sweeps the open tabs; the *)
(* popup and the options page edit them; the popup's escape hatch opens    *)
(* one tab natively; every viewer keeps a copy for its boundary policy.    *)
(* Every await of that code is a step here, so they interleave.            *)
(***************************************************************************)
EXTENDS Naturals, Sequences
LOCAL INSTANCE SequencesExt

CONSTANTS Hosts,     \* host names: their labels, the last one first; an IP address is one label
          Entries,   \* the entries that lists may have
          Tabs,      \* tab ids: never used twice in a browser session
          None,
          MaxActs    \* bound: acts of the user, the guests and the browser

\* normalizeEntry of a host name; "=host" is the exact one
Entry(h) == [host |-> h, exact |-> FALSE]
ASSUME EntriesAssumption == {Entry(h) : h \in Hosts} \subseteq Entries /\ Entries \subseteq [host : Hosts, exact : BOOLEAN]
\* None names no call
ASSUME NoneAssumption == None \notin {"grant", "go"}

VARIABLES sync,      \* storage.sync
          rules,     \* the dynamic DNR rules
          escapes,   \* the session rules of the escape hatch, by tab
          grants,    \* storage.session: their mirror
          tabs,      \* the open tabs
          policy,    \* listState of the viewer in each tab
          asleep,    \* the background script was stopped, and no event has come since
          pending,   \* applies chained on `applying`, the running one included
          apply,     \* the running doApply, or how the last one ended
          hatch,     \* running open-natively handlers, by tab and by the call they await
          failed,    \* by tab: the call after its rule at which an open-natively handler ended
          cleanup,   \* calls of onRemoved on their way
          popup,     \* what the popup rendered
          options,   \* the lists in the options page's text areas
          acts

worker == <<asleep, pending, apply>>
handlers == <<hatch, failed, cleanup>>
vars == <<sync, rules, escapes, grants, tabs, policy, worker, handlers, popup, options, acts>>

DEFAULT_STATE == [active |-> TRUE, mode |-> "whitelist", whitelist |-> {}, blacklist |-> {}]

\* entryMatches: a domain matches itself and its subdomains, an exact entry its host
EntryMatches(e, h) == e # None /\ IF e.exact THEN h = e.host ELSE IsPrefix(e.host, h)
Covering(list, h) == {e \in list : EntryMatches(e, h)}
ListMatches(list, h) == Covering(list, h) # {}

ShouldSandbox(s, h) ==
    s.active /\ IF s.mode = "whitelist" THEN ~ListMatches(s.whitelist, h) ELSE ListMatches(s.blacklist, h)

\* desiredRuleState: catch-all with allows, or one redirect per entry
DesiredRules(s) ==
    LET whitelisting == s.active /\ s.mode = "whitelist"
    IN [catchall |-> whitelisting,
        allow    |-> IF whitelisting THEN s.whitelist ELSE {},
        redirect |-> IF s.active /\ s.mode = "blacklist" THEN s.blacklist ELSE {}]

\* What DNR does with a main-frame request for h, by priority: the tab's escape first
Redirected(escape, h) == /\ ~EntryMatches(escape, h) /\ ~ListMatches(rules.allow, h)
                         /\ rules.catchall \/ ListMatches(rules.redirect, h)
At(kind, h) == [kind |-> kind, host |-> h]
Landed(t, h) == At(IF Redirected(escapes[t], h) THEN "viewer" ELSE "native", h)
Absent == At("absent", None)
Closed == At("closed", None)
IsOpen(t) == tabs[t].kind \in {"native", "viewer"}

\* A faulty variant: the sweep only frees viewers.
SweepActionNative(s, tab, grant) ==
    IF tab.kind = "viewer" /\ ~ShouldSandbox(s, tab.host) THEN "native" ELSE "none"

\* sweepAction: null, or where the tab has to go
SweepAction(s, tab, grant) ==
    CASE tab.kind = "viewer" /\ ~ShouldSandbox(s, tab.host)                      -> "native"
      [] tab.kind = "native" /\ ShouldSandbox(s, tab.host) /\ ~EntryMatches(grant, tab.host) -> "sandbox"
      [] OTHER -> "none"

\* last: how the last apply ended: it is done, it failed, or a stop cut it
Resting(last) == [pc |-> "idle", state |-> DEFAULT_STATE, escapes |-> [t \in Tabs |-> None],
                  left |-> {}, last |-> last]
NoHandlers == [rule |-> <<>>, grant |-> <<>>, go |-> <<>>]

Init == /\ sync = DEFAULT_STATE
        /\ rules = DesiredRules([DEFAULT_STATE EXCEPT !.active = FALSE])
        /\ escapes = [t \in Tabs |-> None] /\ grants = [t \in Tabs |-> None]
        /\ tabs = [t \in Tabs |-> Absent]
        /\ policy = [t \in Tabs |-> DEFAULT_STATE]
        /\ asleep = FALSE /\ pending = 1 /\ apply = Resting("done")
        /\ hatch = [t \in Tabs |-> NoHandlers] /\ failed = [t \in Tabs |-> None] /\ cleanup = {}
        /\ popup = None /\ options = None /\ acts = 0

Act == acts < MaxActs /\ acts' = acts + 1

\* A faulty variant: the script leaves the state to its listeners when it starts.
StartedIdle(applies) == pending' = pending + applies /\ asleep' = FALSE /\ UNCHANGED apply
\* An event whose listener starts so many applies.  It first starts a script that was stopped,
\* whose last line applies the state.
Event(applies) == /\ pending' = pending + applies + (IF asleep THEN 1 ELSE 0)
                  /\ asleep' = FALSE /\ UNCHANGED apply

-----------------------------------------------------------------------------
(* doApply, await by await; applies are chained, so only one runs. *)

\* A tab that gets a viewer page boots it: the page reads the state for its policy
Move(t, to) == /\ tabs' = [tabs EXCEPT ![t] = to]
               /\ policy' = [policy EXCEPT ![t] = IF to.kind = "viewer" THEN sync ELSE @]

Due == pending > 0 /\ apply.pc = "idle"

ApplyRead == /\ Due
             /\ apply' = [apply EXCEPT !.pc = "rules", !.state = sync]
             /\ UNCHANGED <<rules, pending, tabs, policy>>
ApplyRules == /\ apply.pc = "rules"
              /\ rules' = DesiredRules(apply.state)
              /\ apply' = [apply EXCEPT !.pc = "grants"]
              /\ UNCHANGED <<pending, tabs, policy>>
ApplyGrants == /\ apply.pc = "grants"
               /\ apply' = [apply EXCEPT !.pc = "query", !.escapes = grants]
               /\ UNCHANGED <<rules, pending, tabs, policy>>
\* tabs.query: the sweep works through this snapshot
ApplyQuery ==
    /\ apply.pc = "query"
    /\ apply' = [apply EXCEPT !.pc = "sweep",
                   !.left = {[id |-> t, at |-> tabs[t]] : t \in {x \in Tabs : IsOpen(x)}}]
    /\ UNCHANGED <<rules, pending, tabs, policy>>
NextTab(tab) == apply' = [apply EXCEPT !.left = @ \ {tab}]
\* The tabs of the snapshot, in whatever order the browser lists them
SweepTab ==
    /\ apply.pc = "sweep"
    /\ \E tab \in apply.left :
         /\ LET op == SweepAction(apply.state, tab.at, apply.escapes[tab.id])
            IN IF ~IsOpen(tab.id) \/ op = "none" THEN UNCHANGED <<tabs, policy>>
               ELSE Move(tab.id, IF op = "sandbox" THEN At("viewer", tab.at.host) ELSE Landed(tab.id, tab.at.host))
         /\ NextTab(tab)
    /\ UNCHANGED <<rules, pending>>
\* The next apply of the chain may run, whether this one resolved or rejected
Settles(last) == pending' = pending - 1 /\ apply' = Resting(last)
ApplyDone == /\ apply.pc = "sweep" /\ apply.left = {} /\ Settles("done")
             /\ UNCHANGED <<rules, tabs, policy>>
\* A call that doApply awaits rejects, and nothing tries again
ApplyFails == /\ Act /\ (Due \/ apply.pc \in {"rules", "grants", "query"})
              /\ Settles("failed")
              /\ UNCHANGED <<sync, rules, escapes, grants, tabs, policy, asleep, handlers, popup, options>>

Apply == /\ ApplyRead \/ ApplyRules \/ ApplyGrants \/ ApplyQuery \/ SweepTab \/ ApplyDone
         /\ UNCHANGED <<sync, escapes, grants, asleep, handlers, popup, options, acts>>

-----------------------------------------------------------------------------
(* The escape hatch, and the end of a tab. *)

\* A faulty variant: the sweep cannot see the grant.
GrantUnstored(t, h) == UNCHANGED grants
Grant(t, h) == grants' = [grants EXCEPT ![t] = Entry(h)]
\* open-natively: the rule, its mirror, then the navigation; the popup closes on the answer.
\* Each of the three calls is served in the order it is made, but handlers of a tab overlap.
SetRule(t) ==
    /\ hatch[t].rule # <<>>
    /\ LET h == Head(hatch[t].rule)
       IN /\ escapes' = [escapes EXCEPT ![t] = Entry(h)]
          /\ hatch' = [hatch EXCEPT ![t] = [rule |-> Tail(hatch[t].rule), grant |-> Append(hatch[t].grant, h),
                                            go |-> hatch[t].go]]
    /\ UNCHANGED <<grants, tabs, policy, failed, popup>>
StoreGrant(t) ==
    /\ hatch[t].grant # <<>>
    /\ LET h == Head(hatch[t].grant)
       IN /\ Grant(t, h)
          /\ hatch' = [hatch EXCEPT ![t] = [rule |-> hatch[t].rule, grant |-> Tail(hatch[t].grant),
                                            go |-> Append(hatch[t].go, h)]]
    /\ failed' = [failed EXCEPT ![t] = None]
    /\ UNCHANGED <<escapes, tabs, policy, popup>>
GoNative(t) ==
    /\ hatch[t].go # <<>>
    /\ IF IsOpen(t) THEN Move(t, Landed(t, Head(hatch[t].go))) ELSE UNCHANGED <<tabs, policy>>
    /\ hatch' = [hatch EXCEPT ![t].go = Tail(hatch[t].go)]
    /\ popup' = IF popup # None /\ popup.tab = t THEN None ELSE popup
    /\ UNCHANGED <<escapes, grants, failed>>
HatchStep(t) == /\ SetRule(t) \/ StoreGrant(t) \/ GoNative(t)
                /\ UNCHANGED <<sync, rules, worker, cleanup, options, acts>>
\* A call rejects: the handler ends there, and leaves what it has done
HatchFails(t) ==
    /\ Act
    /\ \E call \in {"rule", "grant", "go"} :
         /\ hatch[t][call] # <<>>
         /\ hatch' = [hatch EXCEPT ![t][call] = Tail(hatch[t][call])]
         /\ failed' = IF call = "rule" \/ failed[t] = "grant" THEN failed ELSE [failed EXCEPT ![t] = call]
    /\ UNCHANGED <<sync, rules, escapes, grants, tabs, policy, worker, cleanup, popup, options>>

\* tabs.onRemoved starts two calls and awaits neither
CloseTab(t) == /\ Act /\ IsOpen(t)
               /\ tabs' = [tabs EXCEPT ![t] = Closed]
               /\ cleanup' = cleanup \cup {<<t, "rule">>, <<t, "grant">>} /\ Event(0)
               /\ UNCHANGED <<sync, rules, escapes, grants, policy, hatch, failed, popup, options>>
CleanUp(t) == /\ \/ /\ <<t, "rule">> \in cleanup /\ cleanup' = cleanup \ {<<t, "rule">>}
                    /\ escapes' = [escapes EXCEPT ![t] = None] /\ UNCHANGED grants
                 \/ /\ <<t, "grant">> \in cleanup /\ cleanup' = cleanup \ {<<t, "grant">>}
                    /\ grants' = [grants EXCEPT ![t] = None] /\ UNCHANGED escapes
              /\ UNCHANGED <<sync, rules, tabs, policy, worker, hatch, failed, popup, options, acts>>

-----------------------------------------------------------------------------
(* The pages that edit the state. *)

\* storage.onChanged: one more apply
Set(new) == /\ new # sync /\ sync' = new /\ Event(1)
            /\ UNCHANGED <<rules, escapes, grants, tabs, policy, handlers>>

\* render(): the buttons keep this state and this tab until the next render
Rendered(s, t) == IF IsOpen(t) THEN [state |-> s, tab |-> t, kind |-> tabs[t].kind, host |-> tabs[t].host]
                  ELSE None
PopupRender(t) == /\ Act /\ IsOpen(t)
                  /\ popup' = Rendered(sync, t)
                  /\ UNCHANGED <<sync, rules, escapes, grants, tabs, policy, worker, handlers, options>>

\* primaryActions: the buttons of the popup, each with its entry
Button(op, e) == [op |-> op, entry |-> e]
Offered ==
    IF popup = None \/ ~popup.state.active THEN {}
    ELSE LET s == popup.state  h == popup.host
             once == {Button("open-native-once", Entry(h))}
         IN CASE s.mode = "whitelist" /\ popup.kind = "viewer" -> {Button("trust", Entry(h))} \cup once
              [] s.mode = "whitelist" /\ popup.kind = "native" -> {Button("untrust", e) : e \in Covering(s.whitelist, h)}
              [] s.mode = "blacklist" /\ popup.kind = "native" -> {Button("sandbox", Entry(h))}
              [] OTHER -> {Button("unsandbox", e) : e \in Covering(s.blacklist, h)} \cup once

\* A list edit rewrites the list the popup rendered, then renders again
Edited(button, s) ==
    LET e == button.entry
    IN CASE button.op = "trust"     -> [sync EXCEPT !.whitelist = s.whitelist \cup {e}]
         [] button.op = "untrust"   -> [sync EXCEPT !.whitelist = s.whitelist \ {e}]
         [] button.op = "sandbox"   -> [sync EXCEPT !.blacklist = s.blacklist \cup {e}]
         [] button.op = "unsandbox" -> [sync EXCEPT !.blacklist = s.blacklist \ {e}]
PopupEdit ==
    /\ Act /\ popup # None
    /\ \E button \in Offered : button.op # "open-native-once" /\ Set(Edited(button, popup.state))
    /\ popup' = Rendered(sync', popup.tab)
    /\ UNCHANGED options
\* "Open natively once" starts a handler; until it answers, the buttons are still there
PopupEscape == /\ Act /\ popup # None
               /\ \E button \in Offered : button.op = "open-native-once"
               /\ hatch' = [hatch EXCEPT ![popup.tab].rule = Append(hatch[popup.tab].rule, popup.host)]
               /\ Event(0)
               /\ UNCHANGED <<sync, rules, escapes, grants, tabs, policy, failed, cleanup, popup, options>>
PopupSwitch == /\ Act /\ popup # None /\ UNCHANGED options
               /\ \/ Set([sync EXCEPT !.active = ~@])
                  \/ \E m \in {"whitelist", "blacklist"} : Set([sync EXCEPT !.mode = m])
               /\ popup' = Rendered(sync', popup.tab)

\* The options page reads the lists once, when it opens, and saves both
OptionsOpen == /\ Act /\ options' = [whitelist |-> sync.whitelist, blacklist |-> sync.blacklist]
               /\ Event(0)
               /\ UNCHANGED <<sync, rules, escapes, grants, tabs, policy, handlers, popup>>
OptionsSave ==
    /\ Act /\ options # None
    /\ \E e \in Entries, list \in {"whitelist", "blacklist"}, add \in BOOLEAN :
         /\ options' = [options EXCEPT ![list] = IF add THEN @ \cup {e} ELSE @ \ {e}]
         /\ Set([sync EXCEPT !.whitelist = options'.whitelist, !.blacklist = options'.blacklist])
    /\ UNCHANGED popup

-----------------------------------------------------------------------------
(* The browser and the viewers. *)

Browse(t, h) == /\ Act /\ tabs[t] # Closed
                /\ Move(t, Landed(t, h)) /\ Event(0)
                /\ UNCHANGED <<sync, rules, escapes, grants, handlers, popup, options>>

\* A guest's top-level navigation: navigationPolicy decides with the viewer's own copy
ViewerNavigate(t, h) ==
    /\ Act /\ tabs[t].kind = "viewer"
    /\ IF ShouldSandbox(policy[t], h)
       THEN tabs' = [tabs EXCEPT ![t] = At("viewer", h)] /\ UNCHANGED policy
       ELSE Move(t, Landed(t, h))
    /\ Event(0)
    /\ UNCHANGED <<sync, rules, escapes, grants, handlers, popup, options>>
\* onStateChanged: the copy follows, in its own time
ViewerRefresh(t) == /\ tabs[t].kind = "viewer" /\ policy[t] # sync
                    /\ policy' = [policy EXCEPT ![t] = sync]
                    /\ UNCHANGED <<sync, rules, escapes, grants, tabs, worker, handlers, popup, options, acts>>

\* The browser restarts: session storage and rules are gone, a restored native tab may
\* load before any rule is registered, and the state is applied, by onStartup as well.
Restart == /\ Act
           /\ \E unseen \in SUBSET {t \in Tabs : tabs[t].kind = "native"} :
                tabs' = [t \in Tabs |-> CASE t \in unseen -> tabs[t]
                                          [] tabs[t].kind = "native" /\ t \notin unseen ->
                                               At(IF Redirected(None, tabs[t].host) THEN "viewer" ELSE "native", tabs[t].host)
                                          [] tabs[t] = Closed -> Absent
                                          [] OTHER -> tabs[t]]
           /\ escapes' = [t \in Tabs |-> None] /\ grants' = [t \in Tabs |-> None]
           /\ policy' = [t \in Tabs |-> sync]
           /\ asleep' = FALSE /\ pending' = 2 /\ apply' = Resting("done")
           /\ hatch' = [t \in Tabs |-> NoHandlers] /\ failed' = [t \in Tabs |-> None] /\ cleanup' = {}
           /\ popup' = None /\ options' = None
           /\ UNCHANGED <<sync, rules>>

\* The background script is stopped, at any await: what it had chained is gone.  An
\* open-natively message it has not answered keeps it alive.
WorkerStops == /\ Act /\ ~asleep /\ hatch = [t \in Tabs |-> NoHandlers]
               /\ asleep' = TRUE /\ pending' = 0
               /\ apply' = Resting(IF pending > 0 THEN "cut" ELSE apply.last)
               /\ UNCHANGED <<sync, rules, escapes, grants, tabs, policy, handlers, popup, options>>

Next == \/ Apply \/ ApplyFails \/ WorkerStops \/ PopupEdit \/ PopupEscape \/ PopupSwitch \/ OptionsOpen \/ OptionsSave \/ Restart
        \/ \E t \in Tabs : \/ HatchStep(t) \/ HatchFails(t) \/ CloseTab(t) \/ CleanUp(t)
                           \/ PopupRender(t) \/ ViewerRefresh(t)
        \/ \E t \in Tabs, h \in Hosts : Browse(t, h) \/ ViewerNavigate(t, h)

\* Promises the browser resolves; nobody has to act.
Fairness == /\ WF_vars(Apply)
            /\ \A t \in Tabs : WF_vars(HatchStep(t)) /\ WF_vars(CleanUp(t)) /\ WF_vars(ViewerRefresh(t))
Spec == Init /\ [][Next]_vars /\ Fairness

-----------------------------------------------------------------------------
Lists == [whitelist : SUBSET Entries, blacklist : SUBSET Entries]
States == [active : BOOLEAN, mode : {"whitelist", "blacklist"},
           whitelist : SUBSET Entries, blacklist : SUBSET Entries]
OpenPlaces == [kind : {"native", "viewer"}, host : Hosts]
Escapes == [Tabs -> Entries \cup {None}]
Applies == [pc : {"idle", "rules", "grants", "query", "sweep"}, state : States, escapes : Escapes,
            left : SUBSET [id : Tabs, at : OpenPlaces], last : {"done", "failed", "cut"}]
Hatches == [rule : Seq(Hosts), grant : Seq(Hosts), go : Seq(Hosts)]
Popups == [state : States, tab : Tabs, kind : {"native", "viewer"}, host : Hosts]
\* Every state in the browser's stores, in the pages and on its way is one the code can read,
\* an apply that runs is one of those counted, and none is while the script is stopped.
TypeOK ==
    /\ sync \in States /\ policy \in [Tabs -> States]
    /\ rules \in [catchall : BOOLEAN, allow : SUBSET Entries, redirect : SUBSET Entries]
    /\ escapes \in Escapes /\ grants \in Escapes /\ tabs \in [Tabs -> OpenPlaces \cup {Absent, Closed}]
    /\ asleep \in BOOLEAN /\ pending \in Nat /\ apply \in Applies
    /\ asleep => pending = 0
    /\ apply.pc # "idle" => pending > 0
    /\ hatch \in [Tabs -> Hatches] /\ failed \in [Tabs -> {None, "grant", "go"}]
    /\ cleanup \subseteq Tabs \X {"rule", "grant"}
    /\ popup \in Popups \cup {None} /\ options \in Lists \cup {None}

\* A handler has set its tab's rule, and has not navigated the tab: it is about to, or it failed
Escaping(t) == hatch[t].grant # <<>> \/ hatch[t].go # <<>> \/ failed[t] # None
\* No page runs natively that the lists sandbox, once the last apply is done, except by
\* a live escape hatch: whatever the lists, the tabs and the rules did meanwhile.
NativeIsAllowed ==
    pending = 0 /\ apply.last = "done" =>
        /\ rules = DesiredRules(sync)
        /\ \A t \in Tabs : tabs[t].kind = "native" /\ ~Escaping(t)
             => ~ShouldSandbox(sync, tabs[t].host) \/ EntryMatches(escapes[t], tabs[t].host)
\* The mirror the sweep reads says what the rule enforces, however many handlers of the tab
\* overlapped, once no rule's mirror is on its way; excepted is a mirror that was rejected.
GrantMirrorsRule ==
    \A t \in Tabs : IsOpen(t) /\ hatch[t].grant = <<>> /\ failed[t] # "grant" => grants[t] = escapes[t]
\* Every change of the state ends up applied, through stops of the script, edits and sweeps that
\* overlap, except where the code gives up: the apply after the change failed, or the script was
\* stopped and no event has come since.
Reconciled == <>[](pending = 0 /\ (rules = DesiredRules(sync) \/ apply.last = "failed" \/ asleep))
\* The sweep lets a tab with a live grant be: what it read of grants and tabs may be old by
\* the time it comes to that tab.
SweepsOne == apply.pc = "sweep" /\ apply'.pc = "sweep" /\ apply' # apply
EscapeIsHonoured ==
    [][\A t \in Tabs : SweepsOne /\ tabs[t].kind = "native" /\ tabs'[t].kind = "viewer"
          => ~EntryMatches(grants[t], tabs[t].host)]_vars
=============================================================================
