------------------------------ MODULE MediaStub ------------------------------
(***************************************************************************)
(* The guest's media element (media-stub.js): no engine plays anything, so *)
(* a load fails, asynchronously and once.  A load is known by its token;   *)
(* a listener may unsubscribe another, or start the next load, while the   *)
(* error event is being dispatched.                                        *)
(***************************************************************************)
EXTENDS Integers, Sequences, FiniteSets

CONSTANTS Listeners, MaxMediaActs      \* bound: what the page does

ASSUME MediaAssumption == MaxMediaActs \in Nat

VARIABLES media,      \* src is set, _loadToken, _error, _networkState
          queued,     \* tokens of the timeouts that have not come yet
          listeners,  \* _listeners.error: entries, in order
          dispatch,   \* the entries of the snapshot still to be called
          mediaActs

mediaVars == <<media, queued, listeners, dispatch, mediaActs>>

MediaInit == /\ media = [src |-> FALSE, token |-> 0, error |-> 0, network |-> "empty"]
             /\ queued = {} /\ listeners = <<>> /\ dispatch = <<>> /\ mediaActs = 0

\* The page acts between events, or from the listener being called
Acts == mediaActs < MaxMediaActs /\ mediaActs' = mediaActs + 1

\* A faulty variant: loads are not told apart.
NextTokenSame(m) == 1
NextToken(m) == m.token + 1
\* load
Loaded(m) == [src |-> m.src, token |-> NextToken(m), error |-> 0,
              network |-> IF m.src THEN "loading" ELSE "empty"]
Load(src) == /\ Acts /\ media' = Loaded([media EXCEPT !.src = src])
             /\ queued' = IF src THEN queued \cup {[token |-> NextToken(media), at |-> mediaActs]} ELSE queued
             /\ UNCHANGED <<listeners, dispatch>>

Subscribed == {listeners[i] : i \in DOMAIN listeners}
Registered(who) == \E e \in Subscribed : e.who = who
AddListener(who, once) ==
    /\ Acts /\ listeners' = IF Registered(who) THEN listeners
                            ELSE Append(listeners, [who |-> who, once |-> once, at |-> mediaActs])
    /\ UNCHANGED <<media, queued, dispatch>>
Without(list, who) == SelectSeq(list, LAMBDA e : e.who # who)
RemoveListener(who) == /\ Acts /\ listeners' = Without(listeners, who)
                       /\ UNCHANGED <<media, queued, dispatch>>

\* The timeout of a load
TimeoutFires ==
    /\ dispatch = <<>>
    /\ \E q \in queued :
         /\ \A other \in queued : q.at <= other.at
         /\ queued' = queued \ {q}
         /\ IF q.token = media.token
            THEN /\ media' = [media EXCEPT !.error = 4, !.network = "no source"]
                 /\ dispatch' = listeners
            ELSE UNCHANGED <<media, dispatch>>
         /\ UNCHANGED <<listeners, mediaActs>>

\* live.indexOf(entry)
Live(entry) == entry \in Subscribed
\* The next entry of the snapshot
CallListener(entry) == listeners' = IF entry.once THEN Without(listeners, entry.who) ELSE listeners
DispatchNext == /\ dispatch # <<>> /\ dispatch' = Tail(dispatch)
                /\ IF Live(Head(dispatch)) THEN CallListener(Head(dispatch)) ELSE UNCHANGED listeners
                /\ UNCHANGED <<media, queued, mediaActs>>

MediaNext == \/ \E src \in BOOLEAN : Load(src)
             \/ \E who \in Listeners : RemoveListener(who) \/ \E once \in BOOLEAN : AddListener(who, once)
             \/ TimeoutFires \/ DispatchNext
\* Timeouts come, and a dispatch goes on.
MediaFairness == WF_mediaVars(TimeoutFires) /\ WF_mediaVars(DispatchNext)
MediaSpec == MediaInit /\ [][MediaNext]_mediaVars /\ MediaFairness

-----------------------------------------------------------------------------
\* An element shows an error only for the source it has: never while the load of a later source
\* is still to fail, nor once the source was taken away.
ErrorIsCurrent == media.error # 0 => media.src /\ queued = {}
=============================================================================
