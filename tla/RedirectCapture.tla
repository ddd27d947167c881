-------------------------- MODULE RedirectCapture --------------------------
(***************************************************************************)
(* src/shim/redirect-capture.mjs: what webRequest saw of the bridge's      *)
(* fetches, as one FIFO of unclaimed entries and one FIFO of waiting       *)
(* take()s for each URL.  Every tab has a capture of its own, and its      *)
(* listeners keep every event whose initiator is the extension's origin:   *)
(* the events of the OTHER viewer tabs' fetches too (redirect-capture      *)
(* :92-96, notes/networking.md "never filter on tabId").                   *)
(*                                                                         *)
(* An entry is [req, redirect]: whose response it describes, and whether   *)
(* isRedirectEntry holds of it.  Header lists, the Location rewrite of     *)
(* Chrome's onBeforeRedirect and the Firefox line splitting are the entry's*)
(* content, which only the engine reads.                                   *)
(*                                                                         *)
(* The operators are fragments of the actions of module Bridge: each says  *)
(* what one call does to queues and waiters.                               *)
(***************************************************************************)
EXTENDS Requests

VARIABLES
  queues,   \* queues[t][u]: captured entries nobody took yet
  waiters   \* waiters[t][u]: take()s that found the queue empty, oldest first

captureVars == <<queues, waiters>>

Entry == [req : Req, redirect : BOOLEAN]

CaptureTypeOK ==
  /\ queues \in [Tab -> [Url -> Seq(Entry)]]
  /\ waiters \in [Tab -> [Url -> Seq(Req \cup {Nobody})]]

CaptureInit ==
  /\ queues = [t \in Tab |-> [u \in Url |-> <<>>]]
  /\ waiters = [t \in Tab |-> [u \in Url |-> <<>>]]

\* The capture of a tab that closes goes with the page.
CaptureReset(t) ==
  /\ queues' = [queues EXCEPT ![t] = [u \in Url |-> <<>>]]
  /\ waiters' = [waiters EXCEPT ![t] = [u \in Url |-> <<>>]]

Captured(t, u) == queues[t][u] # <<>>

\* take() on a URL with a captured entry: the oldest one, at once.
TakeCaptured(t, u) ==
  /\ queues' = [queues EXCEPT ![t][u] = Tail(@)]
  /\ UNCHANGED waiters

\* take() on a URL with none: wait behind the waiters already there.
Wait(t, u, w) ==
  /\ waiters' = [waiters EXCEPT ![t][u] = Append(@, w)]
  /\ UNCHANGED queues

\* A faulty variant: discard() drops an entry that is there and forgets one that is not.
DiscardCapturedOnly(t, u) ==
  /\ queues' = [queues EXCEPT ![t][u] = IF @ = <<>> THEN @ ELSE Tail(@)]
  /\ UNCHANGED waiters

\* discard() is a take() whose result nobody reads.
Discard(t, u) ==
  \/ Captured(t, u) /\ TakeCaptured(t, u)
  \/ ~Captured(t, u) /\ Wait(t, u, Nobody)

\* The sweep that opens every push drops, from each queue of the tab, the
\* entries older than 30 s: a prefix, as queues are in order of age.
Swept(t, cut) ==
  [u \in Url |-> SubSeq(queues[t][u], cut[u] + 1, Len(queues[t][u]))]

\* A faulty variant: push() queues the entry even though somebody waits for it.
PushQueueAlways(t, u, e, cut) ==
  /\ queues' = [queues EXCEPT ![t] = [Swept(t, cut) EXCEPT ![u] = Append(@, e)]]
  /\ UNCHANGED waiters

\* push() of an entry: to the oldest waiter, else to the queue.
Push(t, u, e, cut) ==
  \/ /\ waiters[t][u] # <<>>
     /\ waiters' = [waiters EXCEPT ![t][u] = Tail(@)]
     /\ queues' = [queues EXCEPT ![t] = Swept(t, cut)]
  \/ /\ waiters[t][u] = <<>>
     /\ queues' = [queues EXCEPT ![t] = [Swept(t, cut) EXCEPT ![u] = Append(@, e)]]
     /\ UNCHANGED waiters

\* The 800 ms timer of a take(): timers of one length fire in the order they
\* were set, so the oldest waiter gives up first.
GiveUp(t, u) ==
  /\ waiters[t][u] # <<>>
  /\ waiters' = [waiters EXCEPT ![t][u] = Tail(@)]
  /\ UNCHANGED queues
=============================================================================
