------------------------------- MODULE DevNet --------------------------------
(***************************************************************************)
(* The development transport: bib-net.js fetches for the engine through    *)
(* the dev server's /__bibproxy (dev-server.mjs).  Unlike the extension's  *)
(* bridge it has no guard and no window; a cancelled request is known by   *)
(* its absence from `inflight`.                                            *)
(***************************************************************************)
EXTENDS Integers, Sequences

CONSTANTS Ids,          \* request ids, each begun once
          MaxChunks     \* bound: chunks of a body, and slices of a chunk

ASSUME DevNetAssumption == MaxChunks \in Nat

VARIABLES begun,      \* per id: where begin() is suspended
          inflight,   \* the ids in the map
          told,       \* per id: what the engine was told, in order
          rest        \* per id: slices of the chunk being pushed still to go
devVars == <<begun, inflight, told, rest>>

DevInit == /\ begun = [i \in Ids |-> "not begun"] /\ inflight = {}
           /\ told = [i \in Ids |-> <<>>] /\ rest = [i \in Ids |-> 0]

Tell(i, event) == told' = [told EXCEPT ![i] = Append(@, event)]
At(i, here) == begun[i] = here /\ rest[i] = 0
GoesTo(i, there) == begun' = [begun EXCEPT ![i] = there]
Chunks(i) == Len(SelectSeq(told[i], LAMBDA e : e = "data"))

\* begin, to its fetch
BeginFetch(i) == /\ At(i, "not begun") /\ GoesTo(i, "fetching")
            /\ inflight' = inflight \cup {i} /\ UNCHANGED <<told, rest>>

\* fail
FailFetch(i, event) == /\ Tell(i, event) /\ inflight' = inflight \ {i}
                  /\ GoesTo(i, "over") /\ UNCHANGED rest
\* AbortController: the fetch of a cancelled request rejects, and its body breaks
Aborted(i) == i \notin inflight

\* What /__bibproxy answers: x-bib-error, a redirect, or a status and the start of a body; a
\* request it refuses has no x-bib-meta.
Answers == {"refused", "redirect", "response"}

\* The fetch rejects: cancelled, or the network failed
FetchFails(i) == At(i, "fetching") /\ FailFetch(i, IF Aborted(i) THEN "cancelled" ELSE "failed")

\* A faulty variant: the answer is taken though the request was cancelled meanwhile.
WantedAlways(i) == TRUE
\* The tests of `inflight` after each await
Wanted(i) == i \in inflight
Silent(i) == GoesTo(i, "over") /\ UNCHANGED <<inflight, told, rest>>

Answered(i) ==
    /\ At(i, "fetching")
    /\ \/ ~Wanted(i) /\ Silent(i)
       \/ Wanted(i) /\ \E answer \in Answers :
              \/ answer = "refused" /\ FailFetch(i, "failed")
              \/ answer = "redirect" /\ FailFetch(i, "redirect")
              \/ answer = "response" /\ Tell(i, "response") /\ GoesTo(i, "body") /\ UNCHANGED <<inflight, rest>>

\* A chunk is pushed in slices; the engine may act in between
Chunk(i) == /\ At(i, "body")
            /\ \/ ~Wanted(i) /\ Silent(i)
               \/ /\ Wanted(i) /\ \E n \in 1..MaxChunks : n <= MaxChunks - Chunks(i) /\ rest' = [rest EXCEPT ![i] = n]
                  /\ UNCHANGED <<begun, inflight, told>>
Slice(i) == /\ rest[i] > 0 /\ rest' = [rest EXCEPT ![i] = @ - 1]
            /\ Tell(i, "data") /\ UNCHANGED <<begun, inflight>>
\* The server ends the body as well when the upstream dies in the middle of it
BodyEnds(i) == /\ At(i, "body")
               /\ IF Wanted(i) THEN FailFetch(i, "done") ELSE Silent(i)
BodyBreaks(i) == /\ At(i, "body")
                 /\ IF Wanted(i) THEN FailFetch(i, "failed") ELSE Silent(i)

\* bibNetCancel
DevCancel(i) == /\ i \in inflight /\ inflight' = inflight \ {i}
                /\ UNCHANGED <<begun, told, rest>>

DevNext == \E i \in Ids : \/ BeginFetch(i) \/ FetchFails(i) \/ Answered(i) \/ Chunk(i) \/ Slice(i)
                          \/ BodyEnds(i) \/ BodyBreaks(i) \/ DevCancel(i)
\* The proxy and the reader answer, and a loop over slices goes on.
DevFairness == \A i \in Ids : /\ WF_devVars(Answered(i) \/ FetchFails(i))
                              /\ WF_devVars(Slice(i)) /\ WF_devVars(BodyEnds(i) \/ BodyBreaks(i))
DevSpec == DevInit /\ [][DevNext]_devVars /\ DevFairness

-----------------------------------------------------------------------------
\* What the engine hears of a request it has cancelled is the rest of the chunk it cancelled it
\* in, or CANCELLED; never a response, a redirect or the end of a body it gave up.
CancelIsFinal ==
    [][\A i \in Ids : begun[i] # "not begun" /\ Aborted(i) /\ told'[i] # told[i] =>
           told'[i] = Append(told[i], IF rest[i] > 0 THEN "data" ELSE "cancelled")]_devVars
=============================================================================
