-------------------------------- MODULE Parts --------------------------------
(***************************************************************************)
(* The parts of a viewer page, of the engine's worker and of the tools     *)
(* around them, checked side by side: one part runs, the others rest in    *)
(* their initial states.  They share no state their properties read, so    *)
(* the sum of their behaviours shows what their product would.             *)
(***************************************************************************)
EXTENDS TabHistory, Frames, Persist, Input, Pump, DevNet, MediaStub, Staging,
        ViewerUrl, Bench, WasmScan

(* Values of some constants for TLC. *)
\* Addresses with queries and fragments of their own, some empty or that look like the viewer's
SomePages == {<<"https:", "x">>, <<"https:", "x", "#">>, <<"https:", "?", "x", "&", "url=", "x">>,
              <<"https:", "?", "url=", "x", "#", "?", "url=", "x">>, <<"https:", "#", "&", "url=">>}
SomeParams == {<<>>, <<"x">>, <<"fav", "url=", "x">>, <<"x", "#", "x">>, <<"x", "?", "x">>}
\* Modules with sizes of one byte or more, tables or none, payloads that look like section ids
Sec(id, n) == [id |-> id, pad |-> IF n < 128 THEN 1 ELSE 2, tables |-> 0, rest |-> [i \in 1..n |-> 4]]
TableSec(n, pad) == [id |-> 4, pad |-> pad, tables |-> n, rest |-> <<112, 0, 4>>]
SomeSections == {<<>>, <<Sec(1, 3)>>, <<Sec(0, 130), Sec(1, 0)>>}
TableSecs == {TableSec(n, pad) : n \in {0, 1, 2, 200}, pad \in {2, 5}}
SomeModules == {[header |-> "v1", cut |-> cut, sections |-> before \o tables \o <<Sec(10, 3)>>] :
                  cut \in {0, 5}, before \in SomeSections, tables \in {<<>>} \cup {<<s>> : s \in TableSecs}}
               \cup {[header |-> h, cut |-> 0, sections |-> <<TableSec(2, 1)>>] : h \in {"no wasm", "v2"}}

\* Sources of two kinds
SomeCompiler == [h \in Hashes |-> h]

VARIABLE part    \* the part that runs
partsVars == <<part, historyVars, frameVars, persistVars, inputVars, pumpVars, devVars, mediaVars,
               stagingVars, urlVars, benchVars, wasmVars>>

PartsInit == /\ part \in {"history", "frames", "persist", "input", "pump", "dev", "media",
                       "staging", "url", "bench", "wasm"}
             /\ HistoryInit /\ FramesInit /\ PersistInit /\ InputInit
             /\ PumpInit /\ DevInit /\ MediaInit /\ StagingInit
             /\ UrlInit /\ BenchInit /\ WasmInit

History == part = "history" /\ HistoryNext
           /\ UNCHANGED <<part, frameVars, persistVars, inputVars, pumpVars, devVars,
                         mediaVars, stagingVars, urlVars, benchVars, wasmVars>>
FramePipeline == part = "frames" /\ FramesNext
           /\ UNCHANGED <<part, historyVars, persistVars, inputVars, pumpVars, devVars,
                         mediaVars, stagingVars, urlVars, benchVars, wasmVars>>
Persistence == part = "persist" /\ PersistNext
           /\ UNCHANGED <<part, historyVars, frameVars, inputVars, pumpVars, devVars,
                         mediaVars, stagingVars, urlVars, benchVars, wasmVars>>
Forwarding == part = "input" /\ InputNext
           /\ UNCHANGED <<part, historyVars, frameVars, persistVars, pumpVars, devVars,
                         mediaVars, stagingVars, urlVars, benchVars, wasmVars>>
Pumping == part = "pump" /\ PumpNext
           /\ UNCHANGED <<part, historyVars, frameVars, persistVars, inputVars, devVars,
                         mediaVars, stagingVars, urlVars, benchVars, wasmVars>>
Transport == part = "dev" /\ DevNext
           /\ UNCHANGED <<part, historyVars, frameVars, persistVars, inputVars, pumpVars,
                         mediaVars, stagingVars, urlVars, benchVars, wasmVars>>
Media == part = "media" /\ MediaNext
           /\ UNCHANGED <<part, historyVars, frameVars, persistVars, inputVars, pumpVars,
                         devVars, stagingVars, urlVars, benchVars, wasmVars>>
Scripts == part = "staging" /\ StagingNext
           /\ UNCHANGED <<part, historyVars, frameVars, persistVars, inputVars, pumpVars,
                         devVars, mediaVars, urlVars, benchVars, wasmVars>>
Codec == part = "url" /\ UrlNext
           /\ UNCHANGED <<part, historyVars, frameVars, persistVars, inputVars, pumpVars,
                         devVars, mediaVars, stagingVars, benchVars, wasmVars>>
Benching == part = "bench" /\ BenchNext
           /\ UNCHANGED <<part, historyVars, frameVars, persistVars, inputVars, pumpVars,
                         devVars, mediaVars, stagingVars, urlVars, wasmVars>>
Polyfill == part = "wasm" /\ WasmNext
           /\ UNCHANGED <<part, historyVars, frameVars, persistVars, inputVars, pumpVars,
                         devVars, mediaVars, stagingVars, urlVars, benchVars>>

PartsNext == \/ History \/ FramePipeline \/ Persistence \/ Forwarding
             \/ Pumping \/ Transport \/ Media \/ Scripts
             \/ Codec \/ Benching \/ Polyfill
\* Each part's fairness, while it is the part that runs
PartsFairness ==
    /\ WF_historyVars(part = "history" /\ EngineCall)
    /\ WF_historyVars(part = "history" /\ Commit)
    /\ WF_historyVars(part = "history" /\ Finish)
    /\ WF_historyVars(part = "history" /\ ReceiveUrl)
    /\ WF_historyVars(part = "history" /\ ReceiveFailed)
    /\ WF_historyVars(part = "history" /\ Ready)
    /\ WF_frameVars(part = "frames" /\ Tick)
    /\ WF_frameVars(part = "frames" /\ FrameReturned)
    /\ WF_frameVars(part = "frames" /\ SetViewport)
    /\ WF_frameVars(part = "frames" /\ Readback)
    /\ WF_frameVars(part = "frames" /\ OnFrame)
    /\ WF_frameVars(part = "frames" /\ OnReadback)
    /\ WF_frameVars(part = "frames" /\ ViewportTimer)
    /\ WF_frameVars(part = "frames" /\ OnReady)
    /\ \A t \in ViewerTabs : /\ WF_persistVars(part = "persist" /\ Dump(t))
                            /\ WF_persistVars(part = "persist" /\ OnPersist(t))
                            /\ WF_persistVars(part = "persist" /\ WriteTimer(t))
                            /\ WF_persistVars(part = "persist" /\ WriteDone(t))
    /\ WF_inputVars(part = "input" /\ FrameTick)
    /\ WF_inputVars(part = "input" /\ Packed)
    /\ WF_pumpVars(part = "pump" /\ PumpMessage)
    /\ WF_pumpVars(part = "pump" /\ TimerFires)
    /\ WF_pumpVars(part = "pump" /\ ClockTicks)
    /\ WF_pumpVars(part = "pump" /\ Receive)
PartsSpec == PartsInit /\ [][PartsNext]_partsVars /\ PartsFairness

-----------------------------------------------------------------------------
(* The liveness of a part, of the behaviours in which it runs. *)

\* After the last gesture, load and rewrite, the tab and the engine show the same entry.
HistoryComesToRest == part = "history" => ComesToRest
\* What the guest painted last is on the canvas in the end, unless the engine dies.
FramesCatchUp == part = "frames" => CanvasCatchesUp
\* The engine's framebuffer takes the size the canvas was left with.
FramesFollowViewport == part = "frames" => ViewportFollows
\* What a page's engine stored last reaches the profile's file, unless the page goes away.
StoresReachFile == part = "persist" => ProfileReachesFile
\* Coalesced moves and deltas, and pastes being packed, reach the engine.
InputReachesEngine == part = "input" => InputArrives
\* Ready work runs without a frame's help.
PumpRunsWork == part = "pump" => WorkIsRun
\* A dead engine is shown to the user.
DeathIsShown == part = "pump" => CrashIsTold
=============================================================================
