-------------------------------- MODULE Pump ---------------------------------
(***************************************************************************)
(* What keeps the engine's run loop turning between frames, and what tells  *)
(* the page of its death.  engine-pre.js turns a wakeup into one channel   *)
(* message and the earliest deadline into one timeout; both call bib_pump. *)
(* engine-worker.js boots the engine and reports an abort; engine-link.mjs  *)
(* and viewer.mjs show it.                                                 *)
(***************************************************************************)
EXTENDS Integers, Sequences

CONSTANTS BurstLimit,   \* failures in a row that disarm the pump: 8
          Tolerance,    \* deadlines this close to the armed one are not armed: 0.25 ms
          MaxNow,       \* bound: the last instant
          MaxTasks,     \* bound: functions and timers the engine ever starts
          MaxThrows     \* bound: exceptions that escape a cycle

ASSUME PumpAssumption == /\ BurstLimit \in Nat \ {0} /\ Tolerance \in Nat
                         /\ MaxNow \in Nat /\ MaxTasks \in Nat /\ MaxThrows \in Nat

VARIABLES clock,    \* performance.now()
          loop,     \* the run loop: dispatched functions, timers' deadlines
          wakeup,   \* the channel: pumpScheduled, message on its way, pumpFailures, handler
          timeout,  \* pumpTimer.at
          runtime,   \* the engine's phase, and whether the worker saw it abort
          mail,     \* messages on their way to the page
          page,     \* what the page shows, and link.dead
          tasks,    \* functions and timers started so far, exceptions so far
          stalled   \* an exception ended the last cycle early

pumpVars == <<clock, loop, wakeup, timeout, runtime, mail, page, tasks, stalled>>

Never == MaxNow + Tolerance + 1    \* Infinity
Earliest(ds) == CHOOSE d \in ds : \A e \in ds : d <= e
Later(a, b) == IF a < b THEN b ELSE a

PumpInit == /\ clock = 0 /\ timeout = Never /\ stalled = FALSE
            /\ loop = [functions |-> 0, deadlines |-> {}]
            /\ wakeup = [scheduled |-> FALSE, posted |-> FALSE, failures |-> 0, handler |-> TRUE]
            /\ runtime = [phase |-> "booting", dead |-> FALSE]
            /\ mail = <<>> /\ page = [shows |-> "booting", linkDead |-> FALSE]
            /\ tasks = [started |-> 0, throws |-> 0]

Runs == runtime.phase = "running"
Posted(message) == mail' = Append(mail, message)

-----------------------------------------------------------------------------
(* The hooks. *)

\* Module.bibWakeUp
Woken(w) == IF w.scheduled THEN w ELSE [w EXCEPT !.scheduled = TRUE, !.posted = TRUE]

\* Module.bibArmTimer
Armed(t, at) == IF at >= t - Tolerance THEN t ELSE at

-----------------------------------------------------------------------------
(* The run loop. *)

Due(l) == {d \in l.deadlines : d <= clock}
HasWork(l) == l.functions > 0 \/ Due(l) # {}

Start(functions, deadlines, w) ==
    /\ loop' = [functions |-> functions, deadlines |-> deadlines]
    /\ wakeup' = w

\* A function is dispatched, or a timer started, from an export call
Dispatch == /\ Runs /\ ~runtime.dead /\ tasks.started < MaxTasks /\ tasks' = [tasks EXCEPT !.started = @ + 1]
            /\ Start(loop.functions + 1, loop.deadlines, Woken(wakeup))
            /\ UNCHANGED <<clock, timeout, runtime, mail, page, stalled>>
StartTimer == /\ Runs /\ ~runtime.dead /\ tasks.started < MaxTasks /\ tasks' = [tasks EXCEPT !.started = @ + 1]
              /\ \E d \in clock..MaxNow : Start(loop.functions, loop.deadlines \cup {d}, Woken(wakeup))
              /\ UNCHANGED <<clock, timeout, runtime, mail, page, stalled>>

\* A faulty variant: only the cycles of a timeout arm the next one.
ArmedAfterTimeout(ds, t) == IF ds = {} \/ t # Never THEN t ELSE Armed(t, Later(clock, Earliest(ds)))
\* The end of a cycle
ArmedAfter(ds, t) == IF ds = {} THEN t ELSE Armed(t, Later(clock, Earliest(ds)))

\* A cycle: what is ready runs, and may start more; w and t are the hooks as it finds them.
CycleEnds(w, t) ==
    \E f \in 0..1, ds \in {{}} \cup {{d} : d \in (clock + 1)..MaxNow} :
        LET left == (loop.deadlines \ Due(loop)) \cup ds
            more == f + (IF ds = {} THEN 0 ELSE 1)
        IN /\ more = 0 \/ (HasWork(loop) /\ tasks.started + more <= MaxTasks)
           /\ tasks' = [tasks EXCEPT !.started = @ + more]
           /\ Start(f, left, IF more > 0 THEN Woken(w) ELSE w)
           /\ timeout' = ArmedAfter(left, t)
           /\ stalled' = FALSE /\ UNCHANGED <<runtime, mail>>

\* An exception escapes it: what had not run is still there, and nothing is armed.
CycleThrows(w, t) ==
    /\ HasWork(loop) /\ tasks.throws < MaxThrows /\ tasks' = [tasks EXCEPT !.throws = @ + 1]
    /\ \E f \in 0..loop.functions, ds \in SUBSET Due(loop) :
           Start(f, loop.deadlines \ ds, w)
    /\ timeout' = t /\ stalled' = TRUE

\* abort in engine-worker.js
Reported == IF runtime.dead THEN UNCHANGED mail ELSE Posted("abort")
\* A faulty variant: the hook replaces the host's onAbort instead of chaining to it.
AbortHookAlone == UNCHANGED mail
\* abortHook, which the runtime's abort() calls before it throws
AbortHook == Reported
CycleAborts(w, t) == /\ HasWork(loop)
                     /\ runtime' = [phase |-> "aborted", dead |-> TRUE] /\ AbortHook
                     /\ loop' = loop /\ wakeup' = w /\ timeout' = t /\ UNCHANGED <<tasks, stalled>>

\* A faulty variant: the message is marked as handled only after the pump.
HeardAfter == [wakeup EXCEPT !.posted = FALSE]
\* pumpChannel.port1.onmessage
Heard == [wakeup EXCEPT !.scheduled = FALSE, !.posted = FALSE]
Failed(w) == [w EXCEPT !.failures = @ + 1, !.handler = (w.failures + 1 < BurstLimit)]
PumpMessage ==
    /\ wakeup.posted /\ wakeup.handler /\ runtime.phase \in {"running", "aborted"}
    /\ \/ Runs /\ CycleEnds([Heard EXCEPT !.failures = 0], timeout)
       \/ Runs /\ CycleThrows(Failed(Heard), timeout) /\ UNCHANGED <<runtime, mail>>
       \/ Runs /\ CycleAborts(Failed(Heard), timeout)
       \/ /\ ~Runs /\ wakeup' = Failed(Heard)
          /\ UNCHANGED <<loop, timeout, runtime, mail, tasks, stalled>>
    /\ UNCHANGED <<clock, page>>

\* The timeout; the browser truncates its delay, so it may come one instant early
TimerFires ==
    /\ timeout # Never /\ clock + 1 >= timeout /\ runtime.phase \in {"running", "aborted"}
    /\ \/ Runs /\ CycleEnds(wakeup, Never)
       \/ Runs /\ CycleThrows(wakeup, Never) /\ UNCHANGED <<runtime, mail>>
       \/ Runs /\ CycleAborts(wakeup, Never)
       \/ ~Runs /\ timeout' = Never /\ UNCHANGED <<loop, wakeup, runtime, mail, tasks, stalled>>
    /\ UNCHANGED <<clock, page>>

\* An export call of the page that cycles the loop, as bib_tick does; what it throws is a death
ExportCall ==
    /\ page.shows = "live" /\ Runs /\ ~runtime.dead
    /\ \/ CycleEnds(wakeup, timeout)
       \/ /\ CycleThrows(wakeup, timeout)
          /\ runtime' = [runtime EXCEPT !.dead = TRUE] /\ Reported
       \/ CycleAborts(wakeup, timeout)
    /\ UNCHANGED <<clock, page>>

ClockTicks == clock < MaxNow /\ clock' = clock + 1
              /\ UNCHANGED <<loop, wakeup, timeout, runtime, mail, page, tasks, stalled>>

-----------------------------------------------------------------------------
(* Boot and death. *)

\* main(), in interactive mode: it sets the engine up and says so; or it exits with status 1, or
\* an exception escapes it, and no hook runs
MainIsReady == runtime' = [runtime EXCEPT !.phase = "running"] /\ mail' = mail \o <<"loaded", "ready">>
MainExits == runtime' = [runtime EXCEPT !.phase = "exited"] /\ Posted("loaded")
\* boot: importScripts, which may fail; or the runtime, or main(), aborts once it has returned
Boots == /\ runtime.phase = "booting"
         /\ \/ MainIsReady \/ MainExits
            \/ runtime' = [runtime EXCEPT !.phase = "missing"] /\ Posted("boot-failed")
            \/ runtime' = [phase |-> "aborted", dead |-> TRUE] /\ mail' = mail \o <<"loaded", "abort">>
         /\ UNCHANGED <<clock, loop, wakeup, timeout, page, tasks, stalled>>
\* Out of memory, or an error no handler caught
WorkerError == /\ runtime.phase \in {"booting", "running", "exited"} /\ Posted("error")
               /\ runtime' = [runtime EXCEPT !.phase = "lost"]
               /\ UNCHANGED <<clock, loop, wakeup, timeout, page, tasks, stalled>>

\* terminate: the worker stops, and what it had posted is dropped
Terminated == runtime' = [runtime EXCEPT !.phase = "terminated"] /\ mail' = <<>>
\* crashed()
Crashed == page' = [shows |-> "crashed", linkDead |-> TRUE] /\ Terminated

\* #onMessage and onerror
Receive ==
    /\ mail # <<>> /\ UNCHANGED <<clock, loop, wakeup, timeout, tasks, stalled>>
    /\ CASE Head(mail) \in {"abort", "error"} /\ ~page.linkDead -> Crashed
         [] Head(mail) = "ready" -> /\ page' = [page EXCEPT !.shows = "live"]
                                    /\ mail' = Tail(mail) /\ UNCHANGED runtime
         [] Head(mail) = "boot-failed" -> /\ page' = [page EXCEPT !.shows = "no engine", !.linkDead = TRUE]
                                          /\ mail' = Tail(mail) /\ UNCHANGED runtime
         [] OTHER -> mail' = Tail(mail) /\ UNCHANGED <<runtime, page>>
\* killEngine, and pagehide
Kill == /\ page.shows \in {"booting", "live"} /\ Crashed
        /\ UNCHANGED <<clock, loop, wakeup, timeout, tasks, stalled>>
PageHides == /\ page.shows # "gone" /\ page' = [page EXCEPT !.shows = "gone", !.linkDead = TRUE]
             /\ Terminated /\ UNCHANGED <<clock, loop, wakeup, timeout, tasks, stalled>>

PumpNext == \/ Dispatch \/ StartTimer \/ PumpMessage \/ TimerFires \/ ExportCall \/ ClockTicks
            \/ Boots \/ WorkerError \/ Receive \/ Kill \/ PageHides
\* Messages and timeouts come, and time passes.  Frames do not: a hidden tab has none.
PumpFairness == /\ WF_pumpVars(PumpMessage) /\ WF_pumpVars(TimerFires) /\ WF_pumpVars(ClockTicks)
                /\ WF_pumpVars(Receive)
PumpSpec == PumpInit /\ [][PumpNext]_pumpVars /\ PumpFairness

-----------------------------------------------------------------------------
\* While the engine runs, nothing it waits for depends on a frame: a function dispatched has a
\* message on its way to the pump, and so has a deadline unless a timeout is armed for it, at
\* most the tolerance late.  Excepted: an exception escaped, or a burst of them disarmed the pump.
WakeupIsComing ==
    Runs /\ ~stalled /\ wakeup.handler =>
        /\ loop.functions > 0 => wakeup.posted
        /\ loop.deadlines # {} => wakeup.posted \/ timeout <= Earliest(loop.deadlines) + Tolerance

\* So the ready work of a hidden tab is run.
WorkIsRun == []<>(~HasWork(loop) \/ ~Runs \/ stalled \/ ~wakeup.handler)

\* The user is told of an engine that aborted, could not be loaded, was lost with its worker,
\* or threw out of an export.  Not of one whose main() exited: no message says so, and the
\* page goes on booting.
CrashIsTold == (runtime.phase \in {"aborted", "missing", "lost"} \/ runtime.dead)
                   ~> page.shows \in {"crashed", "no engine", "gone"}
=============================================================================
