-------------------------------- MODULE Bench --------------------------------
(***************************************************************************)
(* The bench's input kind (scripts/bench/lib): it clicks and types on a    *)
(* fixture page, and times each input to the first presented frame that    *)
(* shows its response.  The fixture paints two zones whose colours follow  *)
(* from the inputs handled so far; the harness knows the next colour and   *)
(* watches one pixel of the zone for exactly it.                           *)
(***************************************************************************)
EXTENDS Integers, Sequences

CONSTANTS Clicks, KeyCount,     \* sc.clicks, sc.keys
          MaxReps               \* REPS

ASSUME BenchAssumption == Clicks \in Nat /\ KeyCount \in Nat /\ MaxReps \in Nat

VARIABLES expected,   \* the page's B.clicks and B.sum: what the harness believes of each zone
          plan,       \* steps of the rep still to go: zone, character codes or clicks
          watch,      \* B.watch: the zone, the colour wanted; Unwatched
          guest,      \* the fixture: inputs on their way to it, its totals, how many it handled
          screen,     \* the frame in flight, and the pixels the watcher last saw
          fired,      \* inputs dispatched so far
          measured,   \* inputs handled by the frame of the last hit
          reps, invalid   \* reps begun, and those that failed

benchVars == <<expected, plan, watch, guest, screen, fired, measured, reps, invalid>>

Zones == {"click", "sum"}
Unwatched == [zone |-> "none", want |-> 0]
NoFrame == [shows |-> FALSE, total |-> [z \in Zones |-> 0], handled |-> 0]

Colour(total) == total % 256
SumTo(codes, n) == LET upTo[i \in 0..n] == IF i = 0 THEN 0 ELSE upTo[i - 1] + codes[i] IN upTo[n]
Total(codes) == SumTo(codes, Len(codes))
\* The i-th key from zero, and of the burst
Char(i) == 97 + (i % 26)
BurstChar(i) == 97 + ((i + 7) % 26)
\* A rep: each click, each key, then every key back to back
InputRep == [i \in 1..Clicks |-> [zone |-> "click", codes |-> <<1>>]]
            \o [i \in 1..KeyCount |-> [zone |-> "sum", codes |-> <<Char(i - 1)>>]]
            \o <<[zone |-> "sum", codes |-> [i \in 1..KeyCount |-> BurstChar(i - 1)]]>>

BenchInit == /\ expected = [z \in Zones |-> 0] /\ plan = <<>> /\ watch = Unwatched
             /\ guest = [inputs |-> <<>>, total |-> [z \in Zones |-> 0], handled |-> 0]
             /\ screen = NoFrame /\ fired = 0 /\ measured = 0 /\ reps = 0 /\ invalid = 0

-----------------------------------------------------------------------------
(* The harness. *)

\* The next rep, on the page the last one left; a failed step has ended its rep
NextRep == /\ plan = <<>> /\ reps < MaxReps /\ reps' = reps + 1 /\ plan' = InputRep
           /\ UNCHANGED <<expected, watch, guest, screen, fired, measured, invalid>>

Step == Head(plan)
After(zone, codes) == Colour(expected[zone] + Total(codes))
\* awaitPixel arms the watch, then fires the inputs
AwaitPixel ==
    /\ plan # <<>> /\ watch = Unwatched
    /\ watch' = [zone |-> Step.zone, want |-> After(Step.zone, Step.codes)]
    /\ guest' = [guest EXCEPT !.inputs =
                    @ \o [i \in DOMAIN Step.codes |-> [zone |-> Step.zone, code |-> Step.codes[i]]]]
    /\ fired' = fired + Len(Step.codes)
    /\ UNCHANGED <<expected, plan, screen, measured, reps, invalid>>

\* A faulty variant: the colours are compared with a tolerance.
MatchesRoughly(colour) == colour - watch.want \in -1..1
Matches(colour) == colour = watch.want
\* checkWatch: a frame that covers the pixel is presented
PresentFrame(covers) ==
    /\ screen.shows /\ screen' = [screen EXCEPT !.shows = FALSE]
    /\ IF covers /\ watch # Unwatched /\ Matches(Colour(screen.total[watch.zone]))
       THEN /\ measured' = screen.handled /\ watch' = Unwatched /\ plan' = Tail(plan)
            /\ expected' = [expected EXCEPT ![watch.zone] = watch.want]
       ELSE UNCHANGED <<measured, watch, plan, expected>>
    /\ UNCHANGED <<guest, fired, reps, invalid>>

\* The timeout: null, and the rep is invalid.  The response may still come.
WatchExpires == /\ watch # Unwatched /\ watch' = Unwatched /\ plan' = <<>> /\ invalid' = invalid + 1
                /\ UNCHANGED <<expected, guest, screen, fired, measured, reps>>

-----------------------------------------------------------------------------
(* The engine and its fixture. *)

HandleInput == /\ guest.inputs # <<>>
               /\ LET in == Head(guest.inputs)
                  IN guest' = [inputs |-> Tail(guest.inputs), handled |-> guest.handled + 1,
                               total |-> [guest.total EXCEPT ![in.zone] = @ + in.code]]
               /\ UNCHANGED <<expected, plan, watch, screen, fired, measured, reps, invalid>>
\* One frame is in flight at a time
PaintFrame == /\ ~screen.shows
              /\ screen' = [shows |-> TRUE, total |-> guest.total, handled |-> guest.handled]
              /\ UNCHANGED <<expected, plan, watch, guest, fired, measured, reps, invalid>>

BenchNext == \/ NextRep \/ AwaitPixel \/ WatchExpires \/ HandleInput \/ PaintFrame
             \/ \E covers \in BOOLEAN : PresentFrame(covers)
BenchSpec == BenchInit /\ [][BenchNext]_benchVars

-----------------------------------------------------------------------------
\* A latency is the input's own: as long as no step has timed out on the page, a watch that hits
\* hits in a frame painted after everything that was fired had been handled, never in one of
\* the frames that were on screen, in flight, or painted halfway through a burst.
LatencyIsOwn == invalid = 0 /\ watch = Unwatched => measured = fired
=============================================================================
