------------------------------- MODULE Frames -------------------------------
(***************************************************************************)
(* The frame pipeline (main.cpp, engine-worker.js, engine-link.mjs,        *)
(* blit.mjs): WebCore's damage becomes paint in the framebuffer, the dirty *)
(* band travels to the page in the one transfer buffer, the canvas shows   *)
(* it, and the buffer's return releases the next frame.  Scrolling shifts  *)
(* painted pixels; a readback repaints without presenting; a resize starts *)
(* the framebuffer over.  A frame is a column of rows; damage and upload   *)
(* are sets of rows (the damage list's rectangles, merged or not).         *)
(***************************************************************************)
EXTENDS Integers, Sequences, FiniteSets

CONSTANTS MaxHeight,     \* the tallest framebuffer bib_set_viewport accepts
          Contents,      \* what a row of the guest's page can show
          BootPage,      \* what it shows at boot
          Blank,         \* a row of a fresh framebuffer or texture
          MaxFrameActs   \* bound: acts of the guest, the window, the probes, and faults

ASSUME HeightAssumption == MaxHeight \in Nat \ {0}
ASSUME ContentsAssumption == BootPage \in Contents /\ Blank \notin Contents

VARIABLES doc,        \* what WebCore would paint now, by row
          fb,         \* g_blitPixels: height, rows
          damage,     \* g_damageRects: rows to repaint
          upload,     \* g_uploadRect: rows painted but not presented
          pushed,     \* firstFramePushed
          inFlight,   \* g_presentInFlight
          canvas,     \* the texture behind #screen: height, rows
          toPage,     \* messages of the worker: frames and readbacks
          toWorker,   \* messages of the page: buffers, resizes, readback requests
          viewport,   \* the canvas' layout, the debounce, what the page applied, and whether
                      \* the engine refused it for lack of memory
          waiters,    \* promises of readback() not resolved
          alive,      \* the worker runs and the page listens
          frameActs

frameVars == <<doc, fb, damage, upload, pushed, inFlight, canvas, toPage, toWorker,
               viewport, waiters, alive, frameActs>>
embedder == <<fb, damage, upload, pushed, inFlight>>

Lines == 1..MaxHeight
Visible == 1..fb.height
Hull(s) == {r \in Lines : \E lo, hi \in s : lo <= r /\ r <= hi}
Fresh(h) == [height |-> h, rows |-> [r \in Lines |-> Blank]]
Painted(f, s) == [f EXCEPT !.rows = [r \in Lines |-> IF r \in s THEN doc[r] ELSE f.rows[r]]]

\* Boot has painted the boot page at the default size and cleared the damage
FramesInit ==
    /\ doc = [r \in Lines |-> BootPage]
    /\ fb = [height |-> MaxHeight, rows |-> doc]
    /\ damage = {} /\ upload = {} /\ pushed = FALSE /\ inFlight = FALSE
    /\ canvas = Fresh(0)
    /\ toPage = <<>> /\ toWorker = <<>>
    /\ viewport = [layout |-> MaxHeight, timer |-> FALSE, applied |-> 0, ready |-> FALSE, refused |-> FALSE]
    /\ waiters = 0 /\ alive = TRUE /\ frameActs = 0

FrameAct == alive /\ frameActs < MaxFrameActs /\ frameActs' = frameActs + 1

-----------------------------------------------------------------------------
(* WebCore and the damage list. *)

\* addDamage: rectangles merge, and a merged one may cover rows nobody asked for
AddDamage(d, s) == {d \cup s \cup gap : gap \in SUBSET (Hull(d \cup s) \ (d \cup s))}

\* The guest changes some rows, and WebCore reports them
GuestPaints == /\ FrameAct
               /\ \E new \in [Lines -> Contents] :
                    /\ doc' = new
                    /\ damage' \in AddDamage(damage, {r \in Lines : new[r] # doc[r]})
               /\ UNCHANGED <<fb, upload, pushed, inFlight, canvas, toPage, toWorker, viewport, waiters, alive>>

\* bibScrollBlit of the rows in clip by d rows.  Pending damage inside rides along; the
\* part of a rectangle that straddles the clip also stays.  When one rectangle covers the
\* clip, or nothing of it survives the shift, all of it is repainted instead.
ScrollBlit(clip, d) ==
    LET dst     == {r \in clip : r - d \in clip}
        moved   == {r \in dst : r - d \in damage}
        exposed == clip \ dst
        stay    == damage \ clip
    IN \/ /\ dst = {} \/ clip \subseteq damage
          /\ damage' \in AddDamage(damage, clip)
          /\ UNCHANGED <<fb, upload>>
       \/ /\ dst # {}
          /\ \E straddling \in SUBSET (damage \cap clip) :
               /\ straddling # {} => stay # {}
               /\ damage' \in AddDamage(stay \cup straddling, moved \cup exposed)
          /\ fb' = [fb EXCEPT !.rows = [r \in Lines |-> IF r \in dst THEN fb.rows[r - d] ELSE fb.rows[r]]]
          /\ upload' = upload \cup clip

GuestScrolls ==
    /\ FrameAct
    /\ \E lo, hi \in Visible, d \in {x \in -MaxHeight..MaxHeight : x # 0}, new \in [Lines -> Contents] :
         LET clip == lo..hi
         IN /\ lo <= hi
            /\ doc' = [r \in Lines |-> IF r \notin clip THEN doc[r]
                                       ELSE IF r - d \in clip THEN doc[r - d] ELSE new[r]]
            /\ ScrollBlit(clip, d)
    /\ UNCHANGED <<pushed, inFlight, canvas, toPage, toWorker, viewport, waiters, alive>>

-----------------------------------------------------------------------------
(* Painting. *)

\* bib_render's regions; force: the whole frame
Dirty(force) == IF force THEN Visible ELSE damage \cap Visible
Reuse(force) == IF force THEN {} ELSE upload \cap Visible

\* Painting done: damage is cleared before it, so what the paint itself invalidates
\* (late) belongs to the next frame
PaintedAll(force, late) ==
    /\ doc' = [r \in Lines |-> IF r \in DOMAIN late THEN late[r] ELSE doc[r]]
    /\ fb' = Painted(fb, Dirty(force))
    /\ damage' = DOMAIN late
LateDamage == {[r \in {} |-> Blank]}
              \cup IF frameActs < MaxFrameActs THEN [{1} -> Contents] ELSE {}
LateCost(late) == frameActs' = frameActs + Cardinality(DOMAIN late)

\* A faulty variant: rows painted before the failure are never reported.
UnpresentedOld(force, done) == Reuse(force)
Unpresented(force, done) == Reuse(force) \cup done

\* A rectangle fails: it and the rest are damage again, what was painted before is upload
PaintFailed(force) ==
    /\ FrameAct
    /\ \E done \in SUBSET Dirty(force) :
         /\ done # Dirty(force)
         /\ fb' = Painted(fb, done)
         /\ damage' = Dirty(force) \ done
         /\ upload' = Unpresented(force, done)
    /\ UNCHANGED doc

\* bibPushFrameIfDirty, in bib_tick: backpressure, paint, hand over the band
FrameBand(f, s) == LET h == Hull(s) IN [kind |-> "frame", height |-> f.height, rows |-> [r \in h |-> f.rows[r]]]
\* A faulty variant: shifted pixels alone are no reason to present.
WorthDamageOnly(force) == force \/ damage # {}
WorthPresenting(force) == force \/ damage # {} \/ upload # {}
\* A faulty variant: the handler answers false, so the engine takes the frame for consumed.
NotHeld == pushed' = TRUE /\ inFlight' = FALSE
\* bibFrame answers true: the frame is in flight until its buffer comes back
Held == pushed' = TRUE /\ inFlight' = TRUE
Tick ==
    /\ alive /\ viewport.ready /\ ~inFlight
    /\ LET force == ~pushed
           box   == Dirty(force) \cup Reuse(force)
       IN /\ WorthPresenting(force)
          /\ \/ /\ box = {} /\ damage' = {} /\ upload' = {}
                /\ UNCHANGED <<doc, fb, pushed, inFlight, toPage, frameActs>>
             \/ /\ box # {} /\ upload' = {} /\ Held
                /\ \E late \in LateDamage :
                     /\ PaintedAll(force, late) /\ LateCost(late)
                     /\ toPage' = Append(toPage, FrameBand(fb', box))
             \/ /\ Dirty(force) # {} /\ PaintFailed(force)
                /\ UNCHANGED <<pushed, inFlight, toPage>>
    /\ UNCHANGED <<canvas, toWorker, viewport, waiters, alive>>

-----------------------------------------------------------------------------
(* The worker's messages. *)

Incoming(kind) == alive /\ toWorker # <<>> /\ Head(toWorker).kind = kind /\ toWorker' = Tail(toWorker)

\* frameReturned: _bib_present_done
FrameReturned == /\ Incoming("return")
                 /\ inFlight' = FALSE
                 /\ UNCHANGED <<doc, fb, damage, upload, pushed, canvas, toPage, viewport, waiters, alive, frameActs>>

Accepts(h) == h \in Lines
StartOver(h) == fb' = Fresh(h) /\ damage' = 1..h /\ upload' = {}

\* bib_set_viewport: a new framebuffer, everything stale; a refused size changes nothing
SetViewport ==
    /\ Incoming("viewport")
    /\ LET h == Head(toWorker).height
       IN \/ /\ Accepts(h) /\ h # fb.height /\ StartOver(h)
             /\ \E new \in [Lines -> Contents] : doc' = new
             /\ viewport' = [viewport EXCEPT !.refused = FALSE]
             /\ UNCHANGED frameActs
          \/ /\ ~Accepts(h) \/ h = fb.height
             /\ UNCHANGED <<doc, fb, damage, upload, viewport, frameActs>>
          \/ /\ FrameAct /\ viewport' = [viewport EXCEPT !.refused = TRUE]   \* out of memory
             /\ UNCHANGED <<doc, fb, damage, upload>>
    /\ UNCHANGED <<pushed, inFlight, canvas, toPage, waiters, alive>>

\* bib_request_readback: a forced repaint nobody presents, so all of it is upload
Readback ==
    /\ Incoming("readback")
    /\ \/ /\ \E late \in LateDamage : PaintedAll(TRUE, late) /\ LateCost(late)
          /\ upload' = Visible
          /\ toPage' = Append(toPage, [kind |-> "readback"])
       \/ /\ PaintFailed(TRUE)
          /\ toPage' = Append(toPage, [kind |-> "readback"])
    /\ UNCHANGED <<pushed, inFlight, canvas, viewport, waiters, alive>>

-----------------------------------------------------------------------------
(* The page. *)

Received(kind) == alive /\ toPage # <<>> /\ Head(toPage).kind = kind /\ toPage' = Tail(toPage)

\* present(): the canvas takes the framebuffer's size, on a change with an empty texture
Presented(c, f) ==
    LET base == IF c.height = f.height THEN c ELSE Fresh(f.height)
    IN [base EXCEPT !.rows = [r \in Lines |-> IF r \in DOMAIN f.rows THEN f.rows[r] ELSE base.rows[r]]]

OnFrame == /\ Received("frame")
           /\ canvas' = Presented(canvas, Head(toPage))
           /\ toWorker' = Append(toWorker, [kind |-> "return"])
           /\ UNCHANGED <<doc, viewport, waiters, alive, frameActs>> /\ UNCHANGED embedder

\* __bs.readback(), and its answer, which resolves every promise there is
RequestReadback == /\ FrameAct /\ viewport.ready
                   /\ waiters' = waiters + 1
                   /\ toWorker' = Append(toWorker, [kind |-> "readback"])
                   /\ UNCHANGED <<doc, canvas, toPage, viewport, alive>> /\ UNCHANGED embedder
OnReadback == /\ Received("readback")
              /\ waiters' = 0
              /\ UNCHANGED <<doc, canvas, toWorker, viewport, alive, frameActs>> /\ UNCHANGED embedder

\* noteCanvasSize: the layout's size, and the debounce (trailing)
Layout(h) == /\ FrameAct
             /\ viewport' = [viewport EXCEPT !.layout = h, !.timer = TRUE]
             /\ UNCHANGED <<doc, canvas, toPage, toWorker, waiters, alive>> /\ UNCHANGED embedder

\* A faulty variant: a size is noted before the engine can be told.
NotedEarly(w) == w.layout
Asks(w) == w.ready /\ w.layout >= 1 /\ w.layout # w.applied
Noted(w) == IF Asks(w) THEN w.layout ELSE w.applied

\* applyViewport, on the timer or, with a fresh measure, in onReady
ApplyViewport(w) ==
    /\ viewport' = [w EXCEPT !.timer = FALSE, !.applied = Noted(w)]
    /\ toWorker' = IF Asks(w) THEN Append(toWorker, [kind |-> "viewport", height |-> w.layout]) ELSE toWorker
ViewportTimer == /\ alive /\ viewport.timer /\ ApplyViewport(viewport)
                 /\ UNCHANGED <<doc, canvas, toPage, waiters, alive, frameActs>> /\ UNCHANGED embedder
OnReady == /\ alive /\ ~viewport.ready /\ ApplyViewport([viewport EXCEPT !.ready = TRUE])
           /\ UNCHANGED <<doc, canvas, toPage, waiters, alive, frameActs>> /\ UNCHANGED embedder

\* An abort, a worker error, killEngine() or pagehide: nothing is sent or heard again
Dies == /\ FrameAct
        /\ alive' = FALSE /\ toPage' = <<>> /\ toWorker' = <<>>
        /\ UNCHANGED <<doc, canvas, viewport, waiters>> /\ UNCHANGED embedder

-----------------------------------------------------------------------------
PageActs == RequestReadback \/ Dies \/ \E h \in 0..(MaxHeight + 1) : Layout(h)
FramesNext == \/ GuestPaints \/ GuestScrolls \/ Tick \/ FrameReturned \/ SetViewport \/ Readback
              \/ OnFrame \/ OnReadback \/ ViewportTimer \/ OnReady \/ PageActs

\* requestAnimationFrame calls while the page is visible; ports deliver.
FramesFairness == /\ WF_frameVars(Tick) /\ WF_frameVars(FrameReturned) /\ WF_frameVars(SetViewport)
                  /\ WF_frameVars(Readback) /\ WF_frameVars(OnFrame) /\ WF_frameVars(OnReadback)
                  /\ WF_frameVars(ViewportTimer) /\ WF_frameVars(OnReady)
FramesSpec == FramesInit /\ [][FramesNext]_frameVars /\ FramesFairness

-----------------------------------------------------------------------------
\* Where messages of a kind are
Where(messages, kind) == {i \in DOMAIN messages : messages[i].kind = kind}
\* The canvas as it will be when the frame on its way has been presented
Arriving == IF Where(toPage, "frame") = {} THEN canvas
            ELSE Presented(canvas, toPage[CHOOSE i \in Where(toPage, "frame") : TRUE])

\* One transfer buffer: while a present is in flight exactly one message carries it, and
\* none otherwise.
OneBuffer ==
    alive => LET frames == Where(toPage, "frame")  returns == Where(toWorker, "return")
             IN IF inFlight THEN \/ returns = {} /\ \E i \in frames : frames = {i}
                                 \/ frames = {} /\ \E i \in returns : returns = {i}
                ELSE frames = {} /\ returns = {}

\* No pixel is forgotten: a row of the framebuffer that is not what the page shows is
\* damage, and a row of the canvas that is not the framebuffer's is damage or upload,
\* whatever scrolled, failed, resized or was read back in between.
NothingForgotten ==
    alive => /\ \A r \in Visible : fb.rows[r] # doc[r] => r \in damage
             /\ pushed => IF Arriving.height = fb.height
                          THEN \A r \in Visible : Arriving.rows[r] # fb.rows[r] => r \in damage \cup upload
                          ELSE Visible \subseteq damage \cup upload

\* Whatever happened, the canvas comes to show the page as it is.
UpToDate == canvas.height = fb.height /\ \A r \in Visible : canvas.rows[r] = doc[r]
CanvasCatchesUp == <>[](UpToDate \/ ~alive)

\* The framebuffer comes to have the size of the canvas' layout, once the debounce is over,
\* unless the engine cannot have that size.
ViewportFollows == <>[](\/ fb.height = viewport.layout \/ viewport.layout \notin Lines
                        \/ viewport.refused \/ ~alive)
=============================================================================
