-------------------------------- MODULE Input --------------------------------
(***************************************************************************)
(* Input forwarding (viewer.mjs): the canvas' events become export calls   *)
(* of the engine.  Moves and wheel deltas are coalesced until the next     *)
(* frame; buttons flush them first; a paste waits for the clipboard's data *)
(* to be packed.  An event is known by its number, a call by the events it *)
(* carries: a summed delta is the set of the events summed.                *)
(***************************************************************************)
EXTENDS Integers, Sequences

CONSTANTS Mods,        \* modifier keys that may be held
          NoMods,      \* none of them
          MaxInputs    \* bound: events of the user

ASSUME ModsAssumption == NoMods \in Mods

VARIABLES events,      \* what the user did: kind and modifiers, in order
          queue,       \* pendingMove, pendingWheel, and the calls sent so far
          plainPaste,  \* the last paste key was Ctrl+Shift+V
          packing,     \* pastes whose data is being packed: event, plain
          focused,     \* the canvas is the active element
          corpse       \* bs.dead

inputVars == <<events, queue, plainPaste, packing, focused, corpse>>

NoMove == 0
NoWheel == [ids |-> {}, mods |-> NoMods]
Call(fn, ids, arg) == [fn |-> fn, ids |-> ids, arg |-> arg]
Sent(q, call) == [q EXCEPT !.sent = Append(@, call)]

\* wireInput, then canvas.focus()
InputInit == /\ events = <<>>
             /\ queue = [move |-> NoMove, wheel |-> NoWheel, sent |-> <<Call("bib_set_focus", {}, TRUE)>>]
             /\ plainPaste = FALSE /\ packing = {} /\ focused = TRUE /\ corpse = FALSE

Now == Len(events) + 1
Input(kind, mods) == Len(events) < MaxInputs /\ events' = Append(events, [kind |-> kind, mods |-> mods])

-----------------------------------------------------------------------------
(* Coalescing. *)

FlushMove(q) == IF q.move = NoMove THEN q
                ELSE [Sent(q, Call("bib_mouse_move", {q.move}, NoMods)) EXCEPT !.move = NoMove]
FlushWheel(q) == IF q.wheel = NoWheel THEN q
                 ELSE [Sent(q, Call("bib_wheel", q.wheel.ids, q.wheel.mods)) EXCEPT !.wheel = NoWheel]

\* A faulty variant: the last delta replaces the sum.
SummedLast(q, id) == {id}

\* The wheel handler
Joins(q, mods) == q.wheel # NoWheel /\ q.wheel.mods = mods
Summed(q, id) == q.wheel.ids \cup {id}
Wheeled(q, id, mods) ==
    IF Joins(q, mods) THEN [q EXCEPT !.wheel.ids = Summed(q, id)]
    ELSE [FlushWheel(q) EXCEPT !.wheel = [ids |-> {id}, mods |-> mods]]

\* A faulty variant: a button forgets the wheel.
FlushBeforeButtonMove(q) == FlushMove(q)
FlushBeforeButton(q) == FlushWheel(FlushMove(q))
\* A faulty variant: so does the frame.
FlushBeforeTickMove(q) == FlushMove(q)
FlushBeforeTick(q) == FlushWheel(FlushMove(q))

-----------------------------------------------------------------------------
(* The handlers. *)

Rest == UNCHANGED <<plainPaste, packing, focused, corpse>>
Forward(q) == queue' = IF corpse THEN queue ELSE q

MouseMove == /\ Input("move", NoMods)
             /\ queue' = [queue EXCEPT !.move = Now] /\ Rest
Wheel(mods) == /\ Input("wheel", mods)
               /\ Forward(Wheeled(FlushMove(queue), Now, mods)) /\ Rest

\* setFocus, from the canvas' focus and blur events
FocusCall(q, on) == Sent(q, Call("bib_set_focus", {}, on))
\* canvas.focus()
Focused(q) == IF focused THEN q ELSE FocusCall(q, TRUE)

\* The back and forward buttons are the host's
HostButton == Input("hostbutton", NoMods) /\ UNCHANGED queue /\ Rest
MouseDown == /\ Input("down", NoMods)
             /\ Forward(Sent(FlushBeforeButton(Focused(queue)), Call("bib_mouse_button", {Now}, TRUE)))
             /\ focused' = (focused \/ ~corpse)
             /\ UNCHANGED <<plainPaste, packing, corpse>>
MouseUp == /\ Input("up", NoMods)
           /\ Forward(Sent(FlushBeforeButton(queue), Call("bib_mouse_button", {Now}, FALSE))) /\ Rest
FocusChanges == /\ Input("focus", NoMods)
                /\ focused' = ~focused /\ Forward(FocusCall(queue, ~focused))
                /\ UNCHANGED <<plainPaste, packing, corpse>>

\* Keys.  A paste key is forwarded, and left to the host for its paste event; a key that
\* inserts text is two calls, the key and its CHAR.
HostKey == focused /\ Input("hostkey", NoMods) /\ UNCHANGED queue /\ Rest
KeyDown(kind) == /\ focused /\ kind \in {"key", "pastekey", "plainpastekey"}
                 /\ Input(kind, NoMods)
                 /\ plainPaste' = (kind = "plainpastekey")
                 /\ LET down == Sent(queue, Call("bib_key", {Now}, kind))
                    IN \/ Forward(down)
                       \/ kind = "key" /\ Forward(Sent(down, Call("bib_key", {Now}, "char")))
                 /\ UNCHANGED <<packing, focused, corpse>>
KeyUp == focused /\ Input("keyup", NoMods) /\ Forward(Sent(queue, Call("bib_key", {Now}, "keyup"))) /\ Rest

\* copy and cut, from the host's menus
CopyOrCut == /\ Input("copy", NoMods)
             /\ IF focused THEN Forward(Sent(queue, Call("bib_edit", {Now}, "copy"))) ELSE UNCHANGED queue
             /\ Rest

\* A faulty variant: the flag outlives the paste it was for.
KeptAfterPaste == plainPaste
AfterPaste == FALSE
\* The paste event, from a paste key or a menu; it may carry no data
Paste == /\ focused /\ ~corpse /\ Input("paste", NoMods) /\ plainPaste' = AfterPaste
         /\ \E data \in BOOLEAN :
              packing' = IF data THEN packing \cup {[id |-> Now, plain |-> plainPaste]} ELSE packing
         /\ UNCHANGED <<queue, focused, corpse>>
\* One for the URL bar, or for a corpse
StrayPaste == ~(focused /\ ~corpse) /\ Input("stray paste", NoMods) /\ UNCHANGED queue /\ Rest
\* packDataTransfer resolves, in any order
Packed == \E p \in packing :
             /\ packing' = packing \ {p}
             /\ Forward(Sent(queue, Call("bib_edit", {p.id}, IF p.plain THEN "plain paste" ELSE "paste")))
             /\ UNCHANGED <<events, plainPaste, focused, corpse>>

\* tickLoop, once per frame
FrameTick == /\ ~corpse /\ queue' = FlushBeforeTick(queue)
             /\ UNCHANGED events /\ Rest
\* The engine dies, or the page goes away
InputDies == /\ ~corpse /\ corpse' = TRUE
             /\ UNCHANGED <<events, queue, plainPaste, packing, focused>>

InputNext == \/ MouseMove \/ HostButton \/ MouseDown \/ MouseUp \/ FocusChanges
             \/ HostKey \/ KeyUp \/ CopyOrCut \/ Paste \/ StrayPaste \/ Packed \/ FrameTick \/ InputDies
             \/ \E mods \in Mods : Wheel(mods)
             \/ \E kind \in {"key", "pastekey", "plainpastekey"} : KeyDown(kind)
\* Animation frames and the clipboard's promises come.
InputFairness == WF_inputVars(FrameTick) /\ WF_inputVars(Packed)
InputSpec == InputInit /\ [][InputNext]_inputVars /\ InputFairness

-----------------------------------------------------------------------------
Calls(fn) == {i \in DOMAIN queue.sent : queue.sent[i].fn = fn}
Carried(i) == queue.sent[i].ids
Happened(kind) == {e \in DOMAIN events : events[e].kind = kind}
Delivered == UNION {Carried(i) : i \in DOMAIN queue.sent}

\* "Scroll must land before the click's hit test", and so must the pointer: when a button
\* event is sent, every wheel delta before it has been, the last move before it has been,
\* and nothing of what came after it.
ScrollLandsFirst ==
    \A i \in Calls("bib_mouse_button") : \A b \in Carried(i) :
        /\ \A e \in Happened("wheel") : e < b => \E j \in 1..(i - 1) : e \in Carried(j)
        /\ \A e \in Happened("move") : e < b =>
               \E j \in Calls("bib_mouse_move") : j < i /\ \E m \in Carried(j) : e <= m
        /\ \A j \in 1..(i - 1) : \A e \in Carried(j) : e < b

\* No delta is lost or counted twice: as long as the engine lives, every wheel event is in the
\* pending sum or in exactly one call.
EveryDeltaOnce ==
    ~corpse => \A e \in Happened("wheel") :
        IF e \in queue.wheel.ids THEN e \notin Delivered
        ELSE \E i \in Calls("bib_wheel") : \A j \in DOMAIN queue.sent : e \in Carried(j) <=> j = i

\* A paste is sent as plain text exactly when Ctrl+Shift+V asked for it: of the keys and pastes
\* that reached the canvas before it, the last is that key.
Before(e) == {k \in 1..(e - 1) : events[k].kind \in {"key", "pastekey", "plainpastekey", "paste"}}
PlainIsAsked ==
    \A i \in Calls("bib_edit") : \A e \in Carried(i) \cap Happened("paste") :
        queue.sent[i].arg = "plain paste" <=>
            \E k \in Before(e) : events[k].kind = "plainpastekey" /\ \A l \in Before(e) : l <= k

\* Whatever was coalesced or is being packed reaches the engine.
InputArrives == <>[](corpse \/ (queue.move = NoMove /\ queue.wheel = NoWheel /\ packing = {}))
=============================================================================
