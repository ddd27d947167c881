----------------------------- MODULE FramesProofs -----------------------------
(***************************************************************************)
(* For a framebuffer of any height and any pages: one transfer buffer      *)
(* carries every frame, and no pixel that is still to be shown is          *)
(* forgotten.                                                              *)
(***************************************************************************)
EXTENDS Frames, TLAPS

Pixels == Contents \cup {Blank}
FrameType == [height : 0..MaxHeight, rows : [Lines -> Pixels]]
Bands == UNION {[s -> Pixels] : s \in SUBSET Lines}
PageMessages == [kind : {"frame"}, height : Lines, rows : Bands] \cup [kind : {"readback"}]
Heights == 0..(MaxHeight + 1)
WorkerMessages == [kind : {"return", "readback"}] \cup [kind : {"viewport"}, height : Heights]
Viewports == [layout : Heights, timer : BOOLEAN, applied : Heights, ready : BOOLEAN, refused : BOOLEAN]

\* Rows stay inside the largest framebuffer, whatever sizes are asked for.
FramesTypeOK ==
  /\ doc \in [Lines -> Contents]
  /\ fb \in FrameType /\ fb.height > 0 /\ canvas \in FrameType
  /\ damage \subseteq Lines /\ upload \subseteq Lines
  /\ pushed \in BOOLEAN /\ inFlight \in BOOLEAN
  /\ toPage \in Seq(PageMessages) /\ toWorker \in Seq(WorkerMessages)
  /\ viewport \in Viewports

-----------------------------------------------------------------------------
(* Messages of a kind in a queue. *)

LEMMA WhereAppend ==
  ASSUME NEW M, NEW s \in Seq(M), NEW m \in M, NEW kind
  PROVE  /\ m.kind # kind => Where(Append(s, m), kind) = Where(s, kind)
         /\ m.kind = kind => Where(Append(s, m), kind) = Where(s, kind) \cup {Len(s) + 1}
         /\ Append(s, m)[Len(s) + 1] = m
<1>1. /\ DOMAIN s = 1..Len(s) /\ DOMAIN Append(s, m) = 1..(Len(s) + 1) /\ Len(s) \in Nat
      /\ Append(s, m)[Len(s) + 1] = m /\ \A i \in 1..Len(s) : Append(s, m)[i] = s[i]
  OBVIOUS
<1> QED BY <1>1 DEF Where

LEMMA WhereTail ==
  ASSUME NEW M, NEW s \in Seq(M), s # <<>>, NEW kind
  PROVE  /\ Head(s).kind = kind => 1 \in Where(s, kind)
         /\ \A i : Where(s, kind) = {i} =>
              IF Head(s).kind = kind THEN i = 1 /\ Where(Tail(s), kind) = {}
              ELSE Where(Tail(s), kind) = {i - 1} /\ Tail(s)[i - 1] = s[i]
         /\ Where(s, kind) = {} => Where(Tail(s), kind) = {}
<1>1. /\ DOMAIN s = 1..Len(s) /\ DOMAIN Tail(s) = 1..(Len(s) - 1) /\ Len(s) \in Nat /\ Len(s) > 0
      /\ Head(s) = s[1] /\ \A i \in 1..(Len(s) - 1) : Tail(s)[i] = s[i + 1]
  OBVIOUS
<1>2. Head(s).kind = kind => 1 \in Where(s, kind)
  BY <1>1 DEF Where
<1>3. \A j \in Where(Tail(s), kind) : j \in 1..(Len(s) - 1) /\ j + 1 \in Where(s, kind)
  BY <1>1 DEF Where
<1>4. \A j \in Where(s, kind) : j \in 1..Len(s) /\ (j > 1 => j - 1 \in Where(Tail(s), kind))
  BY <1>1 DEF Where
<1>5. ASSUME NEW i, Where(s, kind) = {i}, Head(s).kind = kind
      PROVE  i = 1 /\ Where(Tail(s), kind) = {}
  BY <1>2, <1>3, <1>5
<1>6. ASSUME NEW i, Where(s, kind) = {i}, Head(s).kind # kind
      PROVE  Where(Tail(s), kind) = {i - 1} /\ Tail(s)[i - 1] = s[i]
  <2>1. i \in 1..Len(s) /\ i > 1
    BY <1>1, <1>4, <1>6 DEF Where
  <2>2. i - 1 \in Where(Tail(s), kind)
    BY <1>4, <1>6, <2>1
  <2>3. \A j \in Where(Tail(s), kind) : j = i - 1
    BY <1>3, <1>6, <2>1
  <2> QED BY <1>1, <2>1, <2>2, <2>3
<1> QED BY <1>2, <1>3, <1>5, <1>6

\* What is on its way stays what it is while other messages come and go.
LEMMA ArrivingStays ==
  ASSUME FramesTypeOK, alive, OneBuffer, UNCHANGED canvas,
         \/ UNCHANGED toPage
         \/ \E m \in PageMessages : m.kind # "frame" /\ toPage' = Append(toPage, m)
         \/ toPage # <<>> /\ Head(toPage).kind # "frame" /\ toPage' = Tail(toPage)
  PROVE  Arriving' = Arriving
<1>1. toPage \in Seq(PageMessages)
  BY DEF FramesTypeOK
<1>2. CASE Where(toPage, "frame") = {}
  <2>1. \A m \in PageMessages : m.kind # "frame" => Where(Append(toPage, m), "frame") = {}
    BY <1>1, <1>2, WhereAppend
  <2>2. toPage # <<>> => Where(Tail(toPage), "frame") = {}
    BY <1>1, <1>2, WhereTail
  <2> QED BY <1>2, <2>1, <2>2 DEF Arriving
<1>3. ASSUME NEW i, Where(toPage, "frame") = {i} PROVE Arriving' = Arriving
  <2>1. ASSUME NEW m \in PageMessages, m.kind # "frame"
        PROVE  Where(Append(toPage, m), "frame") = {i} /\ Append(toPage, m)[i] = toPage[i]
    <3>1. Where(Append(toPage, m), "frame") = Where(toPage, "frame")
      BY <1>1, <2>1, WhereAppend
    <3>2. \A x \in Where(toPage, "frame") : Append(toPage, m)[x] = toPage[x]
      BY <1>1 DEF Where
    <3> QED BY <1>3, <3>1, <3>2
  <2>2. ASSUME toPage # <<>>, Head(toPage).kind # "frame"
        PROVE  Where(Tail(toPage), "frame") = {i - 1} /\ Tail(toPage)[i - 1] = toPage[i]
    <3>1. \A x : Where(toPage, "frame") = {x} =>
             IF Head(toPage).kind = "frame" THEN x = 1 /\ Where(Tail(toPage), "frame") = {}
             ELSE Where(Tail(toPage), "frame") = {x - 1} /\ Tail(toPage)[x - 1] = toPage[x]
      BY <1>1, <2>2, WhereTail
    <3> QED BY <1>3, <2>2, <3>1
  <2>3. PICK j : Where(toPage', "frame") = {j} /\ toPage'[j] = toPage[i]
    BY <1>3, <2>1, <2>2
  <2>4. (CHOOSE x \in {i} : TRUE) = i /\ (CHOOSE x \in {j} : TRUE) = j
    OBVIOUS
  <2>5. Arriving = Presented(canvas, toPage[i]) /\ Arriving' = Presented(canvas, toPage'[j])
    BY <1>3, <2>3, <2>4 DEF Arriving, Presented, Fresh
  <2> QED BY <2>3, <2>5
<1> QED BY <1>2, <1>3 DEF OneBuffer

-----------------------------------------------------------------------------
(* What the operations of the pipeline return. *)

LEMMA SameSize == FramesTypeOK => Visible \subseteq Lines /\ fb.height \in Lines
BY HeightAssumption DEF FramesTypeOK, FrameType, Visible, Lines

LEMMA FreshType == \A h \in 0..MaxHeight : Fresh(h) \in FrameType /\ Fresh(h).height = h
BY DEF Fresh, FrameType, Pixels

LEMMA AddDamageIs ==
  ASSUME NEW d \in SUBSET Lines, NEW s \in SUBSET Lines, NEW x \in AddDamage(d, s)
  PROVE  x \subseteq Lines /\ d \subseteq x /\ s \subseteq x
BY DEF AddDamage, Hull

LEMMA PaintedIs ==
  ASSUME FramesTypeOK, NEW s
  PROVE  /\ Painted(fb, s) \in FrameType /\ Painted(fb, s).height = fb.height
         /\ \A r \in Lines : Painted(fb, s).rows[r] = IF r \in s THEN doc[r] ELSE fb.rows[r]
<1>1. [r \in Lines |-> IF r \in s THEN doc[r] ELSE fb.rows[r]] \in [Lines -> Pixels]
  BY DEF FramesTypeOK, FrameType, Pixels
<1> QED BY <1>1 DEF Painted, FramesTypeOK, FrameType

LEMMA BandIs ==
  ASSUME NEW f \in FrameType, f.height \in Lines, NEW s
  PROVE  /\ FrameBand(f, s) \in PageMessages /\ FrameBand(f, s).kind = "frame"
         /\ FrameBand(f, s).height = f.height /\ DOMAIN FrameBand(f, s).rows = Hull(s)
         /\ \A r \in Hull(s) : FrameBand(f, s).rows[r] = f.rows[r]
<1>1. Hull(s) \subseteq Lines
  BY DEF Hull
<1>2. [r \in Hull(s) |-> f.rows[r]] \in [Hull(s) -> Pixels]
  BY <1>1 DEF FrameType
<1>3. [r \in Hull(s) |-> f.rows[r]] \in Bands
  BY <1>1, <1>2 DEF Bands
<1> QED BY <1>3 DEF FrameBand, PageMessages

LEMMA PresentedIs ==
  ASSUME NEW c \in FrameType, NEW m \in PageMessages, m.kind = "frame"
  PROVE  /\ Presented(c, m) \in FrameType /\ Presented(c, m).height = m.height
         /\ \A r \in Lines : r \in DOMAIN m.rows => Presented(c, m).rows[r] = m.rows[r]
         /\ c.height = m.height =>
              \A r \in Lines : r \notin DOMAIN m.rows => Presented(c, m).rows[r] = c.rows[r]
<1>1. m.height \in Lines /\ m.rows \in Bands
  BY DEF PageMessages
<1>2. \A r \in DOMAIN m.rows : m.rows[r] \in Pixels
  BY <1>1 DEF Bands
<1> DEFINE base == IF c.height = m.height THEN c ELSE Fresh(m.height)
<1>3. base \in FrameType /\ base.height = m.height
  BY <1>1, FreshType, HeightAssumption DEF Lines
<1>4. [r \in Lines |-> IF r \in DOMAIN m.rows THEN m.rows[r] ELSE base.rows[r]] \in [Lines -> Pixels]
  BY <1>2, <1>3 DEF FrameType
<1>5. Presented(c, m) = [base EXCEPT !.rows = [r \in Lines |-> IF r \in DOMAIN m.rows THEN m.rows[r] ELSE base.rows[r]]]
  BY DEF Presented
<1> HIDE DEF base
<1>6. /\ Presented(c, m) \in FrameType /\ Presented(c, m).height = m.height
      /\ \A r \in Lines : Presented(c, m).rows[r] = IF r \in DOMAIN m.rows THEN m.rows[r] ELSE base.rows[r]
  BY <1>3, <1>4, <1>5 DEF FrameType
<1> QED BY <1>6 DEF base

LEMMA HullCovers == \A s \in SUBSET Lines : s \subseteq Hull(s)
BY DEF Hull, Lines

\* A paint, with what it invalidated itself
LEMMA PaintedAllIs ==
  ASSUME FramesTypeOK, NEW force \in BOOLEAN, NEW late \in LateDamage, PaintedAll(force, late)
  PROVE  /\ doc' \in [Lines -> Contents] /\ fb' \in FrameType /\ fb'.height = fb.height
         /\ damage' \subseteq Lines
         /\ \A r \in Visible : fb'.rows[r] # doc'[r] => r \in damage' \/ (r \notin Dirty(force) /\ fb.rows[r] # doc[r])
         /\ \A r \in Lines : r \notin Dirty(force) => fb'.rows[r] = fb.rows[r]
<1>1. DOMAIN late \subseteq Lines /\ \A r \in DOMAIN late : late[r] \in Contents
  BY HeightAssumption DEF LateDamage, Lines
<1>2. doc' = [r \in Lines |-> IF r \in DOMAIN late THEN late[r] ELSE doc[r]] /\ fb' = Painted(fb, Dirty(force))
      /\ damage' = DOMAIN late
  BY DEF PaintedAll
<1>3. doc' \in [Lines -> Contents]
  BY <1>1, <1>2 DEF FramesTypeOK
<1> QED BY <1>1, <1>2, <1>3, PaintedIs, SameSize

LEMMA PaintFailedIs ==
  ASSUME FramesTypeOK, NEW force \in BOOLEAN, PaintFailed(force)
  PROVE  /\ doc' = doc /\ fb' \in FrameType /\ fb'.height = fb.height
         /\ damage' \subseteq Lines /\ upload' \subseteq Lines
         /\ Dirty(force) \cup Reuse(force) \subseteq damage' \cup upload'
         /\ \A r \in Lines : r \in Dirty(force) /\ r \notin damage' => fb'.rows[r] = doc[r]
         /\ \A r \in Lines : r \notin upload' => fb'.rows[r] = fb.rows[r]
         /\ \A r \in Lines : r \notin Dirty(force) => fb'.rows[r] = fb.rows[r]
<1>1. PICK done \in SUBSET Dirty(force) :
        fb' = Painted(fb, done) /\ damage' = Dirty(force) \ done /\ upload' = Unpresented(force, done)
  BY DEF PaintFailed
<1>2. Dirty(force) \subseteq Lines /\ Reuse(force) \subseteq Lines
  BY SameSize DEF Dirty, Reuse, FramesTypeOK
<1> QED BY <1>1, <1>2, PaintedIs DEF PaintFailed, Unpresented

-----------------------------------------------------------------------------
(* Types. *)

LEMMA ScrollTypes ==
  ASSUME FramesTypeOK, GuestScrolls
  PROVE  /\ doc' \in [Lines -> Contents] /\ fb' \in FrameType /\ fb'.height = fb.height
         /\ damage' \subseteq Lines /\ upload' \subseteq Lines
<1>1. PICK lo \in Visible, hi \in Visible, d \in {x \in -MaxHeight..MaxHeight : x # 0}, new \in [Lines -> Contents] :
        /\ doc' = [r \in Lines |-> IF r \notin lo..hi THEN doc[r]
                                   ELSE IF r - d \in lo..hi THEN doc[r - d] ELSE new[r]]
        /\ ScrollBlit(lo..hi, d)
  BY DEF GuestScrolls
<1> DEFINE clip == lo..hi
           dst == {r \in clip : r - d \in clip}
<1>2. clip \subseteq Lines
  BY SameSize, HeightAssumption DEF Visible, Lines
<1>3. doc' \in [Lines -> Contents]
  BY <1>1, <1>2 DEF FramesTypeOK
<1>4. CASE damage' \in AddDamage(damage, clip) /\ UNCHANGED <<fb, upload>>
  <2>1. damage \in SUBSET Lines /\ clip \in SUBSET Lines
    BY <1>2 DEF FramesTypeOK
  <2>2. damage' \subseteq Lines
    <3> HIDE DEF clip
    <3> QED BY <1>4, <2>1, AddDamageIs
  <2> QED BY <1>3, <1>4, <2>2 DEF FramesTypeOK
<1>5. CASE /\ \E straddling \in SUBSET (damage \cap clip) :
                damage' \in AddDamage((damage \ clip) \cup straddling, {r \in dst : r - d \in damage} \cup (clip \ dst))
           /\ fb' = [fb EXCEPT !.rows = [r \in Lines |-> IF r \in dst THEN fb.rows[r - d] ELSE fb.rows[r]]]
           /\ upload' = upload \cup clip
  <2>1. [r \in Lines |-> IF r \in dst THEN fb.rows[r - d] ELSE fb.rows[r]] \in [Lines -> Pixels]
    BY <1>2 DEF FramesTypeOK, FrameType
  <2>2. fb' \in FrameType /\ fb'.height = fb.height
    BY <1>5, <2>1 DEF FramesTypeOK, FrameType
  <2>3. damage' \subseteq Lines
    <3>1. PICK straddling \in SUBSET (damage \cap clip) :
            damage' \in AddDamage((damage \ clip) \cup straddling, {r \in dst : r - d \in damage} \cup (clip \ dst))
      BY <1>5
    <3>2. (damage \ clip) \cup straddling \subseteq Lines /\ {r \in dst : r - d \in damage} \cup (clip \ dst) \subseteq Lines
      BY <1>2 DEF FramesTypeOK
    <3> QED BY <3>1, <3>2, AddDamageIs
  <2> QED BY <1>2, <1>3, <1>5, <2>2, <2>3 DEF FramesTypeOK
<1> QED BY <1>1, <1>4, <1>5 DEF ScrollBlit

LEMMA TickTypes ==
  ASSUME FramesTypeOK, Tick
  PROVE  FramesTypeOK'
<1>1. UNCHANGED <<canvas, toWorker, viewport>> /\ (~pushed) \in BOOLEAN
  BY DEF Tick
<1> DEFINE box == Dirty(~pushed) \cup Reuse(~pushed)
<1>2. CASE box = {} /\ damage' = {} /\ upload' = {} /\ UNCHANGED <<doc, fb, pushed, inFlight, toPage, frameActs>>
  BY <1>1, <1>2 DEF FramesTypeOK
<1>3. CASE /\ upload' = {} /\ Held
           /\ \E late \in LateDamage : PaintedAll(~pushed, late) /\ toPage' = Append(toPage, FrameBand(fb', box))
  <2>1. PICK late \in LateDamage : PaintedAll(~pushed, late) /\ toPage' = Append(toPage, FrameBand(fb', box))
    BY <1>3
  <2>2. doc' \in [Lines -> Contents] /\ fb' \in FrameType /\ fb'.height = fb.height /\ damage' \subseteq Lines
    BY <1>1, <2>1, PaintedAllIs
  <2>3. FrameBand(fb', box) \in PageMessages
    BY <2>2, SameSize, BandIs
  <2> QED BY <1>1, <1>3, <2>1, <2>2, <2>3 DEF FramesTypeOK, Held
<1>4. CASE PaintFailed(~pushed) /\ UNCHANGED <<pushed, inFlight, toPage>>
  BY <1>1, <1>4, PaintFailedIs DEF FramesTypeOK
<1> QED BY <1>2, <1>3, <1>4 DEF Tick

LEMMA WorkerTypes ==
  ASSUME FramesTypeOK, FrameReturned \/ SetViewport \/ Readback
  PROVE  FramesTypeOK'
<1>1. toWorker \in Seq(WorkerMessages) /\ toWorker # <<>> /\ toWorker' = Tail(toWorker)
  BY DEF FramesTypeOK, FrameReturned, SetViewport, Readback, Incoming
<1>2. toWorker' \in Seq(WorkerMessages)
  BY <1>1
<1>3. CASE FrameReturned
  BY <1>2, <1>3 DEF FrameReturned, FramesTypeOK
<1>4. CASE SetViewport
  <2>1. UNCHANGED <<pushed, inFlight, canvas, toPage>>
    BY <1>4 DEF SetViewport
  <2>2. viewport' \in Viewports
    <3>1. \A b \in BOOLEAN : [viewport EXCEPT !.refused = b] \in Viewports
      BY DEF FramesTypeOK, Viewports
    <3>2. \E b \in BOOLEAN : viewport' = [viewport EXCEPT !.refused = b] \/ viewport' = viewport
      BY <1>4, Zenon DEF SetViewport
    <3> QED BY <3>1, <3>2 DEF FramesTypeOK
  <2>3. CASE UNCHANGED <<doc, fb, damage, upload>>
    BY <1>2, <2>1, <2>2, <2>3 DEF FramesTypeOK
  <2>4. CASE \E h \in Lines, new \in [Lines -> Contents] : StartOver(h) /\ doc' = new
    <3>1. PICK h \in Lines, new \in [Lines -> Contents] : StartOver(h) /\ doc' = new
      BY <2>4
    <3>2. h \in 0..MaxHeight /\ h > 0 /\ 1..h \subseteq Lines
      BY HeightAssumption DEF Lines
    <3> QED BY <1>2, <2>1, <2>2, <3>1, <3>2, FreshType DEF FramesTypeOK, StartOver
  <2> QED BY <1>4, <2>3, <2>4 DEF SetViewport, Accepts
<1>5. CASE Readback
  <2>0. UNCHANGED <<pushed, inFlight, canvas, viewport>> /\ toPage' = Append(toPage, [kind |-> "readback"])
    BY <1>5 DEF Readback
  <2>1. toPage' \in Seq(PageMessages)
    BY <2>0 DEF PageMessages, FramesTypeOK
  <2>2. CASE \E late \in LateDamage : PaintedAll(TRUE, late) /\ upload' = Visible
    BY <1>2, <2>0, <2>1, <2>2, PaintedAllIs, SameSize DEF FramesTypeOK
  <2>3. CASE PaintFailed(TRUE)
    BY <1>2, <2>0, <2>1, <2>3, PaintFailedIs DEF FramesTypeOK
  <2> QED BY <1>5, <2>2, <2>3 DEF Readback
<1> QED BY <1>3, <1>4, <1>5

LEMMA PageTypes ==
  ASSUME FramesTypeOK, OnFrame \/ OnReadback \/ ViewportTimer \/ OnReady \/ PageActs
  PROVE  FramesTypeOK'
<1>1. \A m \in WorkerMessages : Append(toWorker, m) \in Seq(WorkerMessages)
  BY DEF FramesTypeOK
<1>2. toPage # <<>> => Tail(toPage) \in Seq(PageMessages) /\ Head(toPage) \in PageMessages
  BY DEF FramesTypeOK
<1>3. [kind |-> "return"] \in WorkerMessages /\ [kind |-> "readback"] \in WorkerMessages
      /\ \A h \in Heights : [kind |-> "viewport", height |-> h] \in WorkerMessages
  BY DEF WorkerMessages
<1>4. CASE OnFrame
  BY <1>1, <1>2, <1>3, <1>4, PresentedIs DEF OnFrame, Received, FramesTypeOK, embedder
<1>5. CASE OnReadback
  BY <1>2, <1>5 DEF OnReadback, Received, FramesTypeOK, embedder
<1>6. ASSUME NEW w \in Viewports, ApplyViewport(w), UNCHANGED <<doc, canvas, toPage>>, UNCHANGED embedder
      PROVE  FramesTypeOK'
  <2>1. w.layout \in Heights /\ Noted(w) \in Heights
    BY DEF Noted, Viewports
  <2>2. viewport' \in Viewports
    BY <1>6, <2>1 DEF ApplyViewport, Viewports
  <2>3. toWorker' \in Seq(WorkerMessages)
    BY <1>1, <1>3, <1>6, <2>1 DEF ApplyViewport, FramesTypeOK
  <2> QED BY <1>6, <2>2, <2>3 DEF FramesTypeOK, embedder
<1>7. CASE ViewportTimer
  BY <1>6, <1>7 DEF ViewportTimer, FramesTypeOK
<1>8. CASE OnReady
  <2>1. [viewport EXCEPT !.ready = TRUE] \in Viewports
    BY DEF FramesTypeOK, Viewports
  <2> QED BY <1>6, <1>8, <2>1 DEF OnReady
<1>9. CASE RequestReadback
  BY <1>1, <1>3, <1>9 DEF RequestReadback, FramesTypeOK, embedder
<1>10. ASSUME NEW h \in Heights, Layout(h) PROVE FramesTypeOK'
  <2>1. [viewport EXCEPT !.layout = h, !.timer = TRUE] \in Viewports
    BY DEF FramesTypeOK, Viewports
  <2> QED BY <1>10, <2>1 DEF Layout, FramesTypeOK, embedder
<1>11. CASE Dies
  BY <1>11 DEF Dies, FramesTypeOK, embedder
<1> QED BY <1>4, <1>5, <1>7, <1>8, <1>9, <1>10, <1>11 DEF PageActs, Heights

LEMMA FrameTypes ==
  ASSUME FramesTypeOK, [FramesNext]_frameVars
  PROVE  FramesTypeOK'
<1>1. CASE GuestPaints
  <2>1. PICK new \in [Lines -> Contents] :
          doc' = new /\ damage' \in AddDamage(damage, {r \in Lines : new[r] # doc[r]})
    BY <1>1 DEF GuestPaints
  <2>2. {r \in Lines : new[r] # doc[r]} \subseteq Lines
    OBVIOUS
  <2>3. damage' \subseteq Lines
    BY <2>1, <2>2, AddDamageIs DEF FramesTypeOK
  <2> QED BY <1>1, <2>1, <2>3 DEF GuestPaints, FramesTypeOK
<1>2. CASE GuestScrolls
  BY <1>2, ScrollTypes DEF GuestScrolls, FramesTypeOK
<1>3. CASE UNCHANGED frameVars
  BY <1>3 DEF frameVars, FramesTypeOK
<1> QED BY <1>1, <1>2, <1>3, TickTypes, WorkerTypes, PageTypes DEF FramesNext

-----------------------------------------------------------------------------
(* The transfer buffer. *)

NoneIn(s, kind) == Where(s, kind) = {}
OneIn(s, kind) == \E i : Where(s, kind) = {i}

LEMMA QueueCounts ==
  ASSUME NEW M, NEW s \in Seq(M), NEW kind
  PROVE  /\ \A m \in M : m.kind # kind =>
              /\ NoneIn(s, kind) => NoneIn(Append(s, m), kind)
              /\ OneIn(s, kind) => OneIn(Append(s, m), kind)
         /\ \A m \in M : m.kind = kind /\ NoneIn(s, kind) => OneIn(Append(s, m), kind)
         /\ s # <<>> /\ Head(s).kind # kind =>
              /\ NoneIn(s, kind) => NoneIn(Tail(s), kind)
              /\ OneIn(s, kind) => OneIn(Tail(s), kind)
         /\ s # <<>> /\ Head(s).kind = kind => ~NoneIn(s, kind) /\ (OneIn(s, kind) => NoneIn(Tail(s), kind))
<1>1. \A m \in M : m.kind # kind => Where(Append(s, m), kind) = Where(s, kind)
  BY WhereAppend
<1>2. \A m \in M : m.kind = kind => Where(Append(s, m), kind) = Where(s, kind) \cup {Len(s) + 1}
  BY WhereAppend
<1>3. ASSUME s # <<>>
      PROVE  /\ Head(s).kind = kind => 1 \in Where(s, kind)
             /\ \A i : Where(s, kind) = {i} =>
                  IF Head(s).kind = kind THEN i = 1 /\ Where(Tail(s), kind) = {}
                  ELSE Where(Tail(s), kind) = {i - 1} /\ Tail(s)[i - 1] = s[i]
             /\ Where(s, kind) = {} => Where(Tail(s), kind) = {}
  BY <1>3, WhereTail
<1> QED BY <1>1, <1>2, <1>3 DEF NoneIn, OneIn

BufferInv == IF inFlight THEN \/ NoneIn(toWorker, "return") /\ OneIn(toPage, "frame")
                              \/ NoneIn(toPage, "frame") /\ OneIn(toWorker, "return")
             ELSE NoneIn(toPage, "frame") /\ NoneIn(toWorker, "return")

LEMMA BufferIs == OneBuffer <=> (alive => BufferInv)
BY DEF OneBuffer, BufferInv, NoneIn, OneIn

LEMMA BufferStep ==
  ASSUME FramesTypeOK, BufferInv, alive, [FramesNext]_frameVars, alive'
  PROVE  BufferInv'
<1>1. toPage \in Seq(PageMessages) /\ toWorker \in Seq(WorkerMessages)
  BY DEF FramesTypeOK
<1>2. CASE UNCHANGED <<toPage, toWorker, inFlight>>
  BY <1>2 DEF BufferInv, NoneIn, OneIn
<1>3. ASSUME UNCHANGED <<toPage, inFlight>>,
             NEW m \in WorkerMessages, m.kind # "return", toWorker' = Append(toWorker, m)
      PROVE  BufferInv'
  BY <1>1, <1>3, QueueCounts DEF BufferInv
<1>4. CASE Tick
  <2>1. UNCHANGED toWorker /\ ~inFlight
    BY <1>4 DEF Tick
  <2>2. CASE UNCHANGED <<toPage, inFlight>>
    BY <1>2, <2>1, <2>2
  <2>3. CASE \E late, box : PaintedAll(~pushed, late) /\ late \in LateDamage /\ Held
                            /\ toPage' = Append(toPage, FrameBand(fb', box))
    <3>1. PICK late, box : PaintedAll(~pushed, late) /\ late \in LateDamage /\ Held
                           /\ toPage' = Append(toPage, FrameBand(fb', box))
      BY <2>3
    <3>2. fb' \in FrameType /\ fb'.height \in Lines
      BY <3>1, PaintedAllIs, SameSize
    <3>3. FrameBand(fb', box) \in PageMessages /\ FrameBand(fb', box).kind = "frame"
      BY <3>2, BandIs
    <3>4. OneIn(toPage', "frame") /\ NoneIn(toWorker', "return") /\ inFlight'
      BY <1>1, <2>1, <3>1, <3>3, QueueCounts DEF BufferInv, Held
    <3> QED BY <3>4 DEF BufferInv
  <2> QED BY <1>4, <2>2, <2>3 DEF Tick
<1>5. CASE FrameReturned
  <2>1. /\ toWorker # <<>> /\ Head(toWorker).kind = "return" /\ toWorker' = Tail(toWorker)
        /\ ~inFlight' /\ UNCHANGED toPage
    BY <1>5 DEF FrameReturned, Incoming
  <2>2. ~NoneIn(toWorker, "return") /\ (OneIn(toWorker, "return") => NoneIn(toWorker', "return"))
    BY <1>1, <2>1, QueueCounts
  <2>3. NoneIn(toPage', "frame") /\ NoneIn(toWorker', "return")
    BY <2>1, <2>2 DEF BufferInv
  <2> QED BY <2>1, <2>3 DEF BufferInv
<1>6. CASE SetViewport \/ Readback
  <2>1. /\ toWorker # <<>> /\ Head(toWorker).kind # "return" /\ toWorker' = Tail(toWorker) /\ UNCHANGED inFlight
        /\ toPage' = toPage \/ toPage' = Append(toPage, [kind |-> "readback"])
    BY <1>6 DEF SetViewport, Readback, Incoming
  <2>2. /\ NoneIn(toWorker, "return") => NoneIn(toWorker', "return")
        /\ OneIn(toWorker, "return") => OneIn(toWorker', "return")
    BY <1>1, <2>1, QueueCounts
  <2>3. [kind |-> "readback"] \in PageMessages
    BY DEF PageMessages
  <2>4. /\ NoneIn(toPage, "frame") => NoneIn(toPage', "frame")
        /\ OneIn(toPage, "frame") => OneIn(toPage', "frame")
    <3>1. CASE toPage' = toPage
      BY <3>1
    <3>2. CASE toPage' = Append(toPage, [kind |-> "readback"])
      BY <1>1, <2>3, <3>2, QueueCounts
    <3> QED BY <2>1, <3>1, <3>2
  <2> QED BY <2>1, <2>2, <2>4 DEF BufferInv
<1>7. CASE OnFrame
  <2>1. /\ toPage # <<>> /\ Head(toPage).kind = "frame" /\ toPage' = Tail(toPage) /\ UNCHANGED inFlight
        /\ toWorker' = Append(toWorker, [kind |-> "return"])
    BY <1>7 DEF OnFrame, Received, embedder
  <2>2. ~NoneIn(toPage, "frame") /\ (OneIn(toPage, "frame") => NoneIn(toPage', "frame"))
    BY <1>1, <2>1, QueueCounts
  <2>3. [kind |-> "return"] \in WorkerMessages
    BY DEF WorkerMessages
  <2>4. NoneIn(toWorker, "return") => OneIn(toWorker', "return")
    BY <1>1, <2>1, <2>3, QueueCounts
  <2> QED BY <2>1, <2>2, <2>4 DEF BufferInv
<1>8. CASE OnReadback
  <2>1. /\ toPage # <<>> /\ Head(toPage).kind # "frame" /\ toPage' = Tail(toPage) /\ UNCHANGED <<inFlight, toWorker>>
    BY <1>8 DEF OnReadback, Received, embedder
  <2>2. /\ NoneIn(toPage, "frame") => NoneIn(toPage', "frame")
        /\ OneIn(toPage, "frame") => OneIn(toPage', "frame")
    BY <1>1, <2>1, QueueCounts
  <2> QED BY <2>1, <2>2 DEF BufferInv
<1>9. ASSUME NEW w \in Viewports, ApplyViewport(w), UNCHANGED <<toPage, inFlight>> PROVE BufferInv'
  <2>1. [kind |-> "viewport", height |-> w.layout] \in WorkerMessages
    BY DEF WorkerMessages, Viewports
  <2> QED BY <1>2, <1>3, <1>9, <2>1 DEF ApplyViewport
<1>10. CASE ViewportTimer \/ OnReady
  <2>1. viewport \in Viewports /\ [viewport EXCEPT !.ready = TRUE] \in Viewports
    BY DEF FramesTypeOK, Viewports
  <2> QED BY <1>9, <1>10, <2>1 DEF ViewportTimer, OnReady, embedder
<1>11. CASE RequestReadback
  <2>1. [kind |-> "readback"] \in WorkerMessages
    BY DEF WorkerMessages
  <2> QED BY <1>3, <1>11, <2>1 DEF RequestReadback, embedder
<1> QED
  BY <1>2, <1>4, <1>5, <1>6, <1>7, <1>8, <1>10, <1>11
  DEF FramesNext, GuestPaints, GuestScrolls, PageActs, Layout, Dies, embedder, frameVars

-----------------------------------------------------------------------------
(* The pixels. *)

PageShown == \A r \in Visible : fb.rows[r] # doc[r] => r \in damage
BufferShown == pushed => IF Arriving.height = fb.height
                         THEN \A r \in Visible : Arriving.rows[r] # fb.rows[r] => r \in damage \cup upload
                         ELSE Visible \subseteq damage \cup upload

\* A step of the embedder that sends no frame
LEMMA QuietPixels ==
  ASSUME FramesTypeOK, FramesTypeOK', BufferShown, Arriving' = Arriving, pushed' = pushed,
         fb'.height = fb.height,
         \A r \in Visible : \/ r \in damage' \cup upload'
                            \/ r \notin damage \cup upload /\ fb'.rows[r] = fb.rows[r]
  PROVE  BufferShown'
<1>1. Visible' = Visible
  BY DEF Visible
<1> QED BY <1>1 DEF BufferShown

LEMMA GuestPixels ==
  ASSUME FramesTypeOK, FramesTypeOK', alive, OneBuffer, PageShown, BufferShown, GuestPaints \/ GuestScrolls
  PROVE  PageShown' /\ BufferShown'
<1>0. Arriving' = Arriving /\ pushed' = pushed
  BY ArrivingStays DEF GuestPaints, GuestScrolls
<1>1. CASE GuestPaints
  <2>1. PICK new \in [Lines -> Contents] :
          doc' = new /\ damage' \in AddDamage(damage, {r \in Lines : new[r] # doc[r]})
    BY <1>1 DEF GuestPaints
  <2>2. damage \in SUBSET Lines /\ {r \in Lines : new[r] # doc[r]} \in SUBSET Lines
    BY DEF FramesTypeOK
  <2>3. damage \subseteq damage' /\ {r \in Lines : new[r] # doc[r]} \subseteq damage'
    BY <2>1, <2>2, AddDamageIs
  <2>4. UNCHANGED <<fb, upload>> /\ Visible' = Visible /\ Visible \subseteq Lines
    BY <1>1, SameSize DEF GuestPaints, Visible
  <2>5. PageShown'
    BY <2>1, <2>3, <2>4 DEF PageShown
  <2>6. BufferShown'
    BY <1>0, <2>3, <2>4, QuietPixels
  <2> QED BY <2>5, <2>6
<1>2. CASE GuestScrolls
  <2>1. PICK lo \in Visible, hi \in Visible, d \in {x \in -MaxHeight..MaxHeight : x # 0}, new \in [Lines -> Contents] :
          /\ doc' = [r \in Lines |-> IF r \notin lo..hi THEN doc[r]
                                     ELSE IF r - d \in lo..hi THEN doc[r - d] ELSE new[r]]
          /\ ScrollBlit(lo..hi, d)
    BY <1>2 DEF GuestScrolls
  <2> DEFINE clip == lo..hi
             dst == {r \in clip : r - d \in clip}
             moved == {r \in dst : r - d \in damage}
             exposed == clip \ dst
             stay == damage \ clip
  <2>2. clip \subseteq Visible /\ Visible \subseteq Lines /\ fb'.height = fb.height /\ Visible' = Visible
        /\ damage \in SUBSET Lines
    BY <1>2, SameSize, HeightAssumption, ScrollTypes DEF Visible, Lines, FramesTypeOK
  <2>3. \A r \in Lines : r \notin clip => doc'[r] = doc[r]
    BY <2>1
  <2>4. \A r \in dst : doc'[r] = doc[r - d]
    BY <2>1, <2>2
  <2>5. CASE damage' \in AddDamage(damage, clip) /\ UNCHANGED <<fb, upload>>
    <3>1. damage \subseteq damage' /\ clip \subseteq damage'
      <4>1. clip \in SUBSET Lines
        BY <2>2
      <4> HIDE DEF clip
      <4> QED BY <2>2, <2>5, <4>1, AddDamageIs
    <3>2. PageShown'
      BY <2>2, <2>3, <2>5, <3>1 DEF PageShown
    <3>3. BufferShown'
      BY <1>0, <2>2, <2>5, <3>1, QuietPixels
    <3> QED BY <3>2, <3>3
  <2>6. CASE /\ \E straddling \in SUBSET (damage \cap clip) : damage' \in AddDamage(stay \cup straddling, moved \cup exposed)
             /\ fb' = [fb EXCEPT !.rows = [r \in Lines |-> IF r \in dst THEN fb.rows[r - d] ELSE fb.rows[r]]]
             /\ upload' = upload \cup clip
    <3>1. stay \subseteq damage' /\ moved \subseteq damage' /\ exposed \subseteq damage'
      <4>1. PICK straddling \in SUBSET (damage \cap clip) : damage' \in AddDamage(stay \cup straddling, moved \cup exposed)
        BY <2>6
      <4>2. stay \cup straddling \in SUBSET Lines /\ moved \cup exposed \in SUBSET Lines
        BY <2>2
      <4> HIDE DEF clip, dst, moved, exposed, stay
      <4> QED BY <4>1, <4>2, AddDamageIs
    <3>2. \A r \in Lines : fb'.rows[r] = IF r \in dst THEN fb.rows[r - d] ELSE fb.rows[r]
      BY <2>6 DEF FramesTypeOK, FrameType
    <3>3. PageShown'
      <4> SUFFICES ASSUME NEW r \in Visible, fb'.rows[r] # doc'[r] PROVE r \in damage'
        BY <2>2 DEF PageShown
      <4>1. CASE r \in dst
        <5>1. fb.rows[r - d] # doc[r - d] /\ r - d \in Visible
          BY <2>2, <2>4, <3>2, <4>1
        <5>2. r - d \in damage
          BY <5>1 DEF PageShown
        <5> QED BY <3>1, <4>1, <5>2
      <4>2. CASE r \in clip /\ r \notin dst
        BY <3>1, <4>2
      <4>3. CASE r \notin clip
        <5>1. fb.rows[r] # doc[r]
          BY <2>2, <2>3, <3>2, <4>3
        <5> QED BY <3>1, <4>3, <5>1 DEF PageShown
      <4> QED BY <4>1, <4>2, <4>3
    <3>4. BufferShown'
      <4>1. ASSUME NEW r \in Visible
            PROVE  r \in damage' \cup upload' \/ (r \notin damage \cup upload /\ fb'.rows[r] = fb.rows[r])
        BY <2>2, <2>6, <3>1, <3>2
      <4> QED BY <1>0, <2>2, <4>1, QuietPixels
    <3> QED BY <3>3, <3>4
  <2> QED BY <2>1, <2>5, <2>6 DEF ScrollBlit
<1> QED BY <1>1, <1>2

\* A paint that fails half-way keeps every row that is still to be shown.
LEMMA FailedPixels ==
  ASSUME FramesTypeOK, FramesTypeOK', PageShown, BufferShown, Arriving' = Arriving, pushed' = pushed,
         NEW force \in BOOLEAN, PaintFailed(force)
  PROVE  PageShown' /\ BufferShown'
<1>1. /\ doc' = doc /\ fb'.height = fb.height
      /\ Dirty(force) \cup Reuse(force) \subseteq damage' \cup upload'
      /\ \A r \in Lines : r \in Dirty(force) /\ r \notin damage' => fb'.rows[r] = doc[r]
      /\ \A r \in Lines : r \notin Dirty(force) => fb'.rows[r] = fb.rows[r]
  BY PaintFailedIs
<1>2. Visible' = Visible /\ Visible \subseteq Lines
  BY <1>1, SameSize DEF Visible
<1>3. \A r \in Visible : (r \in damage => r \in Dirty(force)) /\ (r \in upload => r \in Dirty(force) \cup Reuse(force))
  BY DEF Dirty, Reuse
<1>4. PageShown'
  BY <1>1, <1>2, <1>3 DEF PageShown
<1>5. BufferShown'
  BY <1>1, <1>2, <1>3, QuietPixels
<1> QED BY <1>4, <1>5

\* A frame: what it leaves out the page has already.
LEMMA TickPixels ==
  ASSUME FramesTypeOK, FramesTypeOK', alive, OneBuffer, PageShown, BufferShown, Tick
  PROVE  PageShown' /\ BufferShown'
<1> DEFINE force == ~pushed
           box == Dirty(force) \cup Reuse(force)
<1>0. UNCHANGED <<canvas, alive>> /\ ~inFlight /\ force \in BOOLEAN
  BY DEF Tick
<1>1. CASE box = {} /\ damage' = {} /\ upload' = {} /\ UNCHANGED <<doc, fb, pushed, toPage>>
  <2>1. \A r \in Visible : r \notin damage \cup upload
    BY <1>1 DEF Dirty, Reuse
  <2>2. Arriving' = Arriving /\ Visible' = Visible
    BY <1>0, <1>1, ArrivingStays DEF Visible
  <2>3. PageShown'
    BY <1>1, <2>1, <2>2 DEF PageShown
  <2>4. BufferShown'
    BY <1>1, <2>1, <2>2, QuietPixels
  <2> QED BY <2>3, <2>4
<1>2. CASE /\ box # {} /\ upload' = {} /\ Held
           /\ \E late \in LateDamage : PaintedAll(force, late) /\ toPage' = Append(toPage, FrameBand(fb', box))
  <2>1. PICK late \in LateDamage : PaintedAll(force, late) /\ toPage' = Append(toPage, FrameBand(fb', box))
    BY <1>2
  <2>2. /\ fb' \in FrameType /\ fb'.height = fb.height
        /\ \A r \in Visible : fb'.rows[r] # doc'[r] => r \in damage' \/ (r \notin Dirty(force) /\ fb.rows[r] # doc[r])
        /\ \A r \in Lines : r \notin Dirty(force) => fb'.rows[r] = fb.rows[r]
    BY <1>0, <2>1, PaintedAllIs
  <2>3. Visible' = Visible /\ Visible \subseteq Lines /\ fb'.height \in Lines /\ box \in SUBSET Lines
    BY <2>2, SameSize DEF Visible, Dirty, Reuse, FramesTypeOK
  <2>4. PageShown'
    <3>1. \A r \in Visible : r \in damage => r \in Dirty(force)
      BY DEF Dirty
    <3> QED BY <2>2, <2>3, <3>1 DEF PageShown
  <2> DEFINE band == FrameBand(fb', box)
  <2>5. /\ band \in PageMessages /\ band.kind = "frame" /\ band.height = fb.height /\ DOMAIN band.rows = Hull(box)
        /\ \A r \in Hull(box) : band.rows[r] = fb'.rows[r]
    BY <2>2, <2>3, BandIs
  <2>6. Where(toPage, "frame") = {} /\ Arriving = canvas
    BY <1>0 DEF OneBuffer, Arriving
  <2>7. Arriving' = Presented(canvas, band)
    <3> HIDE DEF band
    <3>1. toPage \in Seq(PageMessages) /\ toPage' = Append(toPage, band)
      BY <2>1 DEF FramesTypeOK, band
    <3>2. Where(toPage', "frame") = {Len(toPage) + 1} /\ toPage'[Len(toPage) + 1] = band
      <4>1. Where(Append(toPage, band), "frame") = Where(toPage, "frame") \cup {Len(toPage) + 1}
        BY <2>5, <3>1, WhereAppend
      <4>2. Append(toPage, band)[Len(toPage) + 1] = band
        BY <3>1
      <4> QED BY <2>6, <3>1, <4>1, <4>2
    <3>3. (CHOOSE x \in {Len(toPage) + 1} : TRUE) = Len(toPage) + 1
      OBVIOUS
    <3> QED BY <1>0, <3>2, <3>3 DEF Arriving, Presented, Fresh
  <2>8. /\ Presented(canvas, band).height = fb.height
        /\ \A r \in Hull(box) : Presented(canvas, band).rows[r] = fb'.rows[r]
        /\ canvas.height = fb.height => \A r \in Lines \ Hull(box) : Presented(canvas, band).rows[r] = canvas.rows[r]
    <3>1. canvas \in FrameType /\ Hull(box) \subseteq Lines
      BY DEF FramesTypeOK, Hull
    <3> HIDE DEF band, box
    <3> QED BY <2>5, <3>1, PresentedIs
  <2>9. BufferShown'
    <3> SUFFICES ASSUME NEW r \in Visible, r \notin Hull(box) PROVE Presented(canvas, band).rows[r] = fb'.rows[r]
      BY <2>2, <2>3, <2>7, <2>8 DEF BufferShown
    <3>1. r \notin box
      BY <2>3, HullCovers
    <3>2. pushed /\ r \notin damage \cup upload
      BY <3>1 DEF Dirty, Reuse
    <3>3. canvas.height = fb.height /\ canvas.rows[r] = fb.rows[r]
      BY <2>6, <3>2 DEF BufferShown
    <3> QED BY <2>2, <2>3, <2>8, <3>1, <3>3
  <2> QED BY <2>4, <2>9
<1>3. CASE PaintFailed(force) /\ UNCHANGED <<pushed, inFlight, toPage>>
  <2>1. Arriving' = Arriving
    BY <1>0, <1>3, ArrivingStays
  <2> QED BY <1>0, <1>3, <2>1, FailedPixels
<1> QED BY <1>1, <1>2, <1>3 DEF Tick

\* A new framebuffer is all damage; a readback repaints all of it and presents nothing.
LEMMA WorkerPixels ==
  ASSUME FramesTypeOK, FramesTypeOK', alive, OneBuffer, PageShown, BufferShown,
         FrameReturned \/ SetViewport \/ Readback
  PROVE  PageShown' /\ BufferShown'
<1>0. UNCHANGED <<canvas, pushed>>
  BY DEF FrameReturned, SetViewport, Readback
<1>1. CASE UNCHANGED <<doc, fb, damage, upload, toPage>>
  <2>1. Arriving' = Arriving /\ Visible' = Visible
    BY <1>0, <1>1, ArrivingStays DEF Visible
  <2> QED BY <1>0, <1>1, <2>1 DEF PageShown, BufferShown
<1>2. CASE SetViewport /\ \E h \in Lines : StartOver(h)
  <2>1. Visible' \subseteq damage'
    BY <1>2, FreshType, HeightAssumption DEF StartOver, Visible, Lines
  <2> QED BY <2>1 DEF PageShown, BufferShown
<1>3. CASE Readback
  <2>1. toPage' = Append(toPage, [kind |-> "readback"]) /\ [kind |-> "readback"] \in PageMessages
    BY <1>3 DEF Readback, PageMessages
  <2>2. Arriving' = Arriving
    BY <1>0, <2>1, ArrivingStays
  <2>3. CASE \E late \in LateDamage : PaintedAll(TRUE, late) /\ upload' = Visible
    <3>1. /\ fb'.height = fb.height
          /\ \A r \in Visible : fb'.rows[r] # doc'[r] => r \in damage' \/ (r \notin Dirty(TRUE) /\ fb.rows[r] # doc[r])
      BY <2>3, PaintedAllIs
    <3>2. Visible' = Visible
      BY <3>1 DEF Visible
    <3>3. PageShown'
      BY <3>1, <3>2 DEF PageShown, Dirty
    <3>4. BufferShown'
      BY <2>2, <2>3, <3>2 DEF BufferShown
    <3> QED BY <3>3, <3>4
  <2>4. CASE PaintFailed(TRUE)
    BY <1>0, <2>2, <2>4, FailedPixels
  <2> QED BY <1>3, <2>3, <2>4 DEF Readback
<1> QED BY <1>1, <1>2, <1>3 DEF FrameReturned, SetViewport, Accepts

LEMMA PagePixels ==
  ASSUME FramesTypeOK, alive, alive', OneBuffer, PageShown, BufferShown,
         OnFrame \/ OnReadback \/ ViewportTimer \/ OnReady \/ PageActs
  PROVE  PageShown' /\ BufferShown'
<1>1. UNCHANGED <<doc, fb, damage, upload, pushed>>
  BY DEF OnFrame, OnReadback, ViewportTimer, OnReady, PageActs, RequestReadback, Dies, Layout, embedder
<1>2. Arriving' = Arriving
  <2>1. CASE OnFrame
    <3>1. /\ toPage \in Seq(PageMessages) /\ toPage # <<>> /\ Head(toPage).kind = "frame"
          /\ toPage' = Tail(toPage) /\ canvas' = Presented(canvas, Head(toPage))
      BY <2>1 DEF OnFrame, Received, FramesTypeOK
    <3>2. 1 \in Where(toPage, "frame") /\ toPage[1] = Head(toPage)
      BY <3>1, WhereTail
    <3>3. Where(toPage, "frame") = {1}
      BY <3>2 DEF OneBuffer
    <3>4. Where(toPage', "frame") = {}
      <4>1. \A i : Where(toPage, "frame") = {i} =>
              IF Head(toPage).kind = "frame" THEN i = 1 /\ Where(Tail(toPage), "frame") = {}
              ELSE Where(Tail(toPage), "frame") = {i - 1} /\ Tail(toPage)[i - 1] = toPage[i]
        BY <3>1, WhereTail
      <4> QED BY <3>1, <3>3, <4>1
    <3>5. (CHOOSE x \in {1} : TRUE) = 1
      OBVIOUS
    <3> QED BY <3>1, <3>2, <3>3, <3>4, <3>5 DEF Arriving
  <2>2. CASE OnReadback
    BY <2>2, ArrivingStays DEF OnReadback, Received
  <2>3. CASE ViewportTimer \/ OnReady \/ PageActs
    BY <2>3, ArrivingStays DEF ViewportTimer, OnReady, PageActs, RequestReadback, Layout, Dies
  <2> QED BY <2>1, <2>2, <2>3
<1> QED BY <1>1, <1>2 DEF PageShown, BufferShown, Visible

-----------------------------------------------------------------------------
FramesInv == FramesTypeOK /\ OneBuffer /\ (alive => PageShown /\ BufferShown)

LEMMA FramesInductive ==
  /\ FramesInit => FramesInv
  /\ FramesInv /\ [FramesNext]_frameVars => FramesInv'
<1>1. ASSUME FramesInit PROVE FramesInv
  <2>1. FramesTypeOK
    <3>1. Fresh(0) \in FrameType /\ doc \in [Lines -> Contents]
      BY <1>1, FreshType, HeightAssumption, ContentsAssumption DEF FramesInit
    <3>2. fb \in FrameType /\ fb.height > 0 /\ MaxHeight \in Heights /\ 0 \in Heights
      BY <1>1, <3>1, HeightAssumption DEF FramesInit, FrameType, Pixels, Heights
    <3>3. viewport \in Viewports
      BY <1>1, <3>2 DEF FramesInit, Viewports
    <3>4. toPage \in Seq(PageMessages) /\ toWorker \in Seq(WorkerMessages)
      BY <1>1 DEF FramesInit
    <3>5. pushed \in BOOLEAN /\ inFlight \in BOOLEAN /\ damage \subseteq Lines /\ upload \subseteq Lines
          /\ canvas \in FrameType
      BY <1>1, <3>1 DEF FramesInit
    <3> QED BY <3>1, <3>2, <3>3, <3>4, <3>5 DEF FramesTypeOK
  <2> QED BY <1>1, <2>1 DEF FramesInit, FramesInv, OneBuffer, Where, PageShown, BufferShown
<1>2. ASSUME FramesInv, [FramesNext]_frameVars PROVE FramesInv'
  <2>1. FramesTypeOK'
    BY <1>2, FrameTypes DEF FramesInv
  <2>2. OneBuffer'
    <3>1. alive' => alive
      BY <1>2 DEF FramesNext, GuestPaints, GuestScrolls, Tick, FrameReturned, SetViewport, Readback, Incoming,
                  OnFrame, OnReadback, Received, ViewportTimer, OnReady, PageActs, RequestReadback, Layout, Dies,
                  FrameAct, frameVars
    <3>2. alive' => BufferInv'
      BY <1>2, <3>1, BufferStep, BufferIs DEF FramesInv
    <3> QED BY <3>2 DEF OneBuffer, BufferInv, NoneIn, OneIn
  <2>3. ASSUME alive' PROVE PageShown' /\ BufferShown'
    <3>1. CASE UNCHANGED frameVars
      BY <1>2, <2>3, <3>1 DEF FramesInv, frameVars, PageShown, BufferShown, Visible, Arriving, Presented, Fresh, Where
    <3>2. CASE FramesNext
      <4>1. alive
        BY <3>2 DEF FramesNext, GuestPaints, GuestScrolls, Tick, FrameReturned, SetViewport, Readback, Incoming,
                    OnFrame, OnReadback, Received, ViewportTimer, OnReady, PageActs, RequestReadback, Layout, Dies,
                    FrameAct
      <4>2. FramesTypeOK /\ OneBuffer /\ PageShown /\ BufferShown
        BY <1>2, <4>1 DEF FramesInv
      <4> QED BY <2>1, <2>3, <3>2, <4>1, <4>2, GuestPixels, TickPixels, WorkerPixels, PagePixels DEF FramesNext
    <3> QED BY <1>2, <3>1, <3>2
  <2> QED BY <2>1, <2>2, <2>3 DEF FramesInv
<1> QED BY <1>1, <1>2

\* For any framebuffer and page: the transfer buffer is in the engine, or in exactly one message.
THEOREM BufferIsOne == FramesSpec => []OneBuffer
<1>1. FramesInv => OneBuffer
  BY DEF FramesInv
<1> QED BY <1>1, FramesInductive, PTL DEF FramesSpec

\* For any framebuffer and page: a row that is not what the guest shows is damage, and one the
\* canvas does not have is damage or upload, whatever scrolled, failed, resized or was read back.
THEOREM NothingIsForgotten == FramesSpec => []NothingForgotten
<1>1. FramesInv => NothingForgotten
  BY DEF FramesInv, NothingForgotten, PageShown, BufferShown
<1> QED BY <1>1, FramesInductive, PTL DEF FramesSpec
=============================================================================
