------------------------------ MODULE PartsProofs ------------------------------
(***************************************************************************)
(* What the parts beside the bridge promise, for any capacities, limits    *)
(* and numbers of events: the tab's history mirrors the engine's, input    *)
(* goes once and in order, the pump needs no frame, the development        *)
(* transport's cancel is final, a media element's error is current, a      *)
(* staged engine is what its record says, a viewer's address is read as it *)
(* was written, a measured latency is that of its own input, and a         *)
(* module's tables are counted.  Each section has the inductive invariant  *)
(* of one part.                                                            *)
(***************************************************************************)
EXTENDS TabHistory, Input, Pump, DevNet, MediaStub, Staging, ViewerUrl, Bench, WasmScan,
        FiniteSetTheorems, SequenceTheorems, WellFoundedInduction, TLAPS

-----------------------------------------------------------------------------
(* TabHistory: what is in flight between the tab and the engine.           *)

Items == [id : Nat, url : Urls]
Entries == [url : Urls, index : Int]
Provisional == [kind : {"new", "replace", "traverse"}, url : Urls, id : Nat]
UrlOrNone == Urls \cup {NoUrl}
Viewers == [start : Urls, mirror : [url : UrlOrNone, index : Int], forceReplace : BOOLEAN,
           want : Entries \cup {NoUrl}, issuedFrom : Int, url : UrlOrNone, index : Int, length : Nat,
           ready : BOOLEAN, dead : BOOLEAN, strip : BOOLEAN, stale : BOOLEAN]
EngineStates == [list : Seq(Items), cur : Int, prov : Provisional \cup {NoUrl},
                 open : {"new", "replace", "traverse", "cut", NoUrl}]
HistoryCalls == [fn : {"bib_go"}, arg : Int] \cup [fn : {"bib_load_url"}, arg : Urls]
SignalSet == [kind : {"new", "replace", "traverse", "failed"}, url : Urls, index : Int, length : Nat]

\* The cursor is in the list, and only an engine with a list replaces or traverses.
CursorIsSane(en) == en.cur \in -1..(Len(en.list) - 1) /\ (en.cur = -1 => en.list = <<>>)
EngineIsSane(en) ==
    /\ CursorIsSane(en)
    /\ en.open \in {"new", "replace", "traverse"} => en.cur >= 0
    /\ en.prov # NoUrl /\ en.prov.kind # "new" => en.cur >= 0

HistoryTypes ==
    /\ tab \in [entries : Seq(Entries), pos : Nat] /\ tab.pos \in DOMAIN tab.entries
    /\ viewer \in Viewers /\ engine \in EngineStates /\ EngineIsSane(engine)
    /\ calls \in Seq(HistoryCalls) /\ signals \in Seq(SignalSet)
    /\ \A i \in DOMAIN signals : signals[i].kind # "failed" => signals[i].index \in Nat
    /\ historyActs \in Nat

Loads(cs) == \E i \in DOMAIN cs : cs[i].fn = "bib_load_url"
\* A load is under way, or asked for: the engine will signal its end; or it was cancelled
Underway(cs, en) == Loads(cs) \/ en.prov # NoUrl \/ en.open # NoUrl
\* u, at i of n, is where the engine is
Accurate(en, u, i, n) == en.cur >= 0 /\ u = en.list[en.cur + 1].url /\ i = en.cur /\ n = Len(en.list)
\* The last the engine said is true, or of a failure
Truthful(en, ss, v) ==
    IF ss = <<>> THEN v.strip \/ Accurate(en, v.url, v.index, v.length)
    ELSE LET s == ss[Len(ss)] IN s.kind = "failed" \/ Accurate(en, s.url, s.index, s.length)
\* A bib_go that moves an engine which is where v believes it to be
Moving(cs, v) == \E i \in DOMAIN cs : /\ cs[i].fn = "bib_go" /\ cs[i].arg # 0
                                      /\ v.index + cs[i].arg \in 0..(v.length - 1)
\* The entry the tab is on is the one the viewer heard of
Shows(t, v) == t.entries[t.pos].url = v.url /\ t.entries[t.pos].index \in {NoIndex, v.index}

Mirroring == viewer.mirror \in {Here, [url |-> NoUrl, index |-> NoIndex]}
EngineHeard == Underway(calls, engine) \/ Truthful(engine, signals, viewer)
TabFollows == \/ Underway(calls, engine) \/ signals # <<>> \/ viewer.strip \/ viewer.stale
              \/ Shows(tab, viewer) \/ Moving(calls, viewer)
HistoryInv == /\ HistoryTypes /\ Mirroring
              /\ viewer.ready /\ ~viewer.dead => EngineHeard /\ TabFollows

-----------------------------------------------------------------------------
(* TabHistory: the operators.                                              *)

LEMMA FirstNumbers ==
  ASSUME NEW m \in Nat
  PROVE  IsFiniteSet(1..m) /\ Cardinality(1..m) = m
<1>1. IsFiniteSet(1..m) /\ Cardinality(1..m) = IF 1 > m THEN 0 ELSE m - 1 + 1
  BY FS_Interval
<1> QED BY <1>1

LEMMA ImageIsSmall ==
  ASSUME NEW S, NEW T, NEW f, f \in Surjection(S, T), IsFiniteSet(S)
  PROVE  IsFiniteSet(T) /\ Cardinality(T) <= Cardinality(S)
BY FS_Surjection

\* An item nobody holds is found: the list and a traversal hold one id fewer
LEMMA NewItemIs ==
  ASSUME NEW en \in EngineStates, NEW u \in Urls
  PROVE  NewItem(en, u) \in Items /\ NewItem(en, u).url = u
<1> DEFINE n == Len(en.list)
           ids == {en.list[i].id : i \in DOMAIN en.list}
           held == ids \cup IF en.prov = NoUrl THEN {} ELSE {en.prov.id}
<1>1. en.list \in Seq(Items) /\ DOMAIN en.list = 1..n /\ n \in Nat
  BY DEF EngineStates
<1>2. IsFiniteSet(1..n) /\ Cardinality(1..n) = n
  <2> HIDE DEF n
  <2>1. 1 \in Int /\ n \in Int /\ (n = 0 => 1 > n) /\ (n # 0 => ~(1 > n)) /\ n - 1 + 1 = n
    BY <1>1
  <2>2. IsFiniteSet(1..n) /\ Cardinality(1..n) = IF 1 > n THEN 0 ELSE n - 1 + 1
    BY <2>1, FS_Interval
  <2> QED BY <2>1, <2>2
<1>3. ids = {en.list[i].id : i \in 1..n}
  BY <1>1
<1>4. IsFiniteSet(ids) /\ Cardinality(ids) <= n
  <2> DEFINE f == [i \in 1..n |-> en.list[i].id]
  <2>1. f \in [1..n -> ids] /\ \A x \in ids : \E i \in 1..n : f[i] = x
    BY <1>3
  <2>2. f \in Surjection(1..n, ids)
    BY <2>1 DEF Surjection
  <2> HIDE DEF f, ids
  <2> DEFINE S == 1..n
  <2>3. f \in Surjection(S, ids) /\ IsFiniteSet(S) /\ Cardinality(S) = n
    BY <1>2, <2>2
  <2> HIDE DEF S
  <2>4. IsFiniteSet(ids) /\ Cardinality(ids) <= Cardinality(S)
    BY <2>3, ImageIsSmall
  <2> QED BY <2>3, <2>4
<1>5. IsFiniteSet(held) /\ Cardinality(held) <= n + 1
  <2>1. Cardinality(ids) \in Nat
    BY <1>4, FS_CardinalityType
  <2>2. CASE en.prov = NoUrl
    <3>1. held = ids
      BY <2>2
    <3> HIDE DEF ids, held, n
    <3> QED BY <1>1, <1>4, <2>1, <3>1
  <2>3. CASE en.prov # NoUrl
    <3>1. held = ids \cup {en.prov.id}
      BY <2>3
    <3>2. /\ IsFiniteSet(ids \cup {en.prov.id})
          /\ Cardinality(ids \cup {en.prov.id}) <= Cardinality(ids) + 1
      <4>1. /\ IsFiniteSet(ids \cup {en.prov.id})
            /\ Cardinality(ids \cup {en.prov.id}) =
                 IF en.prov.id \in ids THEN Cardinality(ids) ELSE Cardinality(ids) + 1
        BY <1>4, FS_AddElement
      <4> QED BY <2>1, <4>1
    <3> HIDE DEF ids, held
    <3> QED BY <1>1, <1>4, <2>1, <3>1, <3>2, FS_CardinalityType
  <2> QED BY <2>2, <2>3
<1> HIDE DEF ids, held
<1>6. \E i \in 1..(n + 2) : i \notin held
  <2> SUFFICES ASSUME 1..(n + 2) \subseteq held PROVE FALSE
    OBVIOUS
  <2>1. IsFiniteSet(1..(n + 2)) /\ Cardinality(1..(n + 2)) = n + 2
    <3>1. n + 2 \in Nat
      BY <1>1
    <3> QED BY <3>1, FirstNumbers, Zenon
  <2>2. Cardinality(1..(n + 2)) <= Cardinality(held)
    BY <1>5, FS_Subset
  <2>3. Cardinality(held) \in Nat
    BY <1>5, FS_CardinalityType
  <2> QED BY <1>1, <1>5, <2>1, <2>2, <2>3
<1>7. NewItem(en, u) = [id |-> CHOOSE i \in 1..(n + 2) : i \notin held, url |-> u]
  BY DEF NewItem, held, ids
<1>8. (CHOOSE i \in 1..(n + 2) : i \notin held) \in 1..(n + 2)
  BY <1>6
<1>9. (CHOOSE i \in 1..(n + 2) : i \notin held) \in Nat
  BY <1>1, <1>8
<1> QED BY <1>7, <1>9 DEF Items

LEMMA AddItemIs ==
  ASSUME NEW en \in EngineStates, CursorIsSane(en), NEW u \in Urls
  PROVE  LET to == AddItem(en, u)
         IN  /\ to \in EngineStates /\ EngineIsSane(to) /\ to.cur >= 0
             /\ to.prov = en.prov /\ to.open = en.open /\ to.list[to.cur + 1].url = u
<1> DEFINE kept == SubSeq(en.list, 1, en.cur + 1)
           full == Len(kept) = Capacity /\ en.cur > 0
           rest0 == IF full THEN Tail(kept) ELSE kept
           item == NewItem(en, u)
           list == Append(rest0, item)
           to == [en EXCEPT !.list = list, !.cur = Len(list) - 1]
<1>1. en.list \in Seq(Items) /\ en.cur \in Int /\ en.cur + 1 \in 0..Len(en.list) /\ Len(en.list) \in Nat
  BY DEF EngineStates, EngineIsSane, CursorIsSane
<1>2. kept \in Seq(Items) /\ Len(kept) = en.cur + 1
  <2>1. \A i \in 1..(en.cur + 1) : i \in 1..Len(en.list)
    BY <1>1
  <2> QED BY <1>1, <2>1
<1>3. item \in Items /\ item.url = u
  BY NewItemIs
<1> HIDE DEF kept, item
<1>4. rest0 \in Seq(Items)
  <2>1. CASE full
    <3>1. kept # <<>>
      BY <1>1, <1>2, <2>1
    <3> QED BY <1>2, <2>1, <3>1
  <2>2. CASE ~full
    BY <1>2, <2>2
  <2> QED BY <2>1, <2>2
<1> HIDE DEF rest0
<1>5. list \in Seq(Items) /\ Len(list) \in Nat \ {0} /\ list[Len(list)] = item
  BY <1>3, <1>4
<1> HIDE DEF list
<1>6. /\ to \in EngineStates /\ to.cur = Len(list) - 1 /\ to.list = list
      /\ to.prov = en.prov /\ to.open = en.open
  <2>1. Len(list) - 1 \in Int
    BY <1>5
  <2> QED BY <1>5, <2>1 DEF EngineStates
<1>7. AddItem(en, u) = to
  BY DEF AddItem, kept, full, rest0, item, list
<1> HIDE DEF to
<1>8. EngineIsSane(to) /\ to.cur >= 0 /\ to.list[to.cur + 1].url = u
  BY <1>3, <1>5, <1>6 DEF EngineIsSane, CursorIsSane
<1> QED BY <1>6, <1>7, <1>8

LEMMA OverwriteIs ==
  ASSUME NEW en \in EngineStates, EngineIsSane(en), NEW u \in Urls, en.cur >= 0
  PROVE  LET to == OverwriteItem(en, u)
         IN  /\ to \in EngineStates /\ EngineIsSane(to) /\ to.cur >= 0
             /\ to.prov = en.prov /\ to.open = en.open /\ to.list[to.cur + 1].url = u
<1> DEFINE c == en.cur + 1
           item == [en.list[c] EXCEPT !.url = u]
           list == [en.list EXCEPT ![c] = item]
           to == [en EXCEPT !.list = list]
<1>1. en.list \in Seq(Items) /\ c \in DOMAIN en.list /\ en.cur \in Int
  BY DEF EngineStates, EngineIsSane, CursorIsSane
<1>2. en.list[c] \in Items
  BY <1>1
<1>3. item \in Items /\ item.url = u
  BY <1>2 DEF Items
<1> HIDE DEF item
<1>4. list \in Seq(Items) /\ Len(list) = Len(en.list) /\ list[c] = item
  BY <1>1, <1>3
<1>5. OverwriteItem(en, u) = to
  <2>1. OverwriteItem(en, u) = [en EXCEPT !.list = [en.list EXCEPT ![c] = [en.list[c] EXCEPT !.url = u]]]
    BY DEF OverwriteItem
  <2> QED BY <2>1 DEF item
<1> HIDE DEF list
<1>6. to \in EngineStates /\ to.cur = en.cur /\ to.list = list /\ to.prov = en.prov /\ to.open = en.open
  BY <1>4 DEF EngineStates
<1> HIDE DEF to
<1>7. EngineIsSane(to)
  <2>1. list # <<>>
    BY <1>1, <1>4
  <2> QED BY <1>4, <1>6 DEF EngineIsSane, CursorIsSane
<1> QED BY <1>3, <1>4, <1>5, <1>6, <1>7 DEF c

LEMMA GoToItemIs ==
  ASSUME NEW en \in EngineStates, EngineIsSane(en), NEW id, en.cur >= 0
  PROVE  LET to == GoToItem(en, id)
         IN  /\ to \in EngineStates /\ EngineIsSane(to) /\ to.cur >= 0
             /\ to.prov = en.prov /\ to.open = en.open
<1> DEFINE at == CHOOSE i \in DOMAIN en.list : en.list[i].id = id
           to == [en EXCEPT !.cur = at - 1]
<1>1. CASE \E i \in DOMAIN en.list : en.list[i].id = id
  <2>1. at \in DOMAIN en.list
    BY <1>1
  <2> HIDE DEF at
  <2>2. at \in 1..Len(en.list) /\ Len(en.list) \in Nat /\ en.list # <<>>
    BY <2>1 DEF EngineStates
  <2>3. to \in EngineStates /\ to.cur = at - 1 /\ to.list = en.list /\ to.prov = en.prov /\ to.open = en.open
    BY <2>2 DEF EngineStates
  <2>4. EngineIsSane(to) /\ to.cur >= 0
    BY <2>2, <2>3 DEF EngineIsSane, CursorIsSane
  <2>5. GoToItem(en, id) = to
    BY <1>1 DEF GoToItem, at
  <2> QED BY <2>3, <2>4, <2>5
<1>2. CASE ~\E i \in DOMAIN en.list : en.list[i].id = id
  BY <1>2 DEF GoToItem
<1> QED BY <1>1, <1>2

LEMMA StartLoadIs ==
  ASSUME NEW en \in EngineStates, EngineIsSane(en), NEW u \in Urls
  PROVE  LET to == StartLoad(en, u)
         IN  /\ to \in EngineStates /\ EngineIsSane(to) /\ to.prov # NoUrl
             /\ to.cur = en.cur /\ to.list = en.list
<1> DEFINE k == IF en.cur >= 0 /\ u = en.list[en.cur + 1].url THEN "replace" ELSE "new"
           p == [kind |-> k, url |-> u, id |-> 0]
           to == [en EXCEPT !.open = NoUrl, !.prov = p]
<1>1. k \in {"new", "replace", "traverse"} /\ (k # "new" => en.cur >= 0)
  OBVIOUS
<1> HIDE DEF k
<1>2. p \in Provisional /\ p.kind = k
  BY <1>1 DEF Provisional
<1>3. p # NoUrl
  BY <1>2, NullAssumption DEF Provisional
<1> HIDE DEF p
<1>4. /\ to \in EngineStates /\ to.cur = en.cur /\ to.list = en.list /\ to.prov = p /\ to.open = NoUrl
  BY <1>2 DEF EngineStates
<1>5. StartLoad(en, u) = to
  BY DEF StartLoad, k, p
<1> HIDE DEF to
<1>6. EngineIsSane(to)
  BY <1>1, <1>2, <1>4, NullAssumption DEF EngineIsSane, CursorIsSane
<1> QED BY <1>3, <1>4, <1>5, <1>6

\* A bib_go leaves the engine alone only if it leads nowhere
LEMMA StartGoIs ==
  ASSUME NEW en \in EngineStates, EngineIsSane(en), NEW d \in Int
  PROVE  LET to == StartGo(en, d)
         IN  /\ to \in EngineStates /\ EngineIsSane(to)
             /\ to.prov # NoUrl \/ to = en
             /\ en.cur >= 0 /\ d # 0 /\ en.cur + d \in 0..(Len(en.list) - 1) => to.prov # NoUrl
<1> DEFINE last == Len(en.list) - 1
           at == IF en.cur + d > last THEN last ELSE IF en.cur + d < 0 THEN 0 ELSE en.cur + d
           item == en.list[at + 1]
           p == [kind |-> "traverse", url |-> item.url, id |-> item.id]
           to == [en EXCEPT !.prov = p, !.open = NoUrl]
<1>1. en.cur \in Int /\ Len(en.list) \in Nat /\ en.list \in Seq(Items) /\ en.cur \in -1..last
  BY DEF EngineStates, EngineIsSane, CursorIsSane
<1>2. StartGo(en, d) = IF en.cur < 0 \/ at = en.cur THEN en ELSE to
  BY DEF StartGo
<1>3. en.cur >= 0 /\ d # 0 /\ en.cur + d \in 0..last => at # en.cur
  BY <1>1
<1>4. CASE en.cur < 0 \/ at = en.cur
  BY <1>1, <1>2, <1>3, <1>4
<1>5. CASE ~(en.cur < 0 \/ at = en.cur)
  <2>1. at + 1 \in DOMAIN en.list
    BY <1>1, <1>5
  <2> HIDE DEF at
  <2>2. item \in Items
    BY <1>1, <2>1
  <2> HIDE DEF item
  <2>3. p \in Provisional
    BY <2>2 DEF Provisional, Items
  <2>4. p # NoUrl
    BY <2>3, NullAssumption DEF Provisional
  <2> HIDE DEF p
  <2>5. to \in EngineStates /\ to.cur = en.cur /\ to.list = en.list /\ to.prov = p /\ to.open = NoUrl
    BY <2>3 DEF EngineStates
  <2>6. EngineIsSane(to)
    BY <1>1, <1>5, <2>5, NullAssumption DEF EngineIsSane, CursorIsSane
  <2>7. StartGo(en, d) = to
    BY <1>2, <1>5
  <2> QED BY <2>4, <2>5, <2>6, <2>7
<1> QED BY <1>4, <1>5

LEMMA MirroredIs ==
  ASSUME NEW t \in [entries : Seq(Entries), pos : Nat], t.pos \in DOMAIN t.entries,
         NEW e \in Entries, NEW push \in BOOLEAN
  PROVE  LET to == Mirrored(t, e, push)
         IN  /\ to \in [entries : Seq(Entries), pos : Nat] /\ to.pos \in DOMAIN to.entries
             /\ to.entries[to.pos] = e
<1> DEFINE n == IF push THEN t.pos ELSE t.pos - 1
           before == SubSeq(t.entries, 1, n)
           after == IF push THEN <<>> ELSE SubSeq(t.entries, t.pos + 1, Len(t.entries))
           es == Append(before, e) \o after
<1>1. t.entries \in Seq(Entries) /\ t.pos \in 1..Len(t.entries) /\ Len(t.entries) \in Nat
  OBVIOUS
<1>2. n \in Nat /\ n <= Len(t.entries) /\ (IF push THEN t.pos + 1 ELSE t.pos) = n + 1
  BY <1>1
<1> HIDE DEF n
<1>3. before \in Seq(Entries) /\ Len(before) = n
  <2>1. \A i \in 1..n : i \in 1..Len(t.entries)
    BY <1>1, <1>2
  <2> QED BY <1>1, <1>2, <2>1
<1>4. after \in Seq(Entries)
  <2>1. \A i \in (t.pos + 1)..Len(t.entries) : i \in 1..Len(t.entries)
    BY <1>1
  <2>2. SubSeq(t.entries, t.pos + 1, Len(t.entries)) \in Seq(Entries)
    BY <1>1, <2>1
  <2> QED BY <2>2
<1> HIDE DEF before, after
<1>5. Append(before, e) \in Seq(Entries) /\ Len(Append(before, e)) = n + 1 /\ Append(before, e)[n + 1] = e
  BY <1>2, <1>3
<1>6. es \in Seq(Entries) /\ n + 1 \in DOMAIN es /\ es[n + 1] = e
  BY <1>2, <1>4, <1>5
<1> HIDE DEF es
<1>7. Mirrored(t, e, push) = [entries |-> es, pos |-> n + 1]
  BY <1>2 DEF Mirrored, es, before, after, n
<1> QED BY <1>2, <1>6, <1>7

\* What drive leaves of the page's variables
SameBelief(w, v) == /\ w.url = v.url /\ w.index = v.index /\ w.length = v.length /\ w.mirror = v.mirror
                    /\ w.ready = v.ready /\ w.dead = v.dead /\ w.strip = v.strip /\ w.stale = v.stale

LEMMA ReachedIs ==
  ASSUME NEW v \in Viewers
  PROVE  /\ Reached(v) \in Viewers /\ SameBelief(Reached(v), v)
         /\ LoadEntry(v) \in Viewers /\ SameBelief(LoadEntry(v), v)
<1> DEFINE r == Reached(v)
           l == LoadEntry(v)
<1>1. NoUrl \in Entries \cup {NoUrl} /\ NoIndex \in Int
  BY DEF NoIndex
<1>2. r = [v EXCEPT !.want = NoUrl, !.issuedFrom = NoIndex]
  BY DEF Reached
<1>3. r \in Viewers
  BY <1>1, <1>2 DEF Viewers
<1>4. SameBelief(r, v)
  BY <1>2 DEF SameBelief, Viewers
<1>5. l = [r EXCEPT !.forceReplace = TRUE]
  BY DEF LoadEntry
<1> HIDE DEF r, l
<1>6. l \in Viewers
  BY <1>3, <1>5 DEF Viewers
<1>7. SameBelief(l, r)
  BY <1>3, <1>5 DEF SameBelief, Viewers
<1>8. SameBelief(l, v)
  BY <1>4, <1>7 DEF SameBelief
<1> QED BY <1>3, <1>4, <1>6, <1>8 DEF r, l

LEMMA DriveIs ==
  ASSUME NEW v \in Viewers
  PROVE  LET d == Drive(v)
         IN  /\ d.v \in Viewers /\ SameBelief(d.v, v)
             /\ \/ /\ d.calls = <<>>
                   /\ \/ v.want = NoUrl \/ ~v.ready \/ v.dead \/ v.index = NoIndex
                      \/ v.index = v.want.index /\ v.url = v.want.url
                      \/ v.issuedFrom = v.index
                \/ \E u \in Urls : d.calls = <<LoadCall(u)>>
                \/ \E g \in Int : /\ d.calls = <<GoCall(g)>> /\ g # 0
                                  /\ v.index + g \in 0..(v.length - 1)
<1> DEFINE target == v.want
<1>0. SameBelief(v, v)
  BY DEF SameBelief
<1>1. CASE v.want = NoUrl \/ ~v.ready \/ v.dead \/ v.index = NoIndex
  <2>1. Drive(v) = [v |-> v, calls |-> <<>>]
    BY <1>1 DEF Drive
  <2> QED BY <1>0, <1>1, <2>1
<1>2. CASE ~(v.want = NoUrl \/ ~v.ready \/ v.dead \/ v.index = NoIndex)
  <2>0. target \in Entries /\ v.index \in Int /\ target.index \in Int /\ target.url \in Urls /\ v.length \in Nat
    BY <1>2 DEF Viewers, Entries
  <2> DEFINE loads == [v |-> LoadEntry(v), calls |-> <<LoadCall(target.url)>>]
  <2>1. CASE v.index = target.index /\ target.url = v.url
    <3>1. Drive(v) = [[v |-> v, calls |-> <<>>] EXCEPT !.v = Reached(v)]
      BY <1>2, <2>1 DEF Drive
    <3> QED BY <2>1, <3>1, ReachedIs
  <2>2. CASE v.index = target.index /\ target.url # v.url
    <3>1. Drive(v) = loads
      BY <1>2, <2>2 DEF Drive
    <3> QED BY <2>0, <3>1, ReachedIs
  <2>3. CASE v.index # target.index /\ v.issuedFrom = v.index
    <3>1. Drive(v) = [v |-> v, calls |-> <<>>]
      BY <1>2, <2>3 DEF Drive
    <3> QED BY <1>0, <2>3, <3>1
  <2>4. CASE v.index # target.index /\ v.issuedFrom # v.index /\ target.index \in 0..(v.length - 1)
    <3> DEFINE w == [v EXCEPT !.issuedFrom = v.index]
               g == target.index - v.index
    <3>1. Drive(v) = [v |-> w, calls |-> <<GoCall(g)>>]
      BY <1>2, <2>4 DEF Drive
    <3>2. w \in Viewers /\ SameBelief(w, v)
      BY DEF Viewers, SameBelief
    <3>3. g \in Int /\ g # 0 /\ v.index + g = target.index
      BY <2>0, <2>4
    <3> HIDE DEF w, g
    <3> QED BY <2>4, <3>1, <3>2, <3>3
  <2>5. CASE v.index # target.index /\ v.issuedFrom # v.index /\ target.index \notin 0..(v.length - 1)
    <3>1. Drive(v) = loads
      BY <1>2, <2>5 DEF Drive
    <3> QED BY <2>0, <3>1, ReachedIs
  <2> QED BY <2>1, <2>2, <2>3, <2>4, <2>5
<1> QED BY <1>1, <1>2

LEMMA CallTypes ==
  /\ \A u \in Urls : LoadCall(u) \in HistoryCalls /\ LoadCall(u).fn = "bib_load_url"
  /\ \A g \in Int : GoCall(g) \in HistoryCalls /\ GoCall(g).fn = "bib_go" /\ GoCall(g).arg = g
BY DEF LoadCall, GoCall, HistoryCalls

\* Calls are appended to those on their way
LEMMA CallsAdd ==
  ASSUME NEW cs \in Seq(HistoryCalls), NEW c \in HistoryCalls
  PROVE  /\ cs \o <<c>> \in Seq(HistoryCalls) /\ cs \o <<c>> = Append(cs, c)
         /\ Loads(cs) \/ c.fn = "bib_load_url" => Loads(cs \o <<c>>)
         /\ \A v, w : SameBelief(w, v) /\ Moving(cs, v) => Moving(cs \o <<c>>, w)
         /\ \A v : c.fn = "bib_go" /\ c.arg # 0 /\ v.index + c.arg \in 0..(v.length - 1) =>
                     Moving(cs \o <<c>>, v)
<1> DEFINE ds == cs \o <<c>>
<1>1. /\ ds \in Seq(HistoryCalls) /\ ds = Append(cs, c) /\ DOMAIN cs = 1..Len(cs) /\ Len(cs) \in Nat
      /\ DOMAIN ds = 1..(Len(cs) + 1) /\ ds[Len(cs) + 1] = c
      /\ \A i \in 1..Len(cs) : ds[i] = cs[i]
  OBVIOUS
<1> HIDE DEF ds
<1>2. Len(cs) + 1 \in DOMAIN ds /\ \A i \in DOMAIN cs : i \in DOMAIN ds /\ ds[i] = cs[i]
  BY <1>1
<1>3. Loads(cs) \/ c.fn = "bib_load_url" => Loads(ds)
  BY <1>1, <1>2, Zenon DEF Loads
<1>4. ASSUME NEW v, NEW w, SameBelief(w, v), Moving(cs, v) PROVE Moving(ds, w)
  <2>1. PICK i \in DOMAIN cs : /\ cs[i].fn = "bib_go" /\ cs[i].arg # 0
                               /\ v.index + cs[i].arg \in 0..(v.length - 1)
    BY <1>4 DEF Moving
  <2>2. w.index = v.index /\ w.length = v.length
    BY <1>4 DEF SameBelief
  <2>3. i \in DOMAIN ds /\ ds[i] = cs[i]
    BY <1>2
  <2>4. ds[i].fn = "bib_go" /\ ds[i].arg # 0 /\ w.index + ds[i].arg \in 0..(w.length - 1)
    BY <2>1, <2>2, <2>3
  <2> QED BY <2>3, <2>4 DEF Moving
<1>5. \A v : c.fn = "bib_go" /\ c.arg # 0 /\ v.index + c.arg \in 0..(v.length - 1) => Moving(ds, v)
  BY <1>1, <1>2, Zenon DEF Moving
<1> QED BY <1>1, <1>3, <1>4, <1>5 DEF ds

LEMMA CallTaken ==
  ASSUME NEW cs \in Seq(HistoryCalls), cs # <<>>
  PROVE  /\ Head(cs) \in HistoryCalls /\ Tail(cs) \in Seq(HistoryCalls)
         /\ Loads(cs) => Head(cs).fn = "bib_load_url" \/ Loads(Tail(cs))
         /\ \A v : Moving(cs, v) => \/ Moving(Tail(cs), v)
                                    \/ /\ Head(cs).fn = "bib_go" /\ Head(cs).arg # 0
                                       /\ v.index + Head(cs).arg \in 0..(v.length - 1)
<1>1. /\ Head(cs) = cs[1] /\ Head(cs) \in HistoryCalls /\ Tail(cs) \in Seq(HistoryCalls)
      /\ \A i \in DOMAIN cs : i = 1 \/ (i - 1 \in DOMAIN Tail(cs) /\ Tail(cs)[i - 1] = cs[i])
  OBVIOUS
<1>2. Loads(cs) => Head(cs).fn = "bib_load_url" \/ Loads(Tail(cs))
  BY <1>1, Zenon DEF Loads
<1>3. ASSUME NEW v, Moving(cs, v)
      PROVE  \/ Moving(Tail(cs), v)
             \/ /\ Head(cs).fn = "bib_go" /\ Head(cs).arg # 0
                /\ v.index + Head(cs).arg \in 0..(v.length - 1)
  <2>1. PICK i \in DOMAIN cs : /\ cs[i].fn = "bib_go" /\ cs[i].arg # 0
                               /\ v.index + cs[i].arg \in 0..(v.length - 1)
    BY <1>3 DEF Moving
  <2>2. CASE i = 1
    BY <1>1, <2>1, <2>2, Zenon
  <2>3. CASE i # 1
    BY <1>1, <2>1, <2>3, Zenon DEF Moving
  <2> QED BY <2>2, <2>3
<1> QED BY <1>1, <1>2, <1>3

\* A signal joins those on their way
LEMMA SignalSent ==
  ASSUME NEW ss \in Seq(SignalSet), NEW s \in SignalSet,
         \A i \in DOMAIN ss : ss[i].kind # "failed" => ss[i].index \in Nat,
         s.kind # "failed" => s.index \in Nat
  PROVE  LET to == Append(ss, s)
         IN  /\ to \in Seq(SignalSet) /\ to # <<>> /\ to[Len(to)] = s
             /\ \A i \in DOMAIN to : to[i].kind # "failed" => to[i].index \in Nat
<1> DEFINE to == Append(ss, s)
<1>1. /\ to \in Seq(SignalSet) /\ to # <<>> /\ Len(to) = Len(ss) + 1 /\ Len(ss) \in Nat
      /\ to[Len(ss) + 1] = s /\ DOMAIN to = 1..(Len(ss) + 1) /\ DOMAIN ss = 1..Len(ss)
      /\ \A i \in 1..Len(ss) : to[i] = ss[i]
  OBVIOUS
<1> HIDE DEF to
<1>2. ASSUME NEW i \in DOMAIN to, to[i].kind # "failed" PROVE to[i].index \in Nat
  <2>1. i \in DOMAIN ss \/ i = Len(ss) + 1
    BY <1>1
  <2> QED BY <1>1, <1>2, <2>1
<1> QED BY <1>1, <1>2 DEF to

\* ... and the oldest is handled
LEMMA SignalTaken ==
  ASSUME NEW ss \in Seq(SignalSet), ss # <<>>,
         \A i \in DOMAIN ss : ss[i].kind # "failed" => ss[i].index \in Nat
  PROVE  /\ Head(ss) \in SignalSet /\ Tail(ss) \in Seq(SignalSet)
         /\ Head(ss).kind # "failed" => Head(ss).index \in Nat
         /\ \A i \in DOMAIN Tail(ss) : Tail(ss)[i].kind # "failed" => Tail(ss)[i].index \in Nat
         /\ Tail(ss) = <<>> => Head(ss) = ss[Len(ss)]
         /\ Tail(ss) # <<>> => Tail(ss)[Len(Tail(ss))] = ss[Len(ss)]
<1> DEFINE to == Tail(ss)
<1>0. Len(ss) \in Nat /\ Len(ss) # 0 /\ DOMAIN ss = 1..Len(ss)
  OBVIOUS
<1>1. /\ Head(ss) = ss[1] /\ Head(ss) \in SignalSet /\ to \in Seq(SignalSet) /\ 1 \in DOMAIN ss
      /\ Len(to) = Len(ss) - 1 /\ Len(ss) \in Nat /\ DOMAIN to = 1..(Len(ss) - 1)
      /\ DOMAIN ss = 1..Len(ss) /\ \A i \in 1..(Len(ss) - 1) : to[i] = ss[i + 1]
  BY <1>0
<1>7. (to = <<>> => Len(to) = 0) /\ (to # <<>> => Len(to) # 0)
  <2> HIDE DEF to
  <2> QED BY <1>1, EmptySeq
<1> HIDE DEF to
<1>2. ASSUME NEW i \in DOMAIN to, to[i].kind # "failed" PROVE to[i].index \in Nat
  <2>1. i + 1 \in DOMAIN ss /\ to[i] = ss[i + 1]
    BY <1>1
  <2> QED BY <1>2, <2>1
<1>3. to = <<>> => Len(ss) = 1
  BY <1>1, <1>7
<1>4. to # <<>> => Len(to) \in 1..(Len(ss) - 1) /\ Len(to) + 1 = Len(ss)
  BY <1>1, <1>7
<1>5. to # <<>> => to[Len(to)] = ss[Len(ss)]
  BY <1>1, <1>4
<1> QED BY <1>1, <1>2, <1>3, <1>5 DEF to

LEMMA SignalSays ==
  ASSUME NEW en \in EngineStates, NEW u, NEW k, en.cur >= 0
  PROVE  /\ Signal(en, k, u).url = u /\ Signal(en, k, u).kind = k
         /\ Signal(en, k, u).index = en.cur /\ Signal(en, k, u).length = Len(en.list)
<1>1. ~(en.cur < 0)
  BY DEF EngineStates
<1>2. Signal(en, k, u) = [kind |-> k, url |-> u, index |-> en.cur, length |-> Len(en.list)]
  BY <1>1 DEF Signal
<1> QED BY <1>2

LEMMA SignalIs ==
  ASSUME NEW en \in EngineStates, EngineIsSane(en), NEW u \in Urls,
         NEW k \in {"new", "replace", "traverse", "failed"}
  PROVE  /\ Signal(en, k, u) \in SignalSet /\ Signal(en, k, u).kind = k
         /\ Signal(en, k, u).index \in Nat 
         /\ [Signal(en, k, u) EXCEPT !.index = NoIndex] \in SignalSet
<1> DEFINE x == IF en.cur < 0 THEN 0 ELSE en.cur
           n == IF en.cur < 0 THEN 1 ELSE Len(en.list)
           s == [kind |-> k, url |-> u, index |-> x, length |-> n]
<1>1. en.cur \in Int /\ Len(en.list) \in Nat
  BY DEF EngineStates
<1>2. x \in Nat /\ n \in Nat /\ (en.cur >= 0 => x = en.cur /\ n = Len(en.list))
  BY <1>1
<1>3. Signal(en, k, u) = s
  BY DEF Signal
<1> HIDE DEF x, n
<1>4. s \in SignalSet /\ NoIndex \in Int
  BY <1>2 DEF SignalSet, NoIndex
<1>5. [s EXCEPT !.index = NoIndex] \in SignalSet
  BY <1>4 DEF SignalSet
<1> QED BY <1>2, <1>3, <1>4, <1>5 DEF SignalSet

\* A page and an engine that start
LEMMA FreshIs ==
  /\ FreshEngine \in EngineStates /\ EngineIsSane(FreshEngine)
  /\ \A u \in Urls : /\ FreshPage(u) \in Viewers /\ ~FreshPage(u).ready
                     /\ FreshPage(u).mirror = [url |-> NoUrl, index |-> NoIndex]
<1>1. <<>> \in Seq(Items) /\ Len(<<>>) = 0
  OBVIOUS
<1>2. FreshEngine \in EngineStates
  BY <1>1 DEF FreshEngine, EngineStates
<1>3. EngineIsSane(FreshEngine)
  BY <1>1, NullAssumption DEF FreshEngine, EngineIsSane, CursorIsSane
<1>4. ASSUME NEW u \in Urls
      PROVE  /\ FreshPage(u) \in Viewers /\ ~FreshPage(u).ready
             /\ FreshPage(u).mirror = [url |-> NoUrl, index |-> NoIndex]
  <2>1. NoUrl \in UrlOrNone /\ NoIndex \in Int /\ NoUrl \in Entries \cup {NoUrl} /\ 0 \in Nat
    BY DEF UrlOrNone, NoIndex
  <2>2. [url |-> NoUrl, index |-> NoIndex] \in [url : UrlOrNone, index : Int]
    BY <2>1
  <2>3. FreshPage(u) \in Viewers
    BY <2>1, <2>2 DEF FreshPage, Viewers
  <2>4. ~FreshPage(u).ready /\ FreshPage(u).mirror = [url |-> NoUrl, index |-> NoIndex]
    BY DEF FreshPage
  <2> QED BY <2>3, <2>4
<1> QED BY <1>2, <1>3, <1>4

-----------------------------------------------------------------------------
(* TabHistory: the engine's steps.                                         *)

LEMMA EngineCallKeeps == HistoryInv /\ EngineCall => HistoryInv'
<1> SUFFICES ASSUME HistoryInv, EngineCall PROVE HistoryInv'
  OBVIOUS
<1> DEFINE c == Head(calls)
<1>1. /\ HistoryTypes /\ Mirroring /\ EngineHeard /\ TabFollows
      /\ UNCHANGED <<tab, viewer, signals, historyActs>>
  BY DEF HistoryInv, EngineCall
<1>2. /\ engine \in EngineStates /\ EngineIsSane(engine) /\ calls \in Seq(HistoryCalls) /\ calls # <<>>
      /\ calls' = Tail(calls) /\ viewer.ready /\ ~viewer.dead
  BY <1>1 DEF HistoryTypes, EngineCall
<1>3. /\ c \in HistoryCalls /\ calls' \in Seq(HistoryCalls)
      /\ Loads(calls) => c.fn = "bib_load_url" \/ Loads(calls')
      /\ Moving(calls, viewer) => \/ Moving(calls', viewer)
                                  \/ /\ c.fn = "bib_go" /\ c.arg # 0
                                     /\ viewer.index + c.arg \in 0..(viewer.length - 1)
  BY <1>2, CallTaken
<1>4. CASE c.fn = "bib_load_url"
  <2>1. c.arg \in Urls
    BY <1>3, <1>4 DEF HistoryCalls
  <2>2. engine' = StartLoad(engine, c.arg)
    BY <1>4 DEF EngineCall
  <2>3. engine' \in EngineStates /\ EngineIsSane(engine') /\ engine'.prov # NoUrl
    BY <1>2, <2>1, <2>2, StartLoadIs
  <2>4. Underway(calls', engine')
    BY <2>3 DEF Underway
  <2>5. HistoryTypes' /\ Mirroring'
    BY <1>1, <1>3, <2>3 DEF HistoryTypes, Mirroring, Here
  <2> QED BY <2>4, <2>5 DEF HistoryInv, EngineHeard, TabFollows
<1>5. CASE c.fn = "bib_go"
  <2>1. c.arg \in Int
    BY <1>3, <1>5 DEF HistoryCalls
  <2>2. engine' = StartGo(engine, c.arg)
    BY <1>5 DEF EngineCall
  <2>3. /\ engine' \in EngineStates /\ EngineIsSane(engine')
        /\ engine'.prov # NoUrl \/ engine' = engine
        /\ engine.cur >= 0 /\ c.arg # 0 /\ engine.cur + c.arg \in 0..(Len(engine.list) - 1)
             => engine'.prov # NoUrl
    BY <1>2, <2>1, <2>2, StartGoIs
  <2>4. HistoryTypes' /\ Mirroring'
    BY <1>1, <1>3, <2>3 DEF HistoryTypes, Mirroring, Here
  <2>5. CASE engine'.prov # NoUrl
    <3>1. Underway(calls', engine')
      BY <2>5 DEF Underway
    <3> QED BY <2>4, <3>1 DEF HistoryInv, EngineHeard, TabFollows
  <2>6. CASE engine'.prov = NoUrl
    <3>1. engine' = engine
      BY <2>3, <2>6
    <3>2. Underway(calls, engine) => Underway(calls', engine')
      BY <1>3, <1>5, <3>1 DEF Underway
    <3>3. EngineHeard'
      BY <1>1, <3>1, <3>2 DEF EngineHeard
    <3>4. ASSUME signals = <<>>, ~viewer.strip, ~Underway(calls, engine), Moving(calls, viewer)
          PROVE  Moving(calls', viewer)
      <4>1. Accurate(engine, viewer.url, viewer.index, viewer.length)
        BY <1>1, <3>4 DEF EngineHeard, Truthful
      <4>2. engine.cur >= 0 /\ viewer.index = engine.cur /\ viewer.length = Len(engine.list)
        BY <4>1 DEF Accurate
      <4> QED BY <1>3, <2>3, <2>6, <3>4, <4>2
    <3>5. TabFollows'
      BY <1>1, <3>2, <3>4 DEF TabFollows
    <3> QED BY <2>4, <3>3, <3>5 DEF HistoryInv
  <2> QED BY <2>5, <2>6
<1> QED BY <1>3, <1>4, <1>5 DEF HistoryCalls

\* A commit leaves its load open: another signal will follow
LEMMA CommitKeeps == HistoryInv /\ Commit => HistoryInv'
<1> SUFFICES ASSUME HistoryInv, Commit PROVE HistoryInv'
  OBVIOUS
<1> DEFINE p == engine.prov
           quiet == [engine EXCEPT !.prov = NoUrl]
           idle == [engine EXCEPT !.prov = NoUrl, !.open = p.kind]
           done == CASE p.kind = "new"     -> AddItem(idle, p.url)
                     [] p.kind = "replace" -> OverwriteItem(idle, p.url)
                     [] OTHER              -> GoToItem(idle, p.id)
           s == Signal(IF p.kind = "new" THEN idle ELSE done, p.kind, p.url)
<1>1. /\ HistoryTypes /\ Mirroring /\ engine' = done /\ signals' = Append(signals, s) /\ p # NoUrl
      /\ UNCHANGED <<tab, viewer, calls, historyActs>>
  BY DEF HistoryInv, Commit
<1>2. engine \in EngineStates /\ EngineIsSane(engine) /\ signals \in Seq(SignalSet)
  BY <1>1 DEF HistoryTypes
<1>3. p \in Provisional /\ p.kind \in {"new", "replace", "traverse"} /\ p.url \in Urls
  BY <1>1, <1>2 DEF EngineStates, Provisional
<1>4. p.kind # NoUrl
  BY <1>3, NullAssumption
<1>5. /\ idle \in EngineStates /\ idle.cur = engine.cur /\ idle.list = engine.list
      /\ idle.prov = NoUrl /\ idle.open = p.kind
  BY <1>2, <1>3 DEF EngineStates
<1>6. CursorIsSane(idle) /\ (p.kind # "new" => EngineIsSane(idle) /\ idle.cur >= 0)
  BY <1>1, <1>2, <1>5 DEF EngineIsSane, CursorIsSane
<1> HIDE DEF idle
<1>7. /\ done \in EngineStates /\ EngineIsSane(done) /\ done.cur >= 0 /\ done.open = p.kind
  <2>1. CASE p.kind = "new"
    <3>1. done = AddItem(idle, p.url)
      BY <2>1
    <3> HIDE DEF done
    <3> QED BY <1>3, <1>5, <1>6, <3>1, AddItemIs
  <2>2. CASE p.kind = "replace"
    <3>1. done = OverwriteItem(idle, p.url)
      BY <2>2
    <3> HIDE DEF done
    <3> QED BY <1>3, <1>5, <1>6, <2>2, <3>1, OverwriteIs
  <2>3. CASE p.kind = "traverse"
    <3>1. done = GoToItem(idle, p.id)
      BY <2>3
    <3> HIDE DEF done
    <3> QED BY <1>5, <1>6, <2>3, <3>1, GoToItemIs
  <2> QED BY <1>3, <2>1, <2>2, <2>3
<1> HIDE DEF done
<1>8. s \in SignalSet /\ s.index \in Nat
  <2>1. CASE p.kind = "new"
    <3> DEFINE x == IF idle.cur < 0 THEN 0 ELSE idle.cur
               n == IF idle.cur < 0 THEN 1 ELSE Len(idle.list)
    <3>1. x \in Nat /\ n \in Nat
      BY <1>5 DEF EngineStates
    <3>2. s = [kind |-> p.kind, url |-> p.url, index |-> x, length |-> n]
      BY <2>1 DEF Signal
    <3> HIDE DEF x, n, s
    <3> QED BY <1>3, <3>1, <3>2 DEF SignalSet
  <2>2. CASE p.kind # "new"
    <3>1. s = Signal(done, p.kind, p.url)
      BY <2>2
    <3> HIDE DEF s
    <3> QED BY <1>3, <1>7, <3>1, SignalIs
  <2> QED BY <2>1, <2>2
<1> HIDE DEF s
<1>9. HistoryTypes' /\ Mirroring'
  <2>1. /\ signals' \in Seq(SignalSet)
        /\ \A i \in DOMAIN signals' : signals'[i].kind # "failed" => signals'[i].index \in Nat
    BY <1>1, <1>2, <1>8, SignalSent DEF HistoryTypes
  <2> QED BY <1>1, <1>7, <2>1 DEF HistoryTypes, Mirroring, Here
<1>10. Underway(calls', engine')
  BY <1>1, <1>4, <1>7 DEF Underway
<1> QED BY <1>9, <1>10 DEF HistoryInv, EngineHeard, TabFollows

\* A load's end says where the engine is
LEMMA FinishKeeps == HistoryInv /\ Finish => HistoryInv'
<1> SUFFICES ASSUME HistoryInv, Finish PROVE HistoryInv'
  OBVIOUS
<1> DEFINE s == Signal(engine, engine.open, EngineUrl)
<1>1. /\ HistoryTypes /\ Mirroring /\ engine' = [engine EXCEPT !.open = NoUrl]
      /\ signals' = Append(signals, s) /\ Opened
      /\ UNCHANGED <<tab, viewer, calls, historyActs>>
  BY DEF HistoryInv, Finish
<1>2. engine \in EngineStates /\ EngineIsSane(engine) /\ signals \in Seq(SignalSet)
  BY <1>1 DEF HistoryTypes
<1>3. engine.cur >= 0 /\ engine.open \in {"new", "replace", "traverse"}
  BY <1>1, <1>2 DEF EngineIsSane, EngineStates, Opened
<1>4. /\ engine' \in EngineStates /\ engine'.cur = engine.cur /\ engine'.list = engine.list
      /\ engine'.prov = engine.prov /\ engine'.open = NoUrl
  BY <1>1, <1>2 DEF EngineStates
<1>5. EngineIsSane(engine')
  BY <1>2, <1>4, NullAssumption DEF EngineIsSane, CursorIsSane
<1>6. EngineUrl \in Urls /\ EngineUrl = engine.list[engine.cur + 1].url
  <2>1. engine.cur + 1 \in DOMAIN engine.list
    BY <1>2, <1>3 DEF EngineIsSane, CursorIsSane, EngineStates
  <2>2. engine.list[engine.cur + 1] \in Items
    BY <1>2, <2>1 DEF EngineStates
  <2>3. ~(engine.cur < 0)
    BY <1>2, <1>3 DEF EngineStates
  <2> QED BY <2>2, <2>3 DEF EngineUrl, Items
<1>7. /\ s \in SignalSet /\ s.index \in Nat /\ s.url = EngineUrl /\ s.index = engine.cur
      /\ s.length = Len(engine.list)
  <2>1. engine.open \in {"new", "replace", "traverse", "failed"}
    BY <1>3
  <2>2. s \in SignalSet /\ s.index \in Nat
    BY <1>2, <1>6, <2>1, SignalIs
  <2>3. s.url = EngineUrl /\ s.index = engine.cur /\ s.length = Len(engine.list)
    BY <1>2, <1>3, SignalSays
  <2> QED BY <2>2, <2>3
<1> HIDE DEF s
<1>8. /\ signals' \in Seq(SignalSet) /\ signals' # <<>> /\ signals'[Len(signals')] = s
      /\ \A i \in DOMAIN signals' : signals'[i].kind # "failed" => signals'[i].index \in Nat
  BY <1>1, <1>2, <1>7, SignalSent DEF HistoryTypes
<1>9. HistoryTypes' /\ Mirroring'
  BY <1>1, <1>4, <1>5, <1>8 DEF HistoryTypes, Mirroring, Here
<1>10. Accurate(engine', s.url, s.index, s.length)
  BY <1>3, <1>4, <1>6, <1>7 DEF Accurate
<1>11. EngineHeard'
  BY <1>8, <1>10 DEF EngineHeard, Truthful
<1> QED BY <1>8, <1>9, <1>11 DEF HistoryInv, TabFollows

\* The address of the load that ends
LEMMA LoadUrlIs ==
  ASSUME engine \in EngineStates, EngineIsSane(engine), engine.prov # NoUrl \/ Opened
  PROVE  LoadUrl \in Urls
<1>1. CASE engine.prov # NoUrl
  BY <1>1 DEF EngineStates, Provisional, LoadUrl
<1>2. CASE engine.prov = NoUrl
  <2>1. engine.cur >= 0 /\ engine.cur \in Int
    BY <1>2 DEF EngineIsSane, EngineStates, Opened
  <2>2. engine.cur + 1 \in DOMAIN engine.list
    BY <2>1 DEF EngineIsSane, CursorIsSane, EngineStates
  <2>3. engine.list[engine.cur + 1] \in Items
    BY <2>2 DEF EngineStates
  <2>4. ~(engine.cur < 0)
    BY <2>1
  <2> QED BY <1>2, <2>3, <2>4 DEF LoadUrl, EngineUrl, Items
<1> QED BY <1>1, <1>2

\* After a failure nothing is claimed until the viewer handles it
LEMMA FailKeeps == HistoryInv /\ Fail => HistoryInv'
<1> SUFFICES ASSUME HistoryInv, Fail PROVE HistoryInv'
  OBVIOUS
<1> DEFINE s == [Signal(engine, "failed", LoadUrl) EXCEPT !.index = NoIndex]
<1>1. /\ HistoryTypes /\ Mirroring /\ engine' = [engine EXCEPT !.prov = NoUrl, !.open = NoUrl]
      /\ signals' = Append(signals, s) /\ (engine.prov # NoUrl \/ Opened)
      /\ UNCHANGED <<tab, viewer, calls>> /\ historyActs' = historyActs + 1
  BY DEF HistoryInv, Fail, HistoryAct
<1>2. engine \in EngineStates /\ EngineIsSane(engine) /\ signals \in Seq(SignalSet)
  BY <1>1 DEF HistoryTypes
<1>3. LoadUrl \in Urls
  BY <1>1, <1>2, LoadUrlIs
<1>4. /\ engine' \in EngineStates /\ engine'.cur = engine.cur /\ engine'.list = engine.list
      /\ engine'.open = NoUrl /\ engine'.prov = NoUrl
  BY <1>1, <1>2 DEF EngineStates
<1>5. EngineIsSane(engine')
  BY <1>2, <1>4, NullAssumption DEF EngineIsSane, CursorIsSane
<1>6. s \in SignalSet /\ s.kind = "failed"
  <2>1. Signal(engine, "failed", LoadUrl) \in SignalSet /\ s \in SignalSet
        /\ Signal(engine, "failed", LoadUrl).kind = "failed"
    BY <1>2, <1>3, SignalIs
  <2> QED BY <2>1 DEF SignalSet
<1> HIDE DEF s
<1>7. /\ signals' \in Seq(SignalSet) /\ signals' # <<>> /\ signals'[Len(signals')] = s
      /\ \A i \in DOMAIN signals' : signals'[i].kind # "failed" => signals'[i].index \in Nat
  BY <1>1, <1>2, <1>6, SignalSent DEF HistoryTypes
<1>8. historyActs' \in Nat
  BY <1>1 DEF HistoryTypes
<1>9. HistoryTypes' /\ Mirroring'
  BY <1>1, <1>4, <1>5, <1>7, <1>8 DEF HistoryTypes, Mirroring, Here
<1>10. EngineHeard'
  BY <1>6, <1>7 DEF EngineHeard, Truthful
<1> QED BY <1>7, <1>9, <1>10 DEF HistoryInv, TabFollows

\* Of a cancelled load nothing is claimed
LEMMA CancelKeeps == HistoryInv /\ Cancel => HistoryInv'
<1> SUFFICES ASSUME HistoryInv, Cancel PROVE HistoryInv'
  OBVIOUS
<1>1. /\ HistoryTypes /\ Mirroring /\ engine' = [engine EXCEPT !.prov = NoUrl, !.open = "cut"]
      /\ UNCHANGED <<tab, viewer, calls, signals>> /\ historyActs' = historyActs + 1
  BY DEF HistoryInv, Cancel, HistoryAct
<1>2. /\ engine' \in EngineStates /\ engine'.cur = engine.cur /\ engine'.list = engine.list
      /\ engine'.open = "cut" /\ engine'.prov = NoUrl
  BY <1>1 DEF HistoryTypes, EngineStates
<1>3. EngineIsSane(engine')
  BY <1>1, <1>2 DEF HistoryTypes, EngineIsSane, CursorIsSane
<1>4. historyActs' \in Nat
  BY <1>1 DEF HistoryTypes
<1>5. HistoryTypes' /\ Mirroring'
  BY <1>1, <1>2, <1>3, <1>4 DEF HistoryTypes, Mirroring, Here
<1>6. Underway(calls', engine')
  BY <1>2, NullAssumption DEF Underway
<1> QED BY <1>5, <1>6 DEF HistoryInv, EngineHeard, TabFollows

\* An engine that signals forgets what was cancelled
LEMMA ToldIs ==
  ASSUME NEW en \in EngineStates, EngineIsSane(en), NEW u, en.cur >= 0, en.list[en.cur + 1].url = u
  PROVE  LET to == Told(en)
         IN  /\ to \in EngineStates /\ EngineIsSane(to) /\ to.cur >= 0
             /\ to.list[to.cur + 1].url = u
<1> DEFINE o == IF en.open = "cut" THEN NoUrl ELSE en.open
           to == [en EXCEPT !.open = o]
<1>1. o \in {"new", "replace", "traverse", NoUrl} /\ (o # NoUrl => o = en.open)
  BY DEF EngineStates
<1>2. Told(en) = to
  BY DEF Told, EngineStates
<1> HIDE DEF o
<1>3. to \in EngineStates /\ to.cur = en.cur /\ to.list = en.list /\ to.prov = en.prov /\ to.open = o
  BY <1>1 DEF EngineStates
<1> HIDE DEF to
<1> QED BY <1>1, <1>2, <1>3, NullAssumption DEF EngineIsSane, CursorIsSane

\* The guest starts a load, or its change of the list is signalled at once
LEMMA GuestKeeps == HistoryInv /\ Guest => HistoryInv'
<1> SUFFICES ASSUME HistoryInv, Guest PROVE HistoryInv'
  OBVIOUS
<1>1. /\ HistoryTypes /\ Mirroring /\ engine.cur >= 0
      /\ UNCHANGED <<tab, viewer, calls>> /\ historyActs' = historyActs + 1
  BY DEF HistoryInv, Guest, HistoryAct
<1>2. engine \in EngineStates /\ EngineIsSane(engine) /\ signals \in Seq(SignalSet) /\ historyActs' \in Nat
  BY <1>1 DEF HistoryTypes
<1>3. ASSUME engine' \in EngineStates, EngineIsSane(engine'), engine'.prov # NoUrl, UNCHANGED signals
      PROVE  HistoryInv'
  <2>1. HistoryTypes' /\ Mirroring'
    BY <1>1, <1>2, <1>3 DEF HistoryTypes, Mirroring, Here
  <2>2. Underway(calls', engine')
    BY <1>3 DEF Underway
  <2> QED BY <2>1, <2>2 DEF HistoryInv, EngineHeard, TabFollows
<1>4. ASSUME NEW u \in Urls, NEW k \in {"new", "replace"},
             engine' \in EngineStates, EngineIsSane(engine'), engine'.cur >= 0,
             engine'.list[engine'.cur + 1].url = u, signals' = Append(signals, Signal(engine', k, u))
      PROVE  HistoryInv'
  <2> DEFINE s == Signal(engine', k, u)
  <2>0. k \in {"new", "replace", "traverse", "failed"}
    OBVIOUS
  <2>1. /\ s \in SignalSet /\ s.index \in Nat /\ s.url = u /\ s.index = engine'.cur
        /\ s.length = Len(engine'.list)
    <3>1. s \in SignalSet /\ s.index \in Nat
      BY <1>4, <2>0, SignalIs
    <3>2. s.url = u /\ s.index = engine'.cur /\ s.length = Len(engine'.list)
      BY <1>4, SignalSays
    <3> QED BY <3>1, <3>2
  <2> HIDE DEF s
  <2>2. /\ signals' \in Seq(SignalSet) /\ signals' # <<>> /\ signals'[Len(signals')] = s
        /\ \A i \in DOMAIN signals' : signals'[i].kind # "failed" => signals'[i].index \in Nat
    BY <1>1, <1>2, <1>4, <2>1, SignalSent DEF HistoryTypes, s
  <2>3. HistoryTypes' /\ Mirroring'
    BY <1>1, <1>2, <1>4, <2>2 DEF HistoryTypes, Mirroring, Here
  <2>4. Accurate(engine', s.url, s.index, s.length)
    BY <1>4, <2>1 DEF Accurate
  <2>5. EngineHeard'
    BY <2>2, <2>4 DEF EngineHeard, Truthful
  <2> QED BY <2>2, <2>3, <2>5 DEF HistoryInv, TabFollows
<1>5. CASE \E u \in Urls : engine' = StartLoad(engine, u) /\ UNCHANGED signals
  BY <1>2, <1>3, <1>5, StartLoadIs
<1>6. CASE \E d \in {-1, 1} : engine' = StartGo(engine, d) /\ engine' # engine /\ UNCHANGED signals
  <2>1. PICK d \in {-1, 1} : engine' = StartGo(engine, d) /\ engine' # engine /\ UNCHANGED signals
    BY <1>6
  <2>2. d \in Int
    OBVIOUS
  <2> QED BY <1>2, <1>3, <2>1, <2>2, StartGoIs
<1>7. CASE \E u \in Urls : /\ engine' = Told(AddItem(engine, u))
                           /\ signals' = Append(signals, Signal(engine', "new", u))
  <2>1. PICK u \in Urls : /\ engine' = Told(AddItem(engine, u))
                          /\ signals' = Append(signals, Signal(engine', "new", u))
    BY <1>7
  <2>2. LET to == AddItem(engine, u)
        IN  to \in EngineStates /\ EngineIsSane(to) /\ to.cur >= 0 /\ to.list[to.cur + 1].url = u
    BY <1>2, AddItemIs DEF EngineIsSane
  <2>3. /\ engine' \in EngineStates /\ EngineIsSane(engine') /\ engine'.cur >= 0
        /\ engine'.list[engine'.cur + 1].url = u
    BY <2>1, <2>2, ToldIs
  <2> QED BY <1>4, <2>1, <2>3
<1>8. CASE \E u \in Urls : /\ engine' = Told(OverwriteItem(engine, u))
                           /\ signals' = Append(signals, Signal(engine', "replace", u))
  <2>1. PICK u \in Urls : /\ engine' = Told(OverwriteItem(engine, u))
                          /\ signals' = Append(signals, Signal(engine', "replace", u))
    BY <1>8
  <2>2. LET to == OverwriteItem(engine, u)
        IN  to \in EngineStates /\ EngineIsSane(to) /\ to.cur >= 0 /\ to.list[to.cur + 1].url = u
    BY <1>1, <1>2, OverwriteIs
  <2>3. /\ engine' \in EngineStates /\ EngineIsSane(engine') /\ engine'.cur >= 0
        /\ engine'.list[engine'.cur + 1].url = u
    BY <2>1, <2>2, ToldIs
  <2> QED BY <1>4, <2>1, <2>3
<1> QED BY <1>5, <1>6, <1>7, <1>8 DEF Guest

-----------------------------------------------------------------------------
(* TabHistory: the viewer's steps.                                         *)

\* The calls drive makes join those on their way
LEMMA AdoptIs ==
  ASSUME NEW v \in Viewers, NEW d, d = Drive(v), NEW cs \in Seq(HistoryCalls)
  PROVE  /\ d.v \in Viewers /\ SameBelief(d.v, v) /\ cs \o d.calls \in Seq(HistoryCalls)
         /\ Loads(cs) => Loads(cs \o d.calls)
         /\ \/ /\ cs \o d.calls = cs
               /\ \/ v.want = NoUrl \/ ~v.ready \/ v.dead \/ v.index = NoIndex
                  \/ v.index = v.want.index /\ v.url = v.want.url
                  \/ v.issuedFrom = v.index
            \/ Loads(cs \o d.calls)
            \/ Moving(cs \o d.calls, d.v)
<1> DEFINE ds == cs \o d.calls
<1>1. d.v \in Viewers /\ SameBelief(d.v, v)
  BY DriveIs
<1>2. CASE /\ d.calls = <<>>
           /\ \/ v.want = NoUrl \/ ~v.ready \/ v.dead \/ v.index = NoIndex
              \/ v.index = v.want.index /\ v.url = v.want.url
              \/ v.issuedFrom = v.index
  <2>1. ds = cs
    BY <1>2
  <2> QED BY <1>1, <1>2, <2>1
<1>3. CASE \E u \in Urls : d.calls = <<LoadCall(u)>>
  <2>1. PICK u \in Urls : d.calls = <<LoadCall(u)>>
    BY <1>3
  <2>2. ds \in Seq(HistoryCalls) /\ Loads(ds)
    BY <2>1, CallTypes, CallsAdd
  <2> QED BY <1>1, <2>2
<1>4. CASE \E g \in Int : /\ d.calls = <<GoCall(g)>> /\ g # 0
                          /\ v.index + g \in 0..(v.length - 1)
  <2>1. PICK g \in Int : d.calls = <<GoCall(g)>> /\ g # 0 /\ v.index + g \in 0..(v.length - 1)
    BY <1>4
  <2>2. GoCall(g) \in HistoryCalls /\ GoCall(g).fn = "bib_go" /\ GoCall(g).arg = g
    BY <2>1, CallTypes
  <2>3. d.v.index + g \in 0..(d.v.length - 1)
    BY <1>1, <2>1 DEF SameBelief
  <2>4. /\ ds \in Seq(HistoryCalls) /\ (Loads(cs) => Loads(ds)) /\ Moving(ds, d.v)
    BY <2>1, <2>2, <2>3, CallsAdd
  <2> QED BY <1>1, <2>4
<1> QED BY <1>2, <1>3, <1>4, DriveIs

\* What the tab shows follows the signal, or is known to be stale
LEMMA ReceiveUrlKeeps == HistoryInv /\ ReceiveUrl => HistoryInv'
<1> SUFFICES ASSUME HistoryInv, ReceiveUrl PROVE HistoryInv'
  OBVIOUS
<1> DEFINE s == Head(signals)
           heard == [viewer EXCEPT !.url = s.url, !.index = s.index, !.length = s.length,
                                   !.forceReplace = FALSE, !.strip = FALSE, !.stale = FALSE]
           e == [url |-> s.url, index |-> s.index]
           written == [heard EXCEPT !.mirror = e]
           refused == [heard EXCEPT !.stale = TRUE]
<1>1. /\ HistoryTypes /\ Mirroring /\ signals # <<>> /\ s.kind # "failed" /\ signals' = Tail(signals)
      /\ UNCHANGED engine
  BY DEF HistoryInv, ReceiveUrl
<1>2. /\ tab \in [entries : Seq(Entries), pos : Nat] /\ tab.pos \in DOMAIN tab.entries
      /\ viewer \in Viewers /\ calls \in Seq(HistoryCalls) /\ signals \in Seq(SignalSet)
      /\ \A i \in DOMAIN signals : signals[i].kind # "failed" => signals[i].index \in Nat
  BY <1>1 DEF HistoryTypes
<1>3. /\ s \in SignalSet /\ s.index \in Nat /\ signals' \in Seq(SignalSet)
      /\ \A i \in DOMAIN signals' : signals'[i].kind # "failed" => signals'[i].index \in Nat
      /\ signals' = <<>> => s = signals[Len(signals)]
      /\ signals' # <<>> => signals'[Len(signals')] = signals[Len(signals)]
  BY <1>1, <1>2, SignalTaken
<1> HIDE DEF s
<1>4. /\ s.url \in Urls /\ s.index \in Int /\ s.length \in Nat /\ e \in Entries
      /\ e \in [url : UrlOrNone, index : Int]
  BY <1>3 DEF SignalSet, Entries, UrlOrNone
<1>5. /\ heard \in Viewers /\ heard.url = s.url /\ heard.index = s.index /\ heard.length = s.length
      /\ heard.ready = viewer.ready /\ heard.dead = viewer.dead /\ heard.mirror = viewer.mirror
  BY <1>2, <1>4 DEF Viewers, UrlOrNone
<1> HIDE DEF heard
<1>6. /\ written \in Viewers /\ written.mirror = e /\ written.url = s.url /\ written.index = s.index
      /\ written.length = s.length /\ written.ready = viewer.ready /\ written.dead = viewer.dead
  BY <1>4, <1>5 DEF Viewers
<1>7. /\ refused \in Viewers /\ refused.mirror = viewer.mirror /\ refused.stale /\ refused.url = s.url
      /\ refused.index = s.index /\ refused.length = s.length
      /\ refused.ready = viewer.ready /\ refused.dead = viewer.dead
  BY <1>4, <1>5 DEF Viewers
<1> HIDE DEF written, refused
<1>8. ASSUME viewer'.url = s.url, viewer'.index = s.index, viewer'.length = s.length,
             viewer'.ready = viewer.ready, viewer'.dead = viewer.dead,
             Loads(calls) => Loads(calls'), viewer'.ready, ~viewer'.dead
      PROVE  EngineHeard'
  <2>1. EngineHeard
    BY <1>8 DEF HistoryInv
  <2>2. CASE Underway(calls, engine)
    BY <1>1, <1>8, <2>2 DEF EngineHeard, Underway
  <2>3. CASE Truthful(engine, signals, viewer)
    <3>1. \/ signals[Len(signals)].kind = "failed"
          \/ Accurate(engine, signals[Len(signals)].url, signals[Len(signals)].index,
                      signals[Len(signals)].length)
      BY <1>1, <2>3 DEF Truthful
    <3>2. CASE signals' = <<>>
      <4>1. Accurate(engine', viewer'.url, viewer'.index, viewer'.length)
        BY <1>1, <1>3, <1>8, <3>1, <3>2
      <4> QED BY <3>2, <4>1 DEF EngineHeard, Truthful
    <3>3. CASE signals' # <<>>
      BY <1>1, <1>3, <3>1, <3>3 DEF EngineHeard, Truthful
    <3> QED BY <3>2, <3>3
  <2> QED BY <2>1, <2>2, <2>3 DEF EngineHeard
<1>9. CASE /\ tab' = IF Rewrites(viewer, s) THEN Mirrored(tab, e, Pushes(viewer, s)) ELSE tab
           /\ Adopt(Drive(written)) /\ UNCHANGED historyActs
  <2> DEFINE d == Drive(written)
  <2>1. viewer' = d.v /\ calls' = calls \o d.calls
    BY <1>9 DEF Adopt
  <2>2. /\ d.v \in Viewers /\ SameBelief(d.v, written) /\ calls \o d.calls \in Seq(HistoryCalls)
        /\ Loads(calls) => Loads(calls \o d.calls)
    BY <1>2, <1>6, AdoptIs
  <2> HIDE DEF d
  <2>3. tab' \in [entries : Seq(Entries), pos : Nat] /\ tab'.pos \in DOMAIN tab'.entries /\ Here' = e
    <3>1. CASE Rewrites(viewer, s)
      <4>1. tab' = Mirrored(tab, e, Pushes(viewer, s)) /\ Pushes(viewer, s) \in BOOLEAN
        BY <1>9, <3>1 DEF Pushes
      <4> DEFINE push == Pushes(viewer, s)
                 to == Mirrored(tab, e, push)
      <4> HIDE DEF push, e
      <4>3. push \in BOOLEAN
        BY <4>1 DEF push
      <4>2. /\ to \in [entries : Seq(Entries), pos : Nat] /\ to.pos \in DOMAIN to.entries
            /\ to.entries[to.pos] = e
        BY <1>2, <1>4, <4>3, MirroredIs
      <4> HIDE DEF to
      <4> QED BY <4>1, <4>2 DEF Here, to, push
    <3>2. CASE ~Rewrites(viewer, s)
      <4>1. tab' = tab /\ viewer.mirror = e
        BY <1>9, <3>2 DEF Rewrites
      <4>2. e # [url |-> NoUrl, index |-> NoIndex]
        BY <1>4, UrlAssumption
      <4>3. Here = e
        BY <1>1, <4>1, <4>2 DEF Mirroring
      <4> QED BY <1>2, <4>1, <4>3 DEF Here
    <3> QED BY <3>1, <3>2
  <2>4. HistoryTypes' /\ Mirroring'
    BY <1>1, <1>3, <1>6, <1>9, <2>1, <2>2, <2>3 DEF HistoryTypes, Mirroring, SameBelief
  <2>5. Shows(tab', viewer')
    BY <1>6, <2>1, <2>2, <2>3 DEF Shows, Here, SameBelief
  <2>6. viewer'.ready /\ ~viewer'.dead => EngineHeard'
    BY <1>6, <1>8, <2>1, <2>2 DEF SameBelief
  <2> QED BY <2>4, <2>5, <2>6 DEF HistoryInv, TabFollows
<1>10. CASE Adopt(Drive(refused)) /\ UNCHANGED tab /\ historyActs' = historyActs + 1
  <2> DEFINE d == Drive(refused)
  <2>1. viewer' = d.v /\ calls' = calls \o d.calls
    BY <1>10 DEF Adopt
  <2>2. /\ d.v \in Viewers /\ SameBelief(d.v, refused) /\ calls \o d.calls \in Seq(HistoryCalls)
        /\ Loads(calls) => Loads(calls \o d.calls)
    BY <1>2, <1>7, AdoptIs
  <2> HIDE DEF d
  <2>3. historyActs' \in Nat
    BY <1>1, <1>10 DEF HistoryTypes
  <2>4. HistoryTypes' /\ Mirroring'
    BY <1>1, <1>3, <1>7, <1>10, <2>1, <2>2, <2>3 DEF HistoryTypes, Mirroring, SameBelief, Here
  <2>5. viewer'.stale
    BY <1>7, <2>1, <2>2 DEF SameBelief
  <2>6. viewer'.ready /\ ~viewer'.dead => EngineHeard'
    BY <1>7, <1>8, <2>1, <2>2 DEF SameBelief
  <2> QED BY <2>4, <2>5, <2>6 DEF HistoryInv, TabFollows
<1> QED BY <1>9, <1>10 DEF ReceiveUrl, s, heard, written, refused

LEMMA ReceiveFailedKeeps == HistoryInv /\ ReceiveFailed => HistoryInv'
<1> SUFFICES ASSUME HistoryInv, ReceiveFailed PROVE HistoryInv'
  OBVIOUS
<1>1. /\ HistoryTypes /\ Mirroring /\ signals # <<>> /\ signals' = Tail(signals)
      /\ viewer' = [viewer EXCEPT !.strip = ~viewer.dead \/ @]
      /\ UNCHANGED <<tab, engine, calls, historyActs>>
  BY DEF HistoryInv, ReceiveFailed
<1>2. /\ viewer \in Viewers /\ signals \in Seq(SignalSet)
      /\ \A i \in DOMAIN signals : signals[i].kind # "failed" => signals[i].index \in Nat
  BY <1>1 DEF HistoryTypes
<1>3. /\ signals' \in Seq(SignalSet)
      /\ \A i \in DOMAIN signals' : signals'[i].kind # "failed" => signals'[i].index \in Nat
      /\ signals' # <<>> => signals'[Len(signals')] = signals[Len(signals)]
  BY <1>1, <1>2, SignalTaken
<1>4. (~viewer.dead \/ viewer.strip) \in BOOLEAN
  OBVIOUS
<1>5. /\ viewer' \in Viewers /\ viewer'.mirror = viewer.mirror /\ viewer'.ready = viewer.ready
      /\ viewer'.dead = viewer.dead /\ (~viewer.dead => viewer'.strip)
  BY <1>1, <1>2, <1>4 DEF Viewers
<1>6. HistoryTypes' /\ Mirroring'
  BY <1>1, <1>3, <1>5 DEF HistoryTypes, Mirroring, Here
<1>7. ASSUME viewer'.ready, ~viewer'.dead PROVE EngineHeard' /\ TabFollows'
  <2>1. EngineHeard /\ viewer'.strip
    BY <1>5, <1>7 DEF HistoryInv
  <2>2. CASE Underway(calls, engine)
    BY <1>1, <2>1, <2>2 DEF EngineHeard, TabFollows
  <2>3. CASE Truthful(engine, signals, viewer)
    <3>1. Truthful(engine', signals', viewer')
      BY <1>1, <1>3, <2>1, <2>3 DEF Truthful
    <3> QED BY <2>1, <3>1 DEF EngineHeard, TabFollows
  <2> QED BY <2>1, <2>2, <2>3 DEF EngineHeard
<1> QED BY <1>6, <1>7 DEF HistoryInv

\* A page or an engine that starts over, or is dead, owes nothing
LEMMA RebootKeeps ==
  ASSUME HistoryInv, Reboot, tab' \in [entries : Seq(Entries), pos : Nat],
         tab'.pos \in DOMAIN tab'.entries, historyActs' \in Nat
  PROVE  HistoryInv'
<1>1. Here' \in Entries
  BY DEF Here
<1>2. Here'.url \in Urls
  BY <1>1 DEF Entries
<1>3. viewer' = FreshPage(Here'.url) /\ engine' = FreshEngine /\ calls' = <<>> /\ signals' = <<>>
  BY DEF Reboot, FreshPage
<1>4. /\ viewer' \in Viewers /\ ~viewer'.ready /\ viewer'.mirror = [url |-> NoUrl, index |-> NoIndex]
      /\ engine' \in EngineStates /\ EngineIsSane(engine')
  BY <1>2, <1>3, FreshIs
<1>5. HistoryTypes' /\ Mirroring'
  BY <1>3, <1>4 DEF HistoryTypes, Mirroring
<1> QED BY <1>4, <1>5 DEF HistoryInv

LEMMA ReloadKeeps == HistoryInv /\ Reload => HistoryInv'
<1> SUFFICES ASSUME HistoryInv, Reload PROVE HistoryInv'
  OBVIOUS
<1>1. /\ tab' \in [entries : Seq(Entries), pos : Nat] /\ tab'.pos \in DOMAIN tab'.entries
      /\ historyActs' \in Nat /\ Reboot
  BY DEF HistoryInv, HistoryTypes, Reload, HistoryAct
<1> QED BY <1>1, RebootKeeps

LEMMA CrashKeeps == HistoryInv /\ Crash => HistoryInv'
<1> SUFFICES ASSUME HistoryInv, Crash PROVE HistoryInv'
  OBVIOUS
<1>1. /\ HistoryTypes /\ Mirroring /\ viewer' = [viewer EXCEPT !.dead = TRUE]
      /\ calls' = <<>> /\ signals' = <<>> /\ engine' = FreshEngine /\ tab' = tab
      /\ historyActs' = historyActs + 1
  BY DEF HistoryInv, Crash, HistoryAct
<1>2. viewer' \in Viewers /\ viewer'.mirror = viewer.mirror /\ viewer'.dead
  BY <1>1 DEF HistoryTypes, Viewers
<1>3. HistoryTypes' /\ Mirroring'
  BY <1>1, <1>2, FreshIs DEF HistoryTypes, Mirroring, Here
<1> QED BY <1>2, <1>3 DEF HistoryInv

\* A load that is asked for
LEMMA AskingKeeps ==
  ASSUME HistoryInv, NEW u \in Urls, calls' = Append(calls, LoadCall(u)),
         viewer' \in Viewers, viewer'.mirror = viewer.mirror, historyActs' \in Nat,
         UNCHANGED <<tab, engine, signals>>
  PROVE  HistoryInv'
<1>1. HistoryTypes /\ Mirroring /\ calls \in Seq(HistoryCalls)
  BY DEF HistoryInv, HistoryTypes
<1>2. calls' \in Seq(HistoryCalls) /\ Loads(calls')
  <2>1. LoadCall(u) \in HistoryCalls /\ LoadCall(u).fn = "bib_load_url"
    BY CallTypes
  <2>2. /\ calls \o <<LoadCall(u)>> = Append(calls, LoadCall(u))
        /\ calls \o <<LoadCall(u)>> \in Seq(HistoryCalls) /\ Loads(calls \o <<LoadCall(u)>>)
    BY <1>1, <2>1, CallsAdd
  <2> QED BY <2>2
<1>3. HistoryTypes' /\ Mirroring'
  BY <1>1, <1>2 DEF HistoryTypes, Mirroring, Here
<1>4. Underway(calls', engine')
  BY <1>2 DEF Underway
<1> QED BY <1>3, <1>4 DEF HistoryInv, EngineHeard, TabFollows

LEMMA ReadyKeeps == HistoryInv /\ Ready => HistoryInv'
<1> SUFFICES ASSUME HistoryInv, Ready PROVE HistoryInv'
  OBVIOUS
<1>1. /\ viewer \in Viewers /\ historyActs' \in Nat /\ viewer' = [viewer EXCEPT !.ready = TRUE]
      /\ calls' = Append(calls, LoadCall(viewer.start)) /\ UNCHANGED <<tab, engine, signals>>
  BY DEF HistoryInv, HistoryTypes, Ready
<1>2. viewer.start \in Urls /\ viewer' \in Viewers /\ viewer'.mirror = viewer.mirror
  BY <1>1 DEF Viewers
<1> QED BY <1>1, <1>2, AskingKeeps

LEMMA NavigateKeeps ==
  ASSUME HistoryInv, NEW u \in Urls, Navigate(u)
  PROVE  HistoryInv'
<1>1. /\ viewer' \in Viewers /\ viewer'.mirror = viewer.mirror /\ historyActs' \in Nat
      /\ calls' = Append(calls, LoadCall(u)) /\ UNCHANGED <<tab, engine, signals>>
  BY DEF HistoryInv, HistoryTypes, Navigate, HistoryAct
<1> QED BY <1>1, AskingKeeps

\* The tab's entry is e, and the page hears of it: it shows, or the engine is on its way there
LEMMA PopstateKeeps ==
  ASSUME HistoryInv, NEW e \in Entries, Popstate(e), Here' = e, historyActs' \in Nat,
         tab' \in [entries : Seq(Entries), pos : Nat], tab'.pos \in DOMAIN tab'.entries
  PROVE  HistoryInv'
<1> DEFINE v == [viewer EXCEPT !.mirror = e, !.issuedFrom = NoIndex,
                               !.want = IF e.index = NoIndex THEN NoUrl ELSE e]
<1>1. /\ HistoryTypes /\ viewer \in Viewers /\ calls \in Seq(HistoryCalls)
      /\ e.url \in Urls /\ e.index \in Int /\ e # NoUrl /\ e \in [url : UrlOrNone, index : Int]
  BY NullAssumption DEF HistoryInv, HistoryTypes, Entries, UrlOrNone
<1>2. /\ v \in Viewers /\ v.mirror = e /\ v.issuedFrom = NoIndex
      /\ v.want = (IF e.index = NoIndex THEN NoUrl ELSE e)
      /\ v.url = viewer.url /\ v.index = viewer.index /\ v.length = viewer.length
      /\ v.ready = viewer.ready /\ v.dead = viewer.dead /\ v.strip = viewer.strip
  <2>1. (IF e.index = NoIndex THEN NoUrl ELSE e) \in Entries \cup {NoUrl} /\ NoIndex \in Int
    BY DEF NoIndex
  <2> QED BY <1>1, <2>1 DEF Viewers
<1>3. CASE viewer.dead /\ Reboot
  BY <1>3, RebootKeeps
<1>4. ASSUME ~viewer.dead, UNCHANGED <<engine, signals>>, viewer' \in Viewers, viewer'.mirror = e,
             calls' \in Seq(HistoryCalls)
      PROVE  HistoryTypes' /\ Mirroring'
  BY <1>1, <1>4 DEF HistoryTypes, Mirroring
\* A load is asked for, or the page is not up
<1>5. ASSUME ~viewer.dead, UNCHANGED <<engine, signals>>, viewer' \in Viewers, viewer'.mirror = e,
             calls' \in Seq(HistoryCalls), Loads(calls') \/ ~viewer'.ready
      PROVE  HistoryInv'
  BY <1>4, <1>5 DEF HistoryInv, EngineHeard, TabFollows, Underway
\* What the page believes of the engine is as true as it was
<1>6. ASSUME UNCHANGED <<engine, signals>>, Loads(calls) => Loads(calls'), SameBelief(viewer', v),
             viewer'.ready, ~viewer'.dead
      PROVE  EngineHeard'
  <2>1. EngineHeard
    BY <1>2, <1>6 DEF HistoryInv, SameBelief
  <2>2. CASE Underway(calls, engine)
    BY <1>6, <2>2 DEF EngineHeard, Underway
  <2>3. CASE Truthful(engine, signals, viewer)
    BY <1>2, <1>6, <2>3 DEF EngineHeard, Truthful, SameBelief
  <2> QED BY <2>1, <2>2, <2>3 DEF EngineHeard
<1>7. CASE ~viewer.dead /\ UNCHANGED <<engine, signals>> /\ e.index # NoIndex /\ Adopt(Drive(v))
  <2> DEFINE d == Drive(v)
  <2>0. viewer' = d.v /\ calls' = calls \o d.calls
    BY <1>7 DEF Adopt
  <2>1. /\ viewer' \in Viewers /\ SameBelief(viewer', v) /\ calls' \in Seq(HistoryCalls)
        /\ Loads(calls) => Loads(calls')
        /\ \/ \/ v.want = NoUrl \/ ~v.ready \/ v.dead \/ v.index = NoIndex
              \/ v.index = v.want.index /\ v.url = v.want.url
              \/ v.issuedFrom = v.index
           \/ Loads(calls')
           \/ Moving(calls', viewer')
    <3> HIDE DEF v
    <3> SUFFICES
          /\ d.v \in Viewers /\ SameBelief(d.v, v) /\ calls \o d.calls \in Seq(HistoryCalls)
          /\ Loads(calls) => Loads(calls \o d.calls)
          /\ \/ \/ v.want = NoUrl \/ ~v.ready \/ v.dead \/ v.index = NoIndex
                \/ v.index = v.want.index /\ v.url = v.want.url
                \/ v.issuedFrom = v.index
             \/ Loads(calls \o d.calls)
             \/ Moving(calls \o d.calls, d.v)
      BY <2>0, Zenon
    <3> QED BY <1>1, <1>2, AdoptIs
  <2> HIDE DEF d, v
  <2>2. HistoryTypes' /\ Mirroring'
    BY <1>2, <1>4, <1>7, <2>1 DEF SameBelief
  <2>3. ASSUME viewer'.ready, ~viewer'.dead PROVE EngineHeard' /\ TabFollows'
    <3>1. EngineHeard'
      BY <1>6, <1>7, <2>1, <2>3
    <3>2. v.want = e /\ v.ready /\ ~v.dead
      BY <1>2, <1>7, <2>1, <2>3 DEF SameBelief
    <3>3. CASE v.index = NoIndex
      <4>1. ASSUME ~Underway(calls', engine'), signals' = <<>>, ~viewer'.strip PROVE FALSE
        <5>1. Accurate(engine', viewer'.url, viewer'.index, viewer'.length)
          BY <3>1, <4>1 DEF EngineHeard, Truthful
        <5>2. viewer'.index >= 0 /\ viewer'.index = v.index
          BY <2>1, <5>1 DEF Accurate, SameBelief
        <5> QED BY <3>3, <5>2 DEF NoIndex
      <4> QED BY <3>1, <4>1 DEF TabFollows
    <3>4. CASE v.index = v.want.index /\ v.url = v.want.url
      <4>1. Shows(tab', viewer')
        BY <2>1, <3>2, <3>4 DEF Shows, Here, SameBelief
      <4> QED BY <3>1, <4>1 DEF TabFollows
    <3>5. CASE Loads(calls')
      BY <3>1, <3>5 DEF TabFollows, Underway
    <3>6. CASE Moving(calls', viewer')
      BY <3>1, <3>6 DEF TabFollows
    <3> QED BY <1>1, <1>2, <2>1, <3>2, <3>3, <3>4, <3>5, <3>6
  <2> QED BY <2>2, <2>3 DEF HistoryInv
<1>8. CASE /\ ~viewer.dead /\ UNCHANGED <<engine, signals>> /\ e.index = NoIndex /\ e.url = viewer.url
           /\ Adopt([v |-> v, calls |-> <<>>])
  <2>1. viewer' = v /\ calls' = calls
    BY <1>1, <1>8 DEF Adopt
  <2> HIDE DEF v
  <2>2. HistoryTypes' /\ Mirroring'
    BY <1>1, <1>2, <1>4, <1>8, <2>1
  <2>3. Shows(tab', viewer')
    BY <1>2, <1>8, <2>1 DEF Shows, Here
  <2>4. viewer'.ready /\ ~viewer'.dead => EngineHeard'
    BY <1>6, <1>8, <2>1 DEF SameBelief
  <2> QED BY <2>2, <2>3, <2>4 DEF HistoryInv, TabFollows
<1>9. CASE /\ ~viewer.dead /\ UNCHANGED <<engine, signals>>
           /\ Adopt([v |-> LoadEntry(v), calls |-> <<LoadCall(e.url)>>])
  <2> HIDE DEF v
  <2>1. viewer' = LoadEntry(v) /\ calls' = calls \o <<LoadCall(e.url)>>
    BY <1>9 DEF Adopt
  <2>2. viewer' \in Viewers /\ viewer'.mirror = e
    BY <1>2, <2>1, ReachedIs DEF SameBelief
  <2>3. LoadCall(e.url) \in HistoryCalls /\ LoadCall(e.url).fn = "bib_load_url"
    BY <1>1, CallTypes
  <2>4. calls' \in Seq(HistoryCalls) /\ Loads(calls')
    BY <1>1, <2>1, <2>3, CallsAdd
  <2> QED BY <1>5, <1>9, <2>2, <2>4
<1>10. CASE /\ ~viewer.dead /\ UNCHANGED <<engine, signals>> /\ ~v.ready
            /\ \E dies \in BOOLEAN :
                 Adopt([v |-> [LoadEntry(v) EXCEPT !.dead = dies], calls |-> <<>>])
  <2> HIDE DEF v
  <2>1. PICK dies \in BOOLEAN : Adopt([v |-> [LoadEntry(v) EXCEPT !.dead = dies], calls |-> <<>>])
    BY <1>10
  <2>2. viewer' = [LoadEntry(v) EXCEPT !.dead = dies] /\ calls' = calls
    BY <1>1, <2>1 DEF Adopt
  <2>3. LoadEntry(v) \in Viewers /\ LoadEntry(v).mirror = e /\ ~LoadEntry(v).ready
    BY <1>2, <1>10, ReachedIs DEF SameBelief
  <2>4. viewer' \in Viewers /\ viewer'.mirror = e /\ ~viewer'.ready
    BY <2>2, <2>3 DEF Viewers
  <2> QED BY <1>1, <1>5, <1>10, <2>2, <2>4
<1>11. v.ready = viewer.ready /\ v.url = viewer.url
  BY <1>2
<1> QED BY <1>3, <1>7, <1>8, <1>9, <1>10, <1>11 DEF Popstate

LEMMA TraverseKeeps ==
  ASSUME HistoryInv, NEW to \in DOMAIN tab.entries, Traverse(to)
  PROVE  HistoryInv'
<1>1. /\ tab \in [entries : Seq(Entries), pos : Nat] /\ tab' = [tab EXCEPT !.pos = to]
      /\ historyActs' \in Nat /\ Popstate(tab.entries[to])
  BY DEF HistoryInv, HistoryTypes, Traverse, HistoryAct
<1>2. to \in Nat /\ tab.entries[to] \in Entries
  BY <1>1
<1>3. /\ tab' \in [entries : Seq(Entries), pos : Nat] /\ tab'.pos \in DOMAIN tab'.entries
      /\ Here' = tab.entries[to]
  BY <1>1, <1>2 DEF Here
<1> QED BY <1>1, <1>2, <1>3, PopstateKeeps

LEMMA EditAddressKeeps ==
  ASSUME HistoryInv, NEW u \in Urls, EditAddress(u)
  PROVE  HistoryInv'
<1> DEFINE e == [url |-> u, index |-> NoIndex]
           to == Mirrored(tab, e, TRUE)
<1>1. /\ tab \in [entries : Seq(Entries), pos : Nat] /\ tab.pos \in DOMAIN tab.entries
      /\ tab' = to /\ historyActs' \in Nat /\ Popstate(e)
  BY DEF HistoryInv, HistoryTypes, EditAddress, HistoryAct
<1>2. e \in Entries
  BY DEF Entries, NoIndex
<1> HIDE DEF e
<1>3. to \in [entries : Seq(Entries), pos : Nat] /\ to.pos \in DOMAIN to.entries /\ to.entries[to.pos] = e
  BY <1>1, <1>2, MirroredIs
<1> HIDE DEF to
<1>4. Here' = e
  BY <1>1, <1>3 DEF Here
<1> QED BY <1>1, <1>2, <1>3, <1>4, PopstateKeeps

-----------------------------------------------------------------------------
LEMMA HistoryInitHolds == HistoryInit => HistoryInv
<1> SUFFICES ASSUME HistoryInit PROVE HistoryInv
  OBVIOUS
<1> DEFINE e == [url |-> StartUrl, index |-> NoIndex]
<1>1. /\ tab = [entries |-> <<e>>, pos |-> 1] /\ viewer = FreshPage(StartUrl) /\ engine = FreshEngine
      /\ calls = <<>> /\ signals = <<>> /\ historyActs = 0
  BY DEF HistoryInit
<1>2. e \in Entries /\ StartUrl \in Urls
  BY UrlAssumption DEF Entries, NoIndex
<1> HIDE DEF e
<1>3. tab \in [entries : Seq(Entries), pos : Nat] /\ tab.pos \in DOMAIN tab.entries
  BY <1>1, <1>2
<1>4. /\ viewer \in Viewers /\ ~viewer.ready /\ viewer.mirror = [url |-> NoUrl, index |-> NoIndex]
      /\ engine \in EngineStates /\ EngineIsSane(engine)
  BY <1>1, <1>2, FreshIs
<1>5. HistoryTypes /\ Mirroring
  BY <1>1, <1>3, <1>4 DEF HistoryTypes, Mirroring
<1> QED BY <1>4, <1>5 DEF HistoryInv

LEMMA HistoryStepKeeps == HistoryInv /\ [HistoryNext]_historyVars => HistoryInv'
<1> SUFFICES ASSUME HistoryInv, [HistoryNext]_historyVars PROVE HistoryInv'
  OBVIOUS
<1>1. CASE EngineStep
  BY <1>1, EngineCallKeeps, CommitKeeps, FinishKeeps DEF EngineStep
<1>2. CASE ViewerStep
  BY <1>2, ReceiveUrlKeeps, ReceiveFailedKeeps, ReadyKeeps DEF ViewerStep
<1>3. CASE UserActs
  BY <1>3, ReloadKeeps, CrashKeeps, TraverseKeeps, NavigateKeeps, EditAddressKeeps DEF UserActs
<1>4. CASE Guest \/ Fail \/ Cancel
  BY <1>4, GuestKeeps, FailKeeps, CancelKeeps
<1>5. CASE UNCHANGED historyVars
  BY <1>5 DEF historyVars, HistoryInv, HistoryTypes, Mirroring, Here, EngineHeard, TabFollows
<1> QED BY <1>1, <1>2, <1>3, <1>4, <1>5 DEF HistoryNext

\* When nothing is in flight, all that was owed has been heard
LEMMA SettledTellsTheTruth == HistoryInv => TabTellsTheTruth
<1> SUFFICES ASSUME HistoryInv, Settled, ~viewer.strip, ~viewer.stale, engine.open # "cut"
             PROVE  Here.url = EngineUrl /\ Here.index \in {NoIndex, engine.cur}
  BY DEF TabTellsTheTruth
<1>1. /\ HistoryTypes /\ EngineHeard /\ TabFollows /\ calls = <<>> /\ signals = <<>>
      /\ engine.prov = NoUrl /\ engine.open = NoUrl
  BY DEF HistoryInv, Settled, Opened, HistoryTypes, EngineStates
<1>2. ~Loads(calls) /\ ~Moving(calls, viewer)
  BY <1>1 DEF Loads, Moving
<1>3. ~Underway(calls, engine)
  BY <1>1, <1>2 DEF Underway
<1>4. Accurate(engine, viewer.url, viewer.index, viewer.length)
  BY <1>1, <1>3 DEF EngineHeard, Truthful
<1>5. Shows(tab, viewer)
  BY <1>1, <1>2, <1>3 DEF TabFollows
<1>6. ~(engine.cur < 0)
  BY <1>1, <1>4 DEF HistoryTypes, EngineStates, Accurate
<1> QED BY <1>4, <1>5, <1>6 DEF Accurate, Shows, Here, EngineUrl

\* TabTellsTheTruth (TabHistory): for every list capacity and any number of acts, once nothing
\* is in flight between the page (syncTabHistory, drive) and the engine's list, the tab's entry is
\* the page on screen, unless the strip is up, the browser refused the last write or the last
\* load was cancelled, which emitLoadFailed does not signal.
THEOREM TabsTellTheTruth == HistorySpec => []TabTellsTheTruth
<1>1. HistoryInit => HistoryInv
  BY HistoryInitHolds
<1>2. HistoryInv /\ [HistoryNext]_historyVars => HistoryInv'
  BY HistoryStepKeeps
<1>3. HistoryInv => TabTellsTheTruth
  BY SettledTellsTheTruth
<1> QED BY <1>1, <1>2, <1>3, PTL DEF HistorySpec

-----------------------------------------------------------------------------
(* Input: a queue q of calls, against the events es it was made from.      *)

Kinds == {"move", "wheel", "hostbutton", "down", "up", "focus", "hostkey", "key", "pastekey",
          "plainpastekey", "keyup", "copy", "paste", "stray paste"}
Fns == {"bib_set_focus", "bib_mouse_move", "bib_wheel", "bib_mouse_button", "bib_key", "bib_edit"}
Args == Mods \cup BOOLEAN \cup {"key", "char", "pastekey", "plainpastekey", "keyup", "copy", "paste",
                             "plain paste"}
Events == [kind : Kinds, mods : Mods]
CallSet == [fn : Fns, ids : SUBSET Nat, arg : Args]
Queues == [move : Nat, wheel : [ids : SUBSET Nat, mods : Mods], sent : Seq(CallSet)]
Of(es, kind) == {e \in DOMAIN es : es[e].kind = kind}

\* Nothing is pending or sent that did not happen
Made(q, es) == /\ es \in Seq(Events) /\ q \in Queues
               /\ q.move \in {NoMove} \cup Of(es, "move") /\ q.wheel.ids \subseteq 1..Len(es)
               /\ \A i \in DOMAIN q.sent : q.sent[i].ids \subseteq 1..Len(es)
\* ScrollLandsFirst
LandsFirst(q, es) ==
    \A i \in DOMAIN q.sent : q.sent[i].fn = "bib_mouse_button" => \A b \in q.sent[i].ids :
        /\ \A e \in Of(es, "wheel") : e < b => \E j \in 1..(i - 1) : e \in q.sent[j].ids
        /\ \A e \in Of(es, "move") : e < b =>
               \E j \in DOMAIN q.sent : /\ q.sent[j].fn = "bib_mouse_move" /\ j < i
                                        /\ \E m \in q.sent[j].ids : e <= m
        /\ \A j \in 1..(i - 1) : \A e \in q.sent[j].ids : e < b
\* EveryDeltaOnce, and only deltas are summed
Once(q, es) ==
    /\ q.wheel.ids \subseteq Of(es, "wheel")
    /\ \A e \in Of(es, "wheel") :
         IF e \in q.wheel.ids THEN \A i \in DOMAIN q.sent : e \notin q.sent[i].ids
         ELSE \E i \in DOMAIN q.sent : /\ q.sent[i].fn = "bib_wheel"
                                       /\ \A j \in DOMAIN q.sent : e \in q.sent[j].ids <=> j = i
\* No move is forgotten before a later one is sent
Pointed(q, es) ==
    \A e \in Of(es, "move") :
        \/ e <= q.move
        \/ \E j \in DOMAIN q.sent : q.sent[j].fn = "bib_mouse_move" /\ \E m \in q.sent[j].ids : e <= m
Faithful(q, es) == LandsFirst(q, es) /\ Once(q, es) /\ Pointed(q, es)

LEMMA SentIs ==
  ASSUME NEW q \in Queues, NEW c \in CallSet
  PROVE  /\ Sent(q, c) \in Queues /\ Sent(q, c).move = q.move /\ Sent(q, c).wheel = q.wheel
         /\ DOMAIN Sent(q, c).sent = 1..(Len(q.sent) + 1) /\ DOMAIN q.sent = 1..Len(q.sent)
         /\ \A i \in 1..Len(q.sent) : Sent(q, c).sent[i] = q.sent[i] /\ q.sent[i] \in CallSet
         /\ Sent(q, c).sent[Len(q.sent) + 1] = c /\ Len(q.sent) \in Nat
<1>1. q.sent \in Seq(CallSet)
  BY DEF Queues
<1>2. Sent(q, c) = [q EXCEPT !.sent = Append(q.sent, c)]
  BY DEF Sent
<1>3. /\ Sent(q, c) \in Queues /\ Sent(q, c).move = q.move /\ Sent(q, c).wheel = q.wheel
      /\ Sent(q, c).sent = Append(q.sent, c)
  <2> DEFINE t == Append(q.sent, c)
  <2>1. t \in Seq(CallSet)
    BY <1>1
  <2> HIDE DEF t
  <2>2. /\ [q EXCEPT !.sent = t] \in Queues /\ [q EXCEPT !.sent = t].move = q.move
        /\ [q EXCEPT !.sent = t].wheel = q.wheel /\ [q EXCEPT !.sent = t].sent = t
    BY <2>1 DEF Queues
  <2> QED BY <1>2, <2>2 DEF t
<1> QED BY <1>1, <1>3

\* An event that is neither a move nor a delta
LEMMA EventIs ==
  ASSUME NEW es \in Seq(Events), NEW ev \in Events
  PROVE  /\ Append(es, ev) \in Seq(Events) /\ Len(Append(es, ev)) = Len(es) + 1 /\ Len(es) \in Nat
         /\ \A kind : Of(Append(es, ev), kind) = Of(es, kind) \cup (IF ev.kind = kind THEN {Len(es) + 1} ELSE {})
         /\ \A kind : Of(es, kind) \subseteq 1..Len(es)
<1>1. /\ Append(es, ev) \in Seq(Events) /\ Len(Append(es, ev)) = Len(es) + 1 /\ Len(es) \in Nat
      /\ DOMAIN Append(es, ev) = 1..(Len(es) + 1) /\ DOMAIN es = 1..Len(es)
      /\ \A e \in 1..Len(es) : Append(es, ev)[e] = es[e]
      /\ Append(es, ev)[Len(es) + 1] = ev
  OBVIOUS
<1>2. ASSUME NEW kind PROVE Of(Append(es, ev), kind) = Of(es, kind) \cup (IF ev.kind = kind THEN {Len(es) + 1} ELSE {})
  BY <1>1 DEF Of
<1> QED BY <1>1, <1>2 DEF Of

\* A call for what is neither a delta nor a button
LEMMA CallKeeps ==
  ASSUME NEW q, NEW es, Made(q, es), NEW c \in CallSet, c.ids \subseteq 1..Len(es),
         c.fn # "bib_mouse_button"
  PROVE  /\ Made(Sent(q, c), es)
         /\ LandsFirst(q, es) => LandsFirst(Sent(q, c), es)
         /\ c.ids \cap Of(es, "wheel") = {} /\ Once(q, es) => Once(Sent(q, c), es)
         /\ Pointed(q, es) => Pointed(Sent(q, c), es)
<1>1. q \in Queues
  BY DEF Made
<1> DEFINE p == Sent(q, c)
           n == Len(q.sent)
<1>2. /\ p \in Queues /\ p.move = q.move /\ p.wheel = q.wheel /\ n \in Nat
      /\ DOMAIN p.sent = 1..(n + 1) /\ DOMAIN q.sent = 1..n
      /\ \A i \in 1..n : p.sent[i] = q.sent[i] /\ q.sent[i] \in CallSet
      /\ p.sent[n + 1] = c
  BY <1>1, SentIs
<1> HIDE DEF p, n
<1>3. Made(p, es)
  BY <1>2 DEF Made
<1>4. ASSUME LandsFirst(q, es) PROVE LandsFirst(p, es)
  <2> SUFFICES ASSUME NEW i \in DOMAIN p.sent, p.sent[i].fn = "bib_mouse_button", NEW b \in p.sent[i].ids
               PROVE  /\ \A e \in Of(es, "wheel") : e < b => \E j \in 1..(i - 1) : e \in p.sent[j].ids
                      /\ \A e \in Of(es, "move") : e < b =>
                             \E j \in DOMAIN p.sent : /\ p.sent[j].fn = "bib_mouse_move" /\ j < i
                                                      /\ \E m \in p.sent[j].ids : e <= m
                      /\ \A j \in 1..(i - 1) : \A e \in p.sent[j].ids : e < b
    BY DEF LandsFirst
  <2>0. i \in 1..n /\ q.sent[i].fn = "bib_mouse_button" /\ b \in q.sent[i].ids
    BY <1>2
  <2>1. \A j \in 1..(i - 1) : j \in 1..n /\ p.sent[j] = q.sent[j]
    BY <1>2, <2>0
  <2>2. \A j \in DOMAIN q.sent : j \in DOMAIN p.sent /\ p.sent[j] = q.sent[j]
    BY <1>2
  <2>3. ASSUME NEW e \in Of(es, "wheel"), e < b PROVE \E j \in 1..(i - 1) : e \in p.sent[j].ids
    BY <1>2, <1>4, <2>0, <2>1, <2>3 DEF LandsFirst
  <2>4. ASSUME NEW e \in Of(es, "move"), e < b
        PROVE  \E j \in DOMAIN p.sent : /\ p.sent[j].fn = "bib_mouse_move" /\ j < i
                                        /\ \E m \in p.sent[j].ids : e <= m
    BY <1>2, <1>4, <2>0, <2>2, <2>4 DEF LandsFirst
  <2>5. \A j \in 1..(i - 1) : \A e \in p.sent[j].ids : e < b
    BY <1>2, <1>4, <2>0, <2>1 DEF LandsFirst
  <2> QED BY <2>3, <2>4, <2>5
<1>5. ASSUME c.ids \cap Of(es, "wheel") = {}, Once(q, es) PROVE Once(p, es)
  BY <1>2, <1>5 DEF Once
<1>6. ASSUME Pointed(q, es) PROVE Pointed(p, es)
  BY <1>2, <1>6 DEF Pointed
<1> QED BY <1>3, <1>4, <1>5, <1>6 DEF p

LEMMA EventKeeps ==
  ASSUME NEW q, NEW es, Made(q, es), NEW ev \in Events
  PROVE  /\ Made(q, Append(es, ev))
         /\ LandsFirst(q, es) => LandsFirst(q, Append(es, ev))
         /\ ev.kind # "wheel" /\ Once(q, es) => Once(q, Append(es, ev))
         /\ ev.kind # "move" /\ Pointed(q, es) => Pointed(q, Append(es, ev))
<1> DEFINE fs == Append(es, ev)
           n == Len(es)
<1>1. /\ fs \in Seq(Events) /\ Len(fs) = n + 1 /\ n \in Nat
      /\ \A kind : Of(fs, kind) = Of(es, kind) \cup (IF ev.kind = kind THEN {n + 1} ELSE {})
      /\ \A kind : Of(es, kind) \subseteq 1..n
  BY EventIs DEF Made
<1> HIDE DEF fs, n
<1>2. \A i \in DOMAIN q.sent : q.sent[i].ids \subseteq 1..n
  BY DEF Made, n
<1>3. Made(q, fs)
  BY <1>1 DEF Made, n
<1>4. ASSUME LandsFirst(q, es) PROVE LandsFirst(q, fs)
  <2> SUFFICES ASSUME NEW i \in DOMAIN q.sent, q.sent[i].fn = "bib_mouse_button", NEW b \in q.sent[i].ids
               PROVE  /\ \A e \in Of(fs, "wheel") : e < b => \E j \in 1..(i - 1) : e \in q.sent[j].ids
                      /\ \A e \in Of(fs, "move") : e < b =>
                             \E j \in DOMAIN q.sent : /\ q.sent[j].fn = "bib_mouse_move" /\ j < i
                                                      /\ \E m \in q.sent[j].ids : e <= m
                      /\ \A j \in 1..(i - 1) : \A e \in q.sent[j].ids : e < b
    BY DEF LandsFirst
  <2>1. b \in 1..n
    BY <1>2
  <2>2. \A kind : \A e \in Of(fs, kind) : e < b => e \in Of(es, kind)
    BY <1>1, <2>1
  <2>3. ASSUME NEW e \in Of(fs, "wheel"), e < b PROVE \E j \in 1..(i - 1) : e \in q.sent[j].ids
    BY <1>4, <2>2, <2>3 DEF LandsFirst
  <2>4. ASSUME NEW e \in Of(fs, "move"), e < b
        PROVE  \E j \in DOMAIN q.sent : /\ q.sent[j].fn = "bib_mouse_move" /\ j < i
                                        /\ \E m \in q.sent[j].ids : e <= m
    BY <1>4, <2>2, <2>4 DEF LandsFirst
  <2>5. \A j \in 1..(i - 1) : \A e \in q.sent[j].ids : e < b
    BY <1>4 DEF LandsFirst
  <2> QED BY <2>3, <2>4, <2>5
<1>5. ASSUME ev.kind # "wheel", Once(q, es) PROVE Once(q, fs)
  BY <1>1, <1>5 DEF Once
<1>6. ASSUME ev.kind # "move", Pointed(q, es) PROVE Pointed(q, fs)
  BY <1>1, <1>6 DEF Pointed
<1> QED BY <1>3, <1>4, <1>5, <1>6 DEF fs

LEMMA MovesFlush ==
  ASSUME NEW q, NEW es, Made(q, es)
  PROVE  /\ Made(FlushMove(q), es) /\ FlushMove(q).move = NoMove /\ FlushMove(q).wheel = q.wheel
         /\ Faithful(q, es) => Faithful(FlushMove(q), es)
<1>1. CASE q.move = NoMove
  BY <1>1 DEF FlushMove
<1>2. CASE q.move # NoMove
  <2> DEFINE c == Call("bib_mouse_move", {q.move}, NoMods)
             s == Sent(q, c)
             p == [s EXCEPT !.move = NoMove]
  <2>1. /\ q.move \in Of(es, "move") /\ es \in Seq(Events) /\ q \in Queues
        /\ Of(es, "move") \subseteq Nat /\ Of(es, "move") \subseteq 1..Len(es)
        /\ Of(es, "move") \cap Of(es, "wheel") = {}
    BY <1>2 DEF Made, Of
  <2>2. c \in CallSet /\ c.ids = {q.move} /\ c.fn = "bib_mouse_move"
    BY <2>1, ModsAssumption DEF Call, CallSet, Fns, Args
  <2>3. FlushMove(q) = p
    BY <1>2 DEF FlushMove
  <2> HIDE DEF c
  <2>4. /\ Made(s, es)
        /\ LandsFirst(q, es) => LandsFirst(s, es)
        /\ Once(q, es) => Once(s, es)
    BY <2>1, <2>2, CallKeeps
  <2>5. /\ s \in Queues /\ s.wheel = q.wheel /\ Len(q.sent) \in Nat
        /\ DOMAIN s.sent = 1..(Len(q.sent) + 1) /\ DOMAIN q.sent = 1..Len(q.sent)
        /\ \A i \in 1..Len(q.sent) : s.sent[i] = q.sent[i]
        /\ s.sent[Len(q.sent) + 1] = c
    BY <2>1, <2>2, SentIs
  <2> HIDE DEF s
  <2>6. p \in Queues /\ p.sent = s.sent /\ p.wheel = s.wheel /\ p.move = NoMove
    BY <2>5 DEF Queues, NoMove
  <2> HIDE DEF p
  <2>7. Made(p, es)
    BY <2>4, <2>6 DEF Made
  <2>8. ASSUME Faithful(q, es) PROVE Faithful(p, es)
    <3>1. LandsFirst(p, es)
      BY <2>4, <2>6, <2>8 DEF Faithful, LandsFirst
    <3>2. Once(p, es)
      BY <2>4, <2>6, <2>8 DEF Faithful, Once
    <3>3. ASSUME NEW e \in Of(es, "move")
          PROVE  \E j \in DOMAIN p.sent : p.sent[j].fn = "bib_mouse_move" /\ \E m \in p.sent[j].ids : e <= m
      <4>1. CASE e <= q.move
        <5>1. Len(q.sent) + 1 \in DOMAIN p.sent /\ p.sent[Len(q.sent) + 1] = c
          BY <2>5, <2>6
        <5> QED BY <2>2, <4>1, <5>1
      <4>2. CASE ~(e <= q.move)
        <5>1. PICK j \in DOMAIN q.sent : q.sent[j].fn = "bib_mouse_move" /\ \E m \in q.sent[j].ids : e <= m
          BY <2>8, <4>2 DEF Faithful, Pointed
        <5>2. j \in DOMAIN p.sent /\ p.sent[j] = q.sent[j]
          BY <2>5, <2>6
        <5> QED BY <5>1, <5>2
      <4> QED BY <4>1, <4>2
    <3> QED BY <3>1, <3>2, <3>3 DEF Faithful, Pointed
  <2> QED BY <2>3, <2>5, <2>6, <2>7, <2>8
<1> QED BY <1>1, <1>2

LEMMA WheelFlushes ==
  ASSUME NEW q, NEW es, Made(q, es)
  PROVE  /\ Made(FlushWheel(q), es) /\ FlushWheel(q).move = q.move /\ FlushWheel(q).wheel = NoWheel
         /\ Faithful(q, es) => Faithful(FlushWheel(q), es)
<1>1. CASE q.wheel = NoWheel
  BY <1>1 DEF FlushWheel
<1>2. CASE q.wheel # NoWheel
  <2> DEFINE c == Call("bib_wheel", q.wheel.ids, q.wheel.mods)
             s == Sent(q, c)
             p == [s EXCEPT !.wheel = NoWheel]
             n == Len(q.sent)
  <2>1. es \in Seq(Events) /\ q \in Queues /\ q.wheel.ids \subseteq 1..Len(es)
    BY DEF Made
  <2>2. c \in CallSet /\ c.ids = q.wheel.ids /\ c.fn = "bib_wheel"
    BY <2>1 DEF Call, CallSet, Fns, Args, Queues
  <2>3. FlushWheel(q) = p
    BY <1>2 DEF FlushWheel
  <2> HIDE DEF c
  <2>4. /\ Made(s, es)
        /\ LandsFirst(q, es) => LandsFirst(s, es)
        /\ Pointed(q, es) => Pointed(s, es)
    BY <2>1, <2>2, CallKeeps
  <2>5. /\ s \in Queues /\ s.move = q.move /\ n \in Nat
        /\ DOMAIN s.sent = 1..(n + 1) /\ DOMAIN q.sent = 1..n
        /\ \A i \in 1..n : s.sent[i] = q.sent[i]
        /\ s.sent[n + 1] = c
    BY <2>1, <2>2, SentIs
  <2> HIDE DEF s, n
  <2>6. p \in Queues /\ p.sent = s.sent /\ p.move = s.move /\ p.wheel = NoWheel
    BY <2>5, ModsAssumption DEF Queues, NoWheel
  <2> HIDE DEF p
  <2>7. NoWheel.ids = {}
    BY DEF NoWheel
  <2>8. Made(p, es)
    BY <2>4, <2>6, <2>7 DEF Made
  <2>9. ASSUME Faithful(q, es) PROVE Faithful(p, es)
    <3>1. LandsFirst(p, es) /\ Pointed(p, es)
      BY <2>4, <2>6, <2>9 DEF Faithful, LandsFirst, Pointed
    <3>2. ASSUME NEW e \in Of(es, "wheel")
          PROVE  \E i \in DOMAIN p.sent : /\ p.sent[i].fn = "bib_wheel"
                                          /\ \A j \in DOMAIN p.sent : e \in p.sent[j].ids <=> j = i
      <4>1. DOMAIN p.sent = 1..(n + 1) /\ p.sent[n + 1] = c /\ \A i \in 1..n : p.sent[i] = q.sent[i]
        BY <2>5, <2>6
      <4>2. CASE e \in q.wheel.ids
        <5>1. \A j \in 1..n : e \notin p.sent[j].ids
          BY <2>5, <2>9, <4>1, <4>2 DEF Faithful, Once
        <5> QED BY <2>2, <2>5, <4>1, <4>2, <5>1
      <4>3. CASE e \notin q.wheel.ids
        <5>1. PICK i \in 1..n : q.sent[i].fn = "bib_wheel" /\ \A j \in 1..n : e \in q.sent[j].ids <=> j = i
          BY <2>5, <2>9, <4>3 DEF Faithful, Once
        <5>2. i \in DOMAIN p.sent /\ p.sent[i].fn = "bib_wheel"
          <6>1. p.sent[i] = q.sent[i] /\ n \in Nat
            BY <2>5, <4>1
          <6> QED BY <4>1, <5>1, <6>1
        <5>3. ASSUME NEW j \in DOMAIN p.sent PROVE e \in p.sent[j].ids <=> j = i
          <6>1. CASE j \in 1..n
            <7>1. p.sent[j] = q.sent[j]
              BY <4>1, <6>1
            <7> QED BY <5>1, <6>1, <7>1, Zenon
          <6>2. CASE j = n + 1
            <7>1. p.sent[j].ids = q.wheel.ids /\ j # i
              BY <2>2, <2>5, <4>1, <6>2
            <7> QED BY <4>3, <7>1, Zenon
          <6> QED BY <2>5, <4>1, <6>1, <6>2
        <5> QED BY <5>2, <5>3
      <4> QED BY <4>2, <4>3
    <3>3. Once(p, es)
      BY <2>6, <2>7, <3>2 DEF Once
    <3> QED BY <3>1, <3>3 DEF Faithful
  <2> QED BY <2>3, <2>5, <2>6, <2>8, <2>9
<1> QED BY <1>1, <1>2

LEMMA FlushKeeps ==
  ASSUME NEW q, NEW es, Made(q, es)
  PROVE  LET p == FlushWheel(FlushMove(q))
         IN /\ Made(p, es) /\ p.move = NoMove /\ p.wheel = NoWheel
            /\ Faithful(q, es) => Faithful(p, es)
<1>1. /\ Made(FlushMove(q), es) /\ FlushMove(q).move = NoMove
      /\ Faithful(q, es) => Faithful(FlushMove(q), es)
  BY MovesFlush
<1> QED BY <1>1, WheelFlushes

\* A call for an event that is new
LEMMA NewCallKeeps ==
  ASSUME NEW q, NEW es, Made(q, es), NEW ev \in Events, ev.kind \notin {"move", "wheel"},
         NEW c \in CallSet, c.ids \subseteq {Len(es) + 1}, c.fn # "bib_mouse_button"
  PROVE  /\ Made(Sent(q, c), Append(es, ev))
         /\ Faithful(q, es) => Faithful(Sent(q, c), Append(es, ev))
<1>1. /\ Append(es, ev) \in Seq(Events) /\ Len(Append(es, ev)) = Len(es) + 1 /\ Len(es) \in Nat
      /\ \A kind : Of(Append(es, ev), kind) = Of(es, kind) \cup (IF ev.kind = kind THEN {Len(es) + 1} ELSE {})
      /\ \A kind : Of(es, kind) \subseteq 1..Len(es)
  BY EventIs DEF Made
<1>2. c.ids \subseteq 1..Len(Append(es, ev)) /\ c.ids \cap Of(Append(es, ev), "wheel") = {}
  BY <1>1
<1>3. /\ Made(q, Append(es, ev))
      /\ Faithful(q, es) => Faithful(q, Append(es, ev))
  BY EventKeeps DEF Faithful
<1> QED BY <1>2, <1>3, CallKeeps DEF Faithful

\* A button's call, after what was pending
LEMMA ButtonKeeps ==
  ASSUME NEW q, NEW es, Made(q, es), Faithful(q, es), q.move = NoMove, q.wheel = NoWheel,
         NEW ev \in Events, ev.kind \notin {"move", "wheel"},
         NEW c \in CallSet, c.ids = {Len(es) + 1}, c.fn = "bib_mouse_button"
  PROVE  Made(Sent(q, c), Append(es, ev)) /\ Faithful(Sent(q, c), Append(es, ev))
<1> DEFINE fs == Append(es, ev)
           p == Sent(q, c)
           n == Len(q.sent)
           b == Len(es) + 1
<1>1. /\ fs \in Seq(Events) /\ Len(fs) = b /\ b \in Nat /\ Len(es) \in Nat
      /\ \A kind : Of(fs, kind) = Of(es, kind) \cup (IF ev.kind = kind THEN {b} ELSE {})
      /\ \A kind : Of(es, kind) \subseteq 1..Len(es)
  BY EventIs DEF Made
<1>2. /\ p \in Queues /\ p.move = q.move /\ p.wheel = q.wheel /\ n \in Nat
      /\ DOMAIN p.sent = 1..(n + 1) /\ DOMAIN q.sent = 1..n
      /\ \A i \in 1..n : p.sent[i] = q.sent[i] /\ q.sent[i] \in CallSet
      /\ p.sent[n + 1] = c
  BY SentIs DEF Made
<1>3. Made(q, fs) /\ LandsFirst(q, fs) /\ Once(q, fs) /\ Pointed(q, fs)
  BY EventKeeps DEF Faithful
<1>4. \A i \in 1..n : q.sent[i].ids \subseteq 1..Len(es)
  BY <1>2 DEF Made
<1> HIDE DEF fs, p, n
<1>5. Of(fs, "wheel") = Of(es, "wheel") /\ Of(fs, "move") = Of(es, "move")
  BY <1>1
<1>6. Made(p, fs)
  BY <1>1, <1>2, <1>3 DEF Made
<1>7. Once(p, fs)
  <2>1. c.ids \cap Of(fs, "wheel") = {}
    BY <1>1, <1>5
  <2>2. p.wheel.ids \subseteq Of(fs, "wheel")
    BY <1>2, <1>3 DEF Once
  <2>3. ASSUME NEW e \in Of(fs, "wheel"), e \in p.wheel.ids, NEW i \in DOMAIN p.sent
        PROVE  e \notin p.sent[i].ids
    <3>1. \A j \in 1..n : e \notin q.sent[j].ids
      BY <1>2, <1>3, <2>3 DEF Once
    <3> QED BY <1>2, <2>1, <3>1
  <2>4. ASSUME NEW e \in Of(fs, "wheel"), e \notin p.wheel.ids
        PROVE  \E i \in DOMAIN p.sent : /\ p.sent[i].fn = "bib_wheel"
                                        /\ \A j \in DOMAIN p.sent : e \in p.sent[j].ids <=> j = i
    <3>1. PICK i \in 1..n : q.sent[i].fn = "bib_wheel" /\ \A j \in 1..n : e \in q.sent[j].ids <=> j = i
      BY <1>2, <1>3, <2>4 DEF Once
    <3>2. e \notin c.ids /\ i # n + 1 /\ i \in DOMAIN p.sent /\ p.sent[i].fn = "bib_wheel"
      BY <1>2, <2>1, <3>1
    <3>3. ASSUME NEW j \in DOMAIN p.sent PROVE e \in p.sent[j].ids <=> j = i
      BY <1>2, <3>1, <3>2
    <3> QED BY <3>2, <3>3
  <2> QED BY <2>2, <2>3, <2>4 DEF Once
<1>8. Pointed(p, fs)
  BY <1>2, <1>3 DEF Pointed
<1>9. LandsFirst(p, fs)
  <2>1. ASSUME NEW i \in 1..n, q.sent[i].fn = "bib_mouse_button", NEW x \in q.sent[i].ids
        PROVE  /\ \A e \in Of(fs, "wheel") : e < x => \E j \in 1..(i - 1) : e \in p.sent[j].ids
               /\ \A e \in Of(fs, "move") : e < x =>
                      \E j \in DOMAIN p.sent : /\ p.sent[j].fn = "bib_mouse_move" /\ j < i
                                               /\ \E m \in p.sent[j].ids : e <= m
               /\ \A j \in 1..(i - 1) : \A e \in p.sent[j].ids : e < x
    <3>1. \A j \in 1..(i - 1) : j \in 1..n /\ p.sent[j] = q.sent[j]
      BY <1>2
    <3>2. \A j \in DOMAIN q.sent : j \in DOMAIN p.sent /\ p.sent[j] = q.sent[j]
      BY <1>2
    <3>3. ASSUME NEW e \in Of(fs, "wheel"), e < x PROVE \E j \in 1..(i - 1) : e \in p.sent[j].ids
      BY <1>2, <1>3, <2>1, <3>1, <3>3 DEF LandsFirst
    <3>4. ASSUME NEW e \in Of(fs, "move"), e < x
          PROVE  \E j \in DOMAIN p.sent : /\ p.sent[j].fn = "bib_mouse_move" /\ j < i
                                          /\ \E m \in p.sent[j].ids : e <= m
      BY <1>2, <1>3, <2>1, <3>2, <3>4 DEF LandsFirst
    <3>5. \A j \in 1..(i - 1) : \A e \in p.sent[j].ids : e < x
      BY <1>2, <1>3, <2>1, <3>1 DEF LandsFirst
    <3> QED BY <3>3, <3>4, <3>5
  <2>2. /\ \A e \in Of(fs, "wheel") : \E j \in 1..n : e \in p.sent[j].ids
        /\ \A e \in Of(fs, "move") :
               \E j \in 1..n : p.sent[j].fn = "bib_mouse_move" /\ \E m \in p.sent[j].ids : e <= m
        /\ \A j \in 1..n : \A e \in p.sent[j].ids : e < b
    <3>1. ASSUME NEW e \in Of(fs, "wheel") PROVE \E j \in 1..n : e \in p.sent[j].ids
      <4>1. e \notin q.wheel.ids
        BY DEF NoWheel
      <4> QED BY <1>2, <1>3, <3>1, <4>1 DEF Once
    <3>2. ASSUME NEW e \in Of(fs, "move")
          PROVE  \E j \in 1..n : p.sent[j].fn = "bib_mouse_move" /\ \E m \in p.sent[j].ids : e <= m
      <4>1. ~(e <= q.move)
        BY <1>1, <1>5, <3>2 DEF NoMove
      <4> QED BY <1>2, <1>3, <3>2, <4>1 DEF Pointed
    <3>3. \A j \in 1..n : \A e \in p.sent[j].ids : e < b
      BY <1>1, <1>2, <1>4
    <3> QED BY <3>1, <3>2, <3>3
  <2>3. 1..n = 1..((n + 1) - 1) /\ \A j \in 1..n : j < n + 1 /\ j \in DOMAIN p.sent
    BY <1>2
  <2>4. ASSUME NEW x \in c.ids
        PROVE  /\ \A e \in Of(fs, "wheel") : \E j \in 1..((n + 1) - 1) : e \in p.sent[j].ids
               /\ \A e \in Of(fs, "move") :
                      \E j \in DOMAIN p.sent : /\ p.sent[j].fn = "bib_mouse_move" /\ j < n + 1
                                               /\ \E m \in p.sent[j].ids : e <= m
               /\ \A j \in 1..((n + 1) - 1) : \A e \in p.sent[j].ids : e < x
    BY <2>2, <2>3, <2>4
  <2>5. DOMAIN p.sent = (1..n) \cup {n + 1} /\ \A i \in 1..n : p.sent[i] = q.sent[i]
    BY <1>2
  <2> HIDE DEF b
  <2>6. ASSUME NEW i \in DOMAIN p.sent, p.sent[i].fn = "bib_mouse_button", NEW x \in p.sent[i].ids
        PROVE  /\ \A e \in Of(fs, "wheel") : e < x => \E j \in 1..(i - 1) : e \in p.sent[j].ids
               /\ \A e \in Of(fs, "move") : e < x =>
                      \E j \in DOMAIN p.sent : /\ p.sent[j].fn = "bib_mouse_move" /\ j < i
                                               /\ \E m \in p.sent[j].ids : e <= m
               /\ \A j \in 1..(i - 1) : \A e \in p.sent[j].ids : e < x
    <3>1. CASE i \in 1..n
      <4>1. q.sent[i].fn = "bib_mouse_button" /\ x \in q.sent[i].ids
        BY <2>5, <2>6, <3>1
      <4> QED BY <2>1, <3>1, <4>1
    <3>2. CASE i = n + 1
      <4>1. x \in c.ids
        BY <1>2, <2>6, <3>2
      <4> QED BY <2>4, <3>2, <4>1
    <3> QED BY <2>5, <3>1, <3>2
  <2> QED BY <2>6 DEF LandsFirst
<1> QED BY <1>6, <1>7, <1>8, <1>9 DEF p, fs, Faithful

LEMMA DeltaKeeps ==
  ASSUME NEW q, NEW es, Made(q, es), NEW ev \in Events, ev.kind = "wheel", NEW mods \in Mods
  PROVE  /\ Made(Wheeled(q, Len(es) + 1, mods), Append(es, ev))
         /\ Faithful(q, es) => Faithful(Wheeled(q, Len(es) + 1, mods), Append(es, ev))
<1> DEFINE fs == Append(es, ev)
           b == Len(es) + 1
           p == Wheeled(q, b, mods)
<1>1. /\ fs \in Seq(Events) /\ Len(fs) = b /\ b \in Nat \ {0} /\ Len(es) \in Nat
      /\ \A kind : Of(fs, kind) = Of(es, kind) \cup (IF ev.kind = kind THEN {b} ELSE {})
      /\ \A kind : Of(es, kind) \subseteq 1..Len(es)
  BY EventIs DEF Made
<1>2. b \notin Of(es, "wheel") /\ Of(fs, "wheel") = Of(es, "wheel") \cup {b}
  BY <1>1
<1>3. PICK o : /\ Made(o, es) /\ (Faithful(q, es) => Faithful(o, es))
               /\ p \in Queues /\ p.sent = o.sent /\ p.move = o.move
               /\ p.wheel.ids = o.wheel.ids \cup {b}
  <2>1. CASE Joins(q, mods)
    <3>1. p = [q EXCEPT !.wheel.ids = q.wheel.ids \cup {b}]
      BY <2>1 DEF Wheeled, Summed
    <3>2. q \in Queues
      BY DEF Made
    <3>3. p \in Queues /\ p.sent = q.sent /\ p.move = q.move /\ p.wheel.ids = q.wheel.ids \cup {b}
      BY <1>1, <3>1, <3>2 DEF Queues
    <3> QED BY <3>3
  <2>2. CASE ~Joins(q, mods)
    <3>1. p = [FlushWheel(q) EXCEPT !.wheel = [ids |-> {b}, mods |-> mods]]
      BY <2>2 DEF Wheeled
    <3>2. /\ Made(FlushWheel(q), es) /\ (Faithful(q, es) => Faithful(FlushWheel(q), es))
          /\ FlushWheel(q).wheel = NoWheel
      BY WheelFlushes
    <3>3. FlushWheel(q) \in Queues
      BY <3>2 DEF Made
    <3>4. /\ p \in Queues /\ p.sent = FlushWheel(q).sent /\ p.move = FlushWheel(q).move
          /\ p.wheel.ids = FlushWheel(q).wheel.ids \cup {b}
      BY <1>1, <3>1, <3>2, <3>3 DEF Queues, NoWheel
    <3> QED BY <3>2, <3>4
  <2> QED BY <2>1, <2>2
<1> HIDE DEF p
<1>4. /\ Made(o, fs) /\ (LandsFirst(o, es) => LandsFirst(o, fs))
      /\ (Pointed(o, es) => Pointed(o, fs))
  BY <1>3, EventKeeps
<1> HIDE DEF fs, b
<1>5. \A i \in DOMAIN o.sent : b \notin o.sent[i].ids
  BY <1>1, <1>3 DEF Made, b
<1>6. Made(p, fs)
  <2>1. p.wheel.ids \subseteq 1..Len(fs)
    <3>1. o.wheel.ids \subseteq 1..Len(fs)
      BY <1>4 DEF Made
    <3>2. b \in 1..Len(fs)
      BY <1>1
    <3> QED BY <1>3, <3>1, <3>2
  <2> QED BY <1>1, <1>3, <1>4, <2>1 DEF Made
<1>7. ASSUME Faithful(q, es) PROVE Faithful(p, fs)
  <2>1. LandsFirst(p, fs) /\ Pointed(p, fs)
    BY <1>3, <1>4, <1>7 DEF Faithful, LandsFirst, Pointed
  <2>2. Once(o, es)
    BY <1>3, <1>7 DEF Faithful
  <2>3. Once(p, fs)
    BY <1>2, <1>3, <1>5, <2>2 DEF Once
  <2> QED BY <2>1, <2>3 DEF Faithful
<1> QED BY <1>6, <1>7 DEF p, fs, b

LEMMA MoveKeeps ==
  ASSUME NEW q, NEW es, Made(q, es), NEW ev \in Events, ev.kind = "move"
  PROVE  LET p == [q EXCEPT !.move = Len(es) + 1]
         IN /\ Made(p, Append(es, ev)) /\ (LandsFirst(q, es) => LandsFirst(p, Append(es, ev)))
            /\ (Faithful(q, es) => Faithful(p, Append(es, ev)))
<1> DEFINE fs == Append(es, ev)
           b == Len(es) + 1
           p == [q EXCEPT !.move = b]
<1>1. /\ fs \in Seq(Events) /\ Len(fs) = b /\ b \in Nat /\ Len(es) \in Nat
      /\ \A kind : Of(fs, kind) = Of(es, kind) \cup (IF ev.kind = kind THEN {b} ELSE {})
      /\ \A kind : Of(es, kind) \subseteq 1..Len(es)
  BY EventIs DEF Made
<1>2. q \in Queues
  BY DEF Made
<1>3. p \in Queues /\ p.sent = q.sent /\ p.wheel = q.wheel /\ p.move = b
  BY <1>1, <1>2 DEF Queues
<1>4. /\ Made(q, fs) /\ (LandsFirst(q, es) => LandsFirst(q, fs)) /\ (Once(q, es) => Once(q, fs))
  BY EventKeeps
<1> HIDE DEF fs, p
<1>5. Made(p, fs) /\ (LandsFirst(q, es) => LandsFirst(p, fs)) /\ (Once(q, es) => Once(p, fs))
  BY <1>1, <1>3, <1>4 DEF Made, LandsFirst, Once
<1>6. Pointed(p, fs)
  <2>1. \A e \in Of(fs, "move") : e <= b
    BY <1>1
  <2> QED BY <1>3, <2>1 DEF Pointed
<1> QED BY <1>5, <1>6 DEF p, fs, Faithful

-----------------------------------------------------------------------------
(* Input: pastes.                                                          *)

Marking == {"key", "pastekey", "plainpastekey", "paste"}
\* Of the keys and pastes before e, the last is Ctrl+Shift+V
AskedPlain(es, e) ==
    \E k \in 1..(e - 1) : /\ es[k].kind = "plainpastekey"
                          /\ \A l \in 1..(e - 1) : es[l].kind \in Marking => l <= k
PlainAsked(q, es) ==
    \A i \in DOMAIN q.sent : q.sent[i].fn = "bib_edit" =>
        \A e \in q.sent[i].ids :
            es[e].kind = "paste" => (q.sent[i].arg = "plain paste" <=> AskedPlain(es, e))
Pastes(es) == /\ packing \subseteq [id : 1..Len(es), plain : BOOLEAN]
              /\ \A p \in packing : es[p.id].kind = "paste" /\ (p.plain <=> AskedPlain(es, p.id))
PasteInv == /\ plainPaste \in BOOLEAN /\ focused \in BOOLEAN
            /\ Pastes(events) /\ PlainAsked(queue, events)
            /\ plainPaste <=> AskedPlain(events, Len(events) + 1)

\* What every reachable state of the input forwarding satisfies.
InputInv == /\ corpse \in BOOLEAN /\ Made(queue, events) /\ LandsFirst(queue, events)
            /\ ~corpse => Faithful(queue, events)
            /\ PasteInv

LEMMA AskedStays ==
  ASSUME NEW es \in Seq(Events), NEW ev \in Events, NEW e \in 1..(Len(es) + 1)
  PROVE  AskedPlain(Append(es, ev), e) <=> AskedPlain(es, e)
<1>1. \A k \in 1..(e - 1) : Append(es, ev)[k] = es[k]
  OBVIOUS
<1> QED BY <1>1 DEF AskedPlain

\* An event that is no key and no paste leaves the flag's meaning
LEMMA AskedLater ==
  ASSUME NEW es \in Seq(Events), NEW ev \in Events, ev.kind \notin Marking
  PROVE  AskedPlain(Append(es, ev), Len(Append(es, ev)) + 1) <=> AskedPlain(es, Len(es) + 1)
<1> DEFINE to == Append(es, ev)
           n == Len(es)
<1>1. /\ n \in Nat /\ Len(to) = n + 1 /\ (n + 1) - 1 = n /\ (Len(to) + 1) - 1 = n + 1
      /\ \A k \in 1..n : to[k] = es[k]
      /\ to[n + 1] = ev
  OBVIOUS
<1>2. \A k \in 1..(n + 1) : k \in 1..n \/ k = n + 1
  BY <1>1
<1>3. \A k \in 1..n : k \in 1..(n + 1)
  BY <1>1
<1> HIDE DEF to, n
<1>4. ASSUME NEW k \in 1..n, es[k].kind = "plainpastekey",
             \A l \in 1..n : es[l].kind \in Marking => l <= k
      PROVE  AskedPlain(to, Len(to) + 1)
  <2>1. k \in 1..(n + 1) /\ to[k].kind = "plainpastekey"
    BY <1>1, <1>3, <1>4
  <2>2. \A l \in 1..(n + 1) : to[l].kind \in Marking => l <= k
    BY <1>1, <1>2, <1>4
  <2> QED BY <1>1, <2>1, <2>2 DEF AskedPlain
<1>5. ASSUME NEW k \in 1..(n + 1), to[k].kind = "plainpastekey",
             \A l \in 1..(n + 1) : to[l].kind \in Marking => l <= k
      PROVE  AskedPlain(es, n + 1)
  <2>1. k # n + 1
    BY <1>1, <1>5 DEF Marking
  <2>2. k \in 1..n /\ es[k].kind = "plainpastekey"
    BY <1>1, <1>2, <1>5, <2>1
  <2>3. \A l \in 1..n : es[l].kind \in Marking => l <= k
    BY <1>1, <1>3, <1>5
  <2> QED BY <1>1, <2>2, <2>3 DEF AskedPlain
<1> QED BY <1>1, <1>4, <1>5 DEF AskedPlain, to, n

\* A key or a paste decides what is asked
LEMMA AskedNow ==
  ASSUME NEW es \in Seq(Events), NEW ev \in Events, ev.kind \in Marking
  PROVE  AskedPlain(Append(es, ev), Len(Append(es, ev)) + 1) <=> ev.kind = "plainpastekey"
<1> DEFINE to == Append(es, ev)
           n == Len(es)
<1>1. /\ n \in Nat /\ Len(to) = n + 1 /\ (Len(to) + 1) - 1 = n + 1 /\ to[n + 1] = ev
      /\ n + 1 \in 1..(n + 1)
  OBVIOUS
<1> HIDE DEF to, n
<1>2. ASSUME NEW k \in 1..(n + 1), to[k].kind = "plainpastekey",
             \A l \in 1..(n + 1) : to[l].kind \in Marking => l <= k
      PROVE  ev.kind = "plainpastekey"
  <2>1. n + 1 <= k
    BY <1>1, <1>2
  <2>2. k = n + 1
    BY <1>1, <2>1
  <2> QED BY <1>1, <1>2, <2>2
<1>3. ASSUME ev.kind = "plainpastekey" PROVE AskedPlain(to, Len(to) + 1)
  <2>1. \A l \in 1..(n + 1) : l <= n + 1
    BY <1>1
  <2> QED BY <1>1, <1>3, <2>1 DEF AskedPlain
<1> QED BY <1>1, <1>2, <1>3 DEF AskedPlain, to

LEMMA OneMore == \A m \in Nat : \A x \in 1..(m + 1) : x \in 1..m \/ x = m + 1
OBVIOUS

\* Calls that carry no paste, or one as it was asked, and events, keep what was asked
LEMMA PlainCall ==
  ASSUME NEW q, NEW es, q \in Queues, PlainAsked(q, es), NEW c \in CallSet,
         c.fn = "bib_edit" =>
           \A e \in c.ids : es[e].kind = "paste" => (c.arg = "plain paste" <=> AskedPlain(es, e))
  PROVE  PlainAsked(Sent(q, c), es)
<1> DEFINE n == Len(q.sent)
           Right(call) == call.fn = "bib_edit" =>
              \A e \in call.ids :
                 es[e].kind = "paste" => (call.arg = "plain paste" <=> AskedPlain(es, e))
<1>1. /\ DOMAIN Sent(q, c).sent = 1..(n + 1) /\ DOMAIN q.sent = 1..n
      /\ \A i \in 1..n : Sent(q, c).sent[i] = q.sent[i]
      /\ Sent(q, c).sent[n + 1] = c /\ n \in Nat
  BY SentIs
<1>2. Right(c) /\ \A i \in 1..n : Right(q.sent[i])
  BY <1>1 DEF PlainAsked
<1> HIDE DEF n, Right
<1>3. ASSUME NEW i \in DOMAIN Sent(q, c).sent PROVE Right(Sent(q, c).sent[i])
  <2>1. i \in 1..n \/ i = n + 1
    <3>1. i \in 1..(n + 1) /\ n \in Nat
      BY <1>1, <1>3
    <3> QED BY <3>1, OneMore, Zenon
  <2> QED BY <1>1, <1>2, <2>1
<1> QED BY <1>3 DEF PlainAsked, Right

LEMMA PlainEvent ==
  ASSUME NEW q, NEW es, Made(q, es), NEW ev \in Events, PlainAsked(q, es)
  PROVE  PlainAsked(q, Append(es, ev))
<1>1. es \in Seq(Events) /\ \A i \in DOMAIN q.sent : q.sent[i].ids \subseteq 1..Len(es)
  BY DEF Made
<1>2. \A e \in 1..Len(es) : /\ AskedPlain(es, e) <=> AskedPlain(Append(es, ev), e)
                           /\ Append(es, ev)[e] = es[e]
  BY <1>1, AskedStays
<1> QED BY <1>1, <1>2 DEF PlainAsked

LEMMA PlainFlush ==
  ASSUME NEW q, NEW es, q \in Queues, PlainAsked(q, es)
  PROVE  /\ FlushMove(q) \in Queues /\ FlushWheel(q) \in Queues
         /\ PlainAsked(FlushMove(q), es) /\ PlainAsked(FlushWheel(q), es)
<1>1. /\ Call("bib_mouse_move", {q.move}, NoMods) \in CallSet
      /\ Call("bib_wheel", q.wheel.ids, q.wheel.mods) \in CallSet
  BY ModsAssumption DEF Call, CallSet, Fns, Args, Queues
<1>2. FlushMove(q) \in Queues /\ PlainAsked(FlushMove(q), es)
  <2> DEFINE s == Sent(q, Call("bib_mouse_move", {q.move}, NoMods))
  <2>1. s \in Queues /\ PlainAsked(s, es)
    BY <1>1, SentIs, PlainCall DEF Call
  <2> HIDE DEF s
  <2>2. [s EXCEPT !.move = NoMove] \in Queues /\ [s EXCEPT !.move = NoMove].sent = s.sent
    BY <2>1 DEF Queues, NoMove
  <2>3. PlainAsked([s EXCEPT !.move = NoMove], es)
    BY <2>1, <2>2 DEF PlainAsked
  <2>4. FlushMove(q) \in {q, [s EXCEPT !.move = NoMove]}
    BY DEF FlushMove, s
  <2> QED BY <2>2, <2>3, <2>4
<1>3. FlushWheel(q) \in Queues /\ PlainAsked(FlushWheel(q), es)
  <2> DEFINE s == Sent(q, Call("bib_wheel", q.wheel.ids, q.wheel.mods))
  <2>1. s \in Queues /\ PlainAsked(s, es)
    BY <1>1, SentIs, PlainCall DEF Call
  <2> HIDE DEF s
  <2>2. [s EXCEPT !.wheel = NoWheel] \in Queues /\ [s EXCEPT !.wheel = NoWheel].sent = s.sent
    BY <2>1, ModsAssumption DEF Queues, NoWheel
  <2>3. PlainAsked([s EXCEPT !.wheel = NoWheel], es)
    BY <2>1, <2>2 DEF PlainAsked
  <2>4. FlushWheel(q) \in {q, [s EXCEPT !.wheel = NoWheel]}
    BY DEF FlushWheel, s
  <2> QED BY <2>2, <2>3, <2>4
<1> QED BY <1>2, <1>3

LEMMA PlainWheeled ==
  ASSUME NEW q, NEW es, q \in Queues, PlainAsked(q, es), NEW id, NEW mods
  PROVE  PlainAsked(Wheeled(q, id, mods), es)
<1>1. CASE Joins(q, mods)
  <2>1. Wheeled(q, id, mods).sent = q.sent
    BY <1>1 DEF Wheeled, Queues
  <2> QED BY <2>1 DEF PlainAsked
<1>2. CASE ~Joins(q, mods)
  <2>1. FlushWheel(q) \in Queues /\ PlainAsked(FlushWheel(q), es)
    BY PlainFlush
  <2>2. Wheeled(q, id, mods).sent = FlushWheel(q).sent
    BY <1>2, <2>1 DEF Wheeled, Queues
  <2> QED BY <2>1, <2>2 DEF PlainAsked
<1> QED BY <1>1, <1>2

-----------------------------------------------------------------------------
(* Input: the steps.                                                       *)

LEMMA FlushAll ==
  ASSUME NEW q, NEW es, Made(q, es)
  PROVE  LET p == FlushWheel(FlushMove(q))
         IN  PlainAsked(q, es) => PlainAsked(p, es)
<1>1. q \in Queues
  BY DEF Made
<1> QED BY <1>1, PlainFlush

\* What a handler may do with the queue and an event that is no paste, while the engine lives
Handles(kind) ==
    /\ \E mods \in Mods : events' = Append(events, [kind |-> kind, mods |-> mods])
    /\ corpse' = corpse
    /\ packing' = packing /\ focused' \in BOOLEAN
    /\ plainPaste' = IF kind \in Marking THEN kind = "plainpastekey" ELSE plainPaste

LEMMA HandlesPaste ==
  ASSUME InputInv, NEW kind \in Kinds \ {"paste"}, Handles(kind),
         PlainAsked(queue', events')
  PROVE  PasteInv'
<1>1. PICK mods \in Mods : events' = Append(events, [kind |-> kind, mods |-> mods])
  BY DEF Handles
<1> DEFINE ev == [kind |-> kind, mods |-> mods]
<1>2. ev \in Events /\ ev.kind = kind /\ events \in Seq(Events)
  BY DEF Events, InputInv, Made
<1> HIDE DEF ev
<1>3. events' = Append(events, ev)
  BY <1>1 DEF ev
<1>4. /\ Len(events') = Len(events) + 1 /\ Len(events) \in Nat
      /\ \A e \in 1..Len(events) : events'[e] = events[e]
  BY <1>2, <1>3
<1>5. Pastes(events)'
  <2>1. packing' \subseteq [id : 1..Len(events), plain : BOOLEAN]
    BY DEF InputInv, PasteInv, Pastes, Handles
  <2>2. [id : 1..Len(events), plain : BOOLEAN] \subseteq [id : 1..Len(events'), plain : BOOLEAN]
    BY <1>4
  <2>3. ASSUME NEW p \in packing
        PROVE  events'[p.id].kind = "paste" /\ (p.plain <=> AskedPlain(events', p.id))
    <3>1. p.id \in 1..Len(events) /\ events[p.id].kind = "paste" /\ (p.plain <=> AskedPlain(events, p.id))
      BY DEF InputInv, PasteInv, Pastes
    <3>2. p.id \in 1..(Len(events) + 1)
      BY <1>4, <3>1
    <3> QED BY <1>2, <1>3, <1>4, <3>1, <3>2, AskedStays
  <2>4. packing' = packing
    BY DEF Handles
  <2>5. packing' \subseteq [id : 1..Len(events'), plain : BOOLEAN]
    BY <2>1, <2>2
  <2> QED BY <2>3, <2>4, <2>5 DEF Pastes, AskedPlain
<1>6. plainPaste' <=> AskedPlain(events, Len(events) + 1)'
  <2>1. CASE kind \in Marking
    <3>1. plainPaste' <=> kind = "plainpastekey"
      BY <2>1 DEF Handles
    <3>2. plainPaste' <=> AskedPlain(events', Len(events') + 1)
      BY <1>2, <1>3, <2>1, <3>1, AskedNow
    <3> QED BY <3>2 DEF AskedPlain
  <2>2. CASE kind \notin Marking
    <3>1. plainPaste' <=> AskedPlain(events, Len(events) + 1)
      BY <2>2 DEF Handles, InputInv, PasteInv
    <3>2. plainPaste' <=> AskedPlain(events', Len(events') + 1)
      BY <1>2, <1>3, <2>2, <3>1, AskedLater
    <3> QED BY <3>2 DEF AskedPlain
  <2> QED BY <2>1, <2>2
<1>7. PlainAsked(queue, events)'
  BY DEF PlainAsked, AskedPlain
<1>8. plainPaste' \in BOOLEAN /\ focused' \in BOOLEAN
  BY DEF Handles, InputInv, PasteInv
<1> QED BY <1>5, <1>6, <1>7, <1>8 DEF PasteInv

\* An event that reaches a corpse, or that no call tells of
LEMMA EventOnly ==
  ASSUME InputInv, NEW kind \in Kinds \ {"paste"}, Handles(kind), UNCHANGED queue,
         corpse \/ kind \notin {"move", "wheel"}
  PROVE  InputInv'
<1>1. PICK mods \in Mods : events' = Append(events, [kind |-> kind, mods |-> mods])
  BY DEF Handles
<1> DEFINE ev == [kind |-> kind, mods |-> mods]
<1>2. ev \in Events /\ ev.kind = kind /\ Made(queue, events)
  BY DEF Events, InputInv
<1> HIDE DEF ev
<1>3. events' = Append(events, ev) /\ queue' = queue /\ corpse' = corpse
  BY <1>1 DEF ev, Handles
<1>4. PlainAsked(queue', events') /\ Made(queue', events') /\ LandsFirst(queue', events')
  BY <1>2, <1>3, EventKeeps, PlainEvent DEF InputInv, PasteInv
<1>5. ~corpse' => Faithful(queue', events')
  BY <1>2, <1>3, EventKeeps DEF InputInv, Faithful
<1>6. PasteInv'
  BY <1>4, HandlesPaste
<1> QED BY <1>3, <1>4, <1>5, <1>6, Zenon DEF InputInv, Made, LandsFirst, Faithful, Once, Pointed, Of

\* A handler that sends, or sums, while the engine lives
LEMMA EventSent ==
  ASSUME InputInv, NEW kind \in Kinds \ {"paste"}, Handles(kind), ~corpse,
         Made(queue', events'), Faithful(queue', events'), PlainAsked(queue', events')
  PROVE  InputInv'
<1>1. PasteInv'
  BY HandlesPaste
<1>2. Made(queue, events)' /\ LandsFirst(queue, events)' /\ Faithful(queue, events)'
  BY DEF Made, LandsFirst, Faithful, Once, Pointed, Of
<1> QED BY <1>1, <1>2 DEF InputInv, Handles

LEMMA CallsAre ==
  /\ \A n \in Nat, on \in BOOLEAN : Call("bib_mouse_button", {n}, on) \in CallSet
  /\ \A n \in Nat, kind \in {"key", "char", "pastekey", "plainpastekey", "keyup"} : Call("bib_key", {n}, kind) \in CallSet
  /\ \A n \in Nat, arg \in {"copy", "paste", "plain paste"} : Call("bib_edit", {n}, arg) \in CallSet
  /\ \A on \in BOOLEAN : Call("bib_set_focus", {}, on) \in CallSet
  /\ \A fn, ids, arg : Call(fn, ids, arg).fn = fn /\ Call(fn, ids, arg).ids = ids /\ Call(fn, ids, arg).arg = arg
BY DEF Call, CallSet, Fns, Args

LEMMA InputHandled ==
  ASSUME InputInv, NEW kind \in Kinds \ {"paste"}, NEW mods \in Mods, Input(kind, mods),
         UNCHANGED <<corpse, packing>>, focused' \in BOOLEAN,
         plainPaste' = IF kind \in Marking THEN kind = "plainpastekey" ELSE plainPaste
  PROVE  Handles(kind)
BY DEF Handles, Input

LEMMA MoveStep == ASSUME InputInv, MouseMove PROVE InputInv'
<1>1. Handles("move")
  BY InputHandled, ModsAssumption DEF MouseMove, Rest, Kinds, Marking, InputInv, PasteInv
<1>2. queue' = [queue EXCEPT !.move = Len(events) + 1] /\ corpse' = corpse
      /\ events' = Append(events, [kind |-> "move", mods |-> NoMods])
  BY DEF MouseMove, Now, Rest, Input
<1>3. [kind |-> "move", mods |-> NoMods] \in Events /\ Made(queue, events) /\ queue \in Queues
  BY ModsAssumption DEF Events, Kinds, InputInv, Made
<1>4. /\ Made(queue', events') /\ LandsFirst(queue', events')
      /\ ~corpse => Faithful(queue', events')
  BY <1>2, <1>3, MoveKeeps DEF InputInv
<1>5. PlainAsked(queue', events')
  <2>1. PlainAsked(queue, events')
    BY <1>2, <1>3, PlainEvent DEF InputInv, PasteInv
  <2>2. queue'.sent = queue.sent
    BY <1>2, <1>3 DEF Queues
  <2> QED BY <2>1, <2>2 DEF PlainAsked
<1>6. PasteInv'
  BY <1>1, <1>5, HandlesPaste DEF Kinds
<1>7. Made(queue, events)' /\ LandsFirst(queue, events)' /\ (~corpse' => Faithful(queue, events)')
  BY <1>2, <1>4, Zenon DEF Made, LandsFirst, Faithful, Once, Pointed, Of
<1> QED BY <1>2, <1>6, <1>7 DEF InputInv

LEMMA WheelStep == ASSUME InputInv, NEW mods \in Mods, Wheel(mods) PROVE InputInv'
<1>1. Handles("wheel")
  BY InputHandled DEF Wheel, Rest, Kinds, Marking, InputInv, PasteInv
<1>2. CASE corpse
  BY <1>1, <1>2, EventOnly DEF Wheel, Forward, Kinds
<1>3. CASE ~corpse
  <2> DEFINE ev == [kind |-> "wheel", mods |-> mods]
             p == FlushMove(queue)
  <2>1. ev \in Events /\ Made(queue, events) /\ Faithful(queue, events) /\ PlainAsked(queue, events)
    BY <1>3 DEF Events, Kinds, InputInv, PasteInv
  <2>2. events' = Append(events, ev) /\ queue' = Wheeled(p, Len(events) + 1, mods)
    BY <1>3 DEF Wheel, Input, Now, Forward
  <2>3. Made(p, events) /\ Faithful(p, events) /\ PlainAsked(p, events)
    BY <2>1, MovesFlush, PlainFlush DEF Made
  <2> HIDE DEF p
  <2>4. Made(queue', events') /\ Faithful(queue', events')
    BY <2>1, <2>2, <2>3, DeltaKeeps
  <2>5. PlainAsked(queue', events')
    BY <2>1, <2>2, <2>3, PlainEvent, PlainWheeled DEF Made
  <2> QED BY <1>1, <1>3, <2>4, <2>5, EventSent DEF Kinds
<1> QED BY <1>2, <1>3

LEMMA FocusCallKeeps ==
  ASSUME NEW q, NEW es, Made(q, es), NEW on \in BOOLEAN
  PROVE  /\ Made(FocusCall(q, on), es) /\ (Faithful(q, es) => Faithful(FocusCall(q, on), es))
         /\ LandsFirst(q, es) => LandsFirst(FocusCall(q, on), es)
         /\ PlainAsked(q, es) => PlainAsked(FocusCall(q, on), es)
<1> DEFINE c == Call("bib_set_focus", {}, on)
<1>1. c \in CallSet /\ c.ids = {} /\ c.fn = "bib_set_focus"
  BY CallsAre
<1> HIDE DEF c
<1>2. FocusCall(q, on) = Sent(q, c) /\ q \in Queues
  BY DEF FocusCall, c, Made
<1> QED BY <1>1, <1>2, CallKeeps, PlainCall DEF Faithful

\* A button, of the queue r the handler starts from
LEMMA ButtonSent ==
  ASSUME InputInv, NEW kind \in {"down", "up"}, Handles(kind), ~corpse,
         NEW r, Made(r, events), Faithful(r, events), PlainAsked(r, events), NEW on \in BOOLEAN,
         queue' = Sent(FlushBeforeButton(r), Call("bib_mouse_button", {Now}, on))
  PROVE  InputInv'
<1> DEFINE p == FlushBeforeButton(r)
           c == Call("bib_mouse_button", {Now}, on)
<1>1. Made(p, events) /\ p.move = NoMove /\ p.wheel = NoWheel /\ Faithful(p, events) /\ PlainAsked(p, events)
  BY FlushKeeps, FlushAll DEF FlushBeforeButton
<1>2. PICK mods \in Mods : events' = Append(events, [kind |-> kind, mods |-> mods])
  BY DEF Handles
<1> DEFINE ev == [kind |-> kind, mods |-> mods]
<1>3. ev \in Events /\ ev.kind \notin {"move", "wheel"} /\ events' = Append(events, ev)
  BY <1>2 DEF Events, Kinds
<1>4. c \in CallSet /\ c.ids = {Len(events) + 1} /\ c.fn = "bib_mouse_button"
  <2>1. Now \in Nat /\ Now = Len(events) + 1
    BY <1>1 DEF Now, Made
  <2> QED BY <2>1, CallsAre
<1> HIDE DEF p, c, ev
<1>5. queue' = Sent(p, c)
  BY DEF p, c
<1>6. Made(queue', events') /\ Faithful(queue', events')
  BY <1>1, <1>3, <1>4, <1>5, ButtonKeeps
<1>7. PlainAsked(queue', events')
  <2>1. PlainAsked(p, events') /\ p \in Queues
    BY <1>1, <1>3, PlainEvent DEF Made
  <2> QED BY <1>4, <1>5, <2>1, PlainCall
<1> QED BY <1>6, <1>7, EventSent DEF Kinds

LEMMA ButtonStep == ASSUME InputInv, MouseDown \/ MouseUp PROVE InputInv'
<1> USE DEF Kinds
<1>1. CASE MouseDown
  <2>1. Handles("down")
    <3>1. focused' \in BOOLEAN
      BY <1>1 DEF MouseDown, InputInv, PasteInv
    <3> QED BY <1>1, <3>1, InputHandled, ModsAssumption DEF MouseDown, Marking
  <2>2. CASE corpse
    BY <1>1, <2>1, <2>2, EventOnly DEF MouseDown, Forward
  <2>3. CASE ~corpse
    <3>1. /\ Made(Focused(queue), events) /\ Faithful(Focused(queue), events)
          /\ PlainAsked(Focused(queue), events)
      BY <2>3, FocusCallKeeps DEF Focused, InputInv, PasteInv
    <3> QED BY <1>1, <2>1, <2>3, <3>1, ButtonSent DEF MouseDown, Forward
  <2> QED BY <2>2, <2>3
<1>2. CASE MouseUp
  <2>1. Handles("up")
    BY <1>2, InputHandled, ModsAssumption DEF MouseUp, Rest, Marking, InputInv, PasteInv
  <2>2. CASE corpse
    BY <1>2, <2>1, <2>2, EventOnly DEF MouseUp, Forward
  <2>3. CASE ~corpse
    BY <1>2, <2>1, <2>3, ButtonSent DEF MouseUp, Forward, InputInv, PasteInv
  <2> QED BY <2>2, <2>3
<1> QED BY <1>1, <1>2

\* Keys and the host's menus: a call or two for the new event
LEMMA CallStep ==
  ASSUME InputInv, NEW kind \in Kinds \ {"paste", "move", "wheel"}, Handles(kind),
         NEW c \in CallSet, c.ids \subseteq {Now}, c.fn # "bib_mouse_button",
         NEW d \in CallSet, d.ids = {Now}, d.fn = "bib_key",
         Forward(Sent(queue, c)) \/ Forward(Sent(Sent(queue, c), d))
  PROVE  InputInv'
<1>1. CASE corpse
  BY <1>1, EventOnly DEF Forward
<1>2. CASE ~corpse
  <2>1. PICK mods \in Mods : events' = Append(events, [kind |-> kind, mods |-> mods])
    BY DEF Handles
  <2> DEFINE ev == [kind |-> kind, mods |-> mods]
             p == Sent(queue, c)
  <2>2. ev \in Events /\ ev.kind = kind /\ ev.kind \notin {"move", "wheel"} /\ events' = Append(events, ev)
    BY <2>1 DEF Events
  <2> HIDE DEF ev
  <2>3. Made(queue, events) /\ Faithful(queue, events) /\ PlainAsked(queue, events)
    BY <1>2 DEF InputInv, PasteInv
  <2>4. queue' \in {p, Sent(p, d)} /\ Now = Len(events) + 1
    BY <1>2 DEF Forward, Now
  <2> HIDE DEF p
  <2>5. Made(p, events') /\ Faithful(p, events')
    BY <2>2, <2>3, <2>4, NewCallKeeps DEF p
  <2>6. events' \in Seq(Events) /\ Now \in 1..Len(events') /\ events'[Now] = ev
    BY <2>2, <2>3, <2>4 DEF Made
  <2>7. PlainAsked(p, events')
    <3>1. \A e \in c.ids : events'[e].kind # "paste"
      BY <2>2, <2>6
    <3>2. PlainAsked(queue, events') /\ queue \in Queues
      BY <2>2, <2>3, PlainEvent DEF Made
    <3> QED BY <3>1, <3>2, PlainCall DEF p
  <2>8. Made(Sent(p, d), events') /\ Faithful(Sent(p, d), events')
    <3>1. d.ids \subseteq 1..Len(events') /\ d.ids \cap Of(events', "wheel") = {}
      BY <2>2, <2>6 DEF Of
    <3> QED BY <2>5, <3>1, CallKeeps DEF Faithful
  <2>9. PlainAsked(Sent(p, d), events')
    <3>1. p \in Queues
      BY <2>5 DEF Made
    <3> QED BY <2>7, <3>1, PlainCall
  <2> QED BY <1>2, <2>4, <2>5, <2>7, <2>8, <2>9, EventSent
<1> QED BY <1>1, <1>2

LEMMA KeyStep ==
  ASSUME InputInv,
         KeyUp \/ CopyOrCut \/ FocusChanges \/ \E kind \in {"key", "pastekey", "plainpastekey"} : KeyDown(kind)
  PROVE  InputInv'
<1> USE DEF Kinds
<1>0. Now \in Nat
  BY DEF Now, InputInv, Made
<1> DEFINE d == Call("bib_key", {Now}, "char")
<1>char. d \in CallSet /\ d.ids = {Now} /\ d.fn = "bib_key"
  BY <1>0, CallsAre
<1> HIDE DEF d
<1>1. CASE KeyUp
  <2>1. Handles("keyup")
    BY <1>1, InputHandled, ModsAssumption DEF KeyUp, Rest, Marking, InputInv, PasteInv
  <2> DEFINE c == Call("bib_key", {Now}, "keyup")
  <2>2. c \in CallSet /\ c.ids = {Now} /\ c.fn = "bib_key"
    BY <1>0, CallsAre
  <2>3. Forward(Sent(queue, c))
    BY <1>1 DEF KeyUp
  <2> HIDE DEF c
  <2> QED BY <2>1, <2>2, <2>3, <1>char, CallStep
<1>2. CASE CopyOrCut
  <2>1. Handles("copy")
    BY <1>2, InputHandled, ModsAssumption DEF CopyOrCut, Rest, Marking, InputInv, PasteInv
  <2>2. CASE focused
    <3> DEFINE c == Call("bib_edit", {Now}, "copy")
    <3>1. c \in CallSet /\ c.ids = {Now} /\ c.fn = "bib_edit" /\ c.arg = "copy"
      BY <1>0, CallsAre DEF Call
    <3>2. Forward(Sent(queue, c))
      BY <1>2, <2>2 DEF CopyOrCut
    <3> HIDE DEF c
    <3> QED BY <2>1, <3>1, <3>2, <1>char, CallStep
  <2>3. CASE ~focused
    BY <1>2, <2>1, <2>3, EventOnly DEF CopyOrCut
  <2> QED BY <2>2, <2>3
<1>3. CASE FocusChanges
  <2>1. Handles("focus")
    BY <1>3, InputHandled, ModsAssumption DEF FocusChanges, Marking, InputInv, PasteInv
  <2> DEFINE c == Call("bib_set_focus", {}, ~focused)
  <2>2. c \in CallSet /\ c.ids = {} /\ c.fn = "bib_set_focus"
    <3>1. focused = TRUE \/ focused = FALSE
      BY DEF InputInv, PasteInv
    <3>2. (~focused) \in BOOLEAN
      BY <3>1
    <3> QED BY <3>2, CallsAre
  <2>3. Forward(Sent(queue, c))
    BY <1>3 DEF FocusChanges, FocusCall
  <2> HIDE DEF c
  <2> QED BY <2>1, <2>2, <2>3, <1>char, CallStep
<1>4. ASSUME NEW kind \in {"key", "pastekey", "plainpastekey"}, KeyDown(kind) PROVE InputInv'
  <2>1. Handles(kind)
    BY <1>4, InputHandled, ModsAssumption DEF KeyDown, Marking, InputInv, PasteInv
  <2> DEFINE c == Call("bib_key", {Now}, kind)
  <2>2. c \in CallSet /\ c.ids = {Now} /\ c.fn = "bib_key"
    BY <1>0, CallsAre
  <2>3. Forward(Sent(queue, c)) \/ Forward(Sent(Sent(queue, c), d))
    BY <1>4 DEF KeyDown, d
  <2> HIDE DEF c
  <2> QED BY <2>1, <2>2, <2>3, <1>char, CallStep
<1> QED BY <1>1, <1>2, <1>3, <1>4

LEMMA SilentStep ==
  ASSUME InputInv, HostButton \/ HostKey \/ StrayPaste
  PROVE  InputInv'
<1> USE ModsAssumption DEF Kinds, Marking, Rest
<1>1. CASE HostButton
  <2>1. Handles("hostbutton")
    BY <1>1, InputHandled DEF HostButton, InputInv, PasteInv
  <2> QED BY <1>1, <2>1, EventOnly DEF HostButton
<1>2. CASE HostKey
  <2>1. Handles("hostkey")
    BY <1>2, InputHandled DEF HostKey, InputInv, PasteInv
  <2> QED BY <1>2, <2>1, EventOnly DEF HostKey
<1>3. CASE StrayPaste
  <2>1. Handles("stray paste")
    BY <1>3, InputHandled DEF StrayPaste, InputInv, PasteInv
  <2> QED BY <1>3, <2>1, EventOnly DEF StrayPaste
<1> QED BY <1>1, <1>2, <1>3

LEMMA PasteStep == ASSUME InputInv, Paste PROVE InputInv'
<1> DEFINE ev == [kind |-> "paste", mods |-> NoMods]
           b == Len(events) + 1
<1>1. ev \in Events /\ Made(queue, events) /\ events \in Seq(Events) /\ ev.kind = "paste"
  BY ModsAssumption DEF Events, Kinds, InputInv, Made
<1>2. /\ events' = Append(events, ev) /\ queue' = queue /\ corpse' = corpse /\ focused' = focused
      /\ plainPaste' = FALSE /\ ~corpse
      /\ packing' = packing \/ packing' = packing \cup {[id |-> b, plain |-> plainPaste]}
  BY DEF Paste, Input, Now, AfterPaste
<1> HIDE DEF ev
<1>3. Made(queue', events') /\ Faithful(queue', events') /\ LandsFirst(queue', events')
  BY <1>1, <1>2, EventKeeps DEF InputInv, Faithful
<1>4. PlainAsked(queue', events')
  BY <1>1, <1>2, PlainEvent DEF InputInv, PasteInv
<1>5. /\ Len(events') = b /\ Len(events) \in Nat /\ b \in 1..b /\ b \in 1..(Len(events) + 1)
      /\ \A e \in 1..Len(events) : events'[e] = events[e]
      /\ events'[b] = ev
  BY <1>1, <1>2
<1> HIDE DEF b
<1>6. \A e \in 1..Len(events) : e \in 1..b /\ e \in 1..(Len(events) + 1)
  BY <1>5 DEF b
<1>7. ASSUME NEW p \in packing'
      PROVE  /\ p \in [id : 1..b, plain : BOOLEAN]
             /\ events'[p.id].kind = "paste" /\ (p.plain <=> AskedPlain(events', p.id))
  <2>1. CASE p \in packing
    <3>1. p \in [id : 1..Len(events), plain : BOOLEAN] /\ events[p.id].kind = "paste"
          /\ (p.plain <=> AskedPlain(events, p.id))
      BY <2>1 DEF InputInv, PasteInv, Pastes
    <3>2. p.id \in 1..Len(events) /\ p.id \in 1..(Len(events) + 1)
      BY <1>6, <3>1
    <3>3. p \in [id : 1..b, plain : BOOLEAN]
      BY <1>6, <3>1
    <3> QED BY <1>1, <1>2, <1>5, <3>1, <3>2, <3>3, AskedStays
  <2>2. CASE p = [id |-> b, plain |-> plainPaste]
    <3>1. plainPaste \in BOOLEAN /\ (plainPaste <=> AskedPlain(events, b))
      BY DEF InputInv, PasteInv, b
    <3>2. p.id = b /\ p.plain = plainPaste /\ p \in [id : 1..b, plain : BOOLEAN]
      BY <1>5, <2>2, <3>1
    <3>3. plainPaste <=> AskedPlain(events', b)
      BY <1>1, <1>2, <1>5, <3>1, AskedStays
    <3> QED BY <1>1, <1>5, <3>2, <3>3
  <2> QED BY <1>2, <1>7, <2>1, <2>2
<1>8. Pastes(events)'
  <2>1. packing' \subseteq [id : 1..Len(events'), plain : BOOLEAN]
    BY <1>5, <1>7
  <2> QED BY <1>7, <2>1 DEF Pastes, AskedPlain
<1>9. PasteInv'
  <2>1. PlainAsked(queue, events)'
    BY <1>4 DEF PlainAsked, AskedPlain
  <2>2. ~AskedPlain(events', Len(events') + 1)
    BY <1>1, <1>2, AskedNow DEF Marking
  <2>3. ~AskedPlain(events, Len(events) + 1)'
    BY <2>2 DEF AskedPlain
  <2> QED BY <1>2, <1>8, <2>1, <2>3 DEF InputInv, PasteInv
<1>10. Made(queue, events)' /\ LandsFirst(queue, events)' /\ Faithful(queue, events)'
  BY <1>3, Zenon DEF Made, LandsFirst, Faithful, Once, Pointed, Of
<1> QED BY <1>2, <1>9, <1>10 DEF InputInv

\* Steps that are not events
LEMMA QuietPaste ==
  ASSUME InputInv, packing' \subseteq packing, UNCHANGED <<events, plainPaste, focused>>,
         PlainAsked(queue', events)
  PROVE  PasteInv'
<1>1. Pastes(events)'
  BY DEF InputInv, PasteInv, Pastes, AskedPlain
<1>2. PlainAsked(queue, events)'
  BY DEF PlainAsked, AskedPlain
<1>3. AskedPlain(events, Len(events) + 1)' <=> AskedPlain(events, Len(events) + 1)
  BY DEF AskedPlain
<1> QED BY <1>1, <1>2, <1>3 DEF InputInv, PasteInv

LEMMA PackedStep == ASSUME InputInv, Packed PROVE InputInv'
<1> DEFINE c(p) == Call("bib_edit", {p.id}, IF p.plain THEN "plain paste" ELSE "paste")
<1>1. PICK p \in packing : /\ packing' = packing \ {p} /\ Forward(Sent(queue, c(p)))
                           /\ UNCHANGED <<events, plainPaste, focused, corpse>>
  BY DEF Packed
<1>2. /\ p.id \in 1..Len(events) /\ events[p.id].kind = "paste" /\ p.plain \in BOOLEAN
      /\ (p.plain <=> AskedPlain(events, p.id))
  BY DEF InputInv, PasteInv, Pastes
<1>3. /\ c(p) \in CallSet /\ c(p).ids = {p.id} /\ c(p).fn = "bib_edit"
      /\ c(p).arg = "plain paste" <=> p.plain
  <2>1. p.id \in Nat /\ (IF p.plain THEN "plain paste" ELSE "paste") \in {"copy", "paste", "plain paste"}
    BY <1>2
  <2>2. (IF p.plain THEN "plain paste" ELSE "paste") = "plain paste" <=> p.plain
    OBVIOUS
  <2>3. c(p) \in CallSet
    BY <2>1, CallsAre
  <2>4. c(p).ids = {p.id} /\ c(p).fn = "bib_edit" /\ c(p).arg = IF p.plain THEN "plain paste" ELSE "paste"
    BY DEF Call
  <2> QED BY <2>2, <2>3, <2>4
<1>4. Made(queue, events) /\ queue \in Queues /\ PlainAsked(queue, events)
  BY DEF InputInv, PasteInv, Made
<1> HIDE DEF c
<1>5. c(p).ids \cap Of(events, "wheel") = {} /\ c(p).ids \subseteq 1..Len(events)
  BY <1>2, <1>3 DEF Of
<1>6. /\ Made(queue', events') /\ LandsFirst(queue', events')
      /\ ~corpse' => Faithful(queue', events')
  <2>1. CASE corpse
    BY <1>1, <2>1 DEF InputInv, Forward
  <2>2. CASE ~corpse
    <3>1. queue' = Sent(queue, c(p)) /\ events' = events
      BY <1>1, <2>2 DEF Forward
    <3>2. LandsFirst(queue, events) /\ Once(queue, events) /\ Pointed(queue, events)
      BY <2>2 DEF InputInv, Faithful
    <3>3. c(p).fn # "bib_mouse_button"
      BY <1>3
    <3> QED BY <1>3, <1>4, <1>5, <3>1, <3>2, <3>3, CallKeeps DEF Faithful
  <2> QED BY <2>1, <2>2
<1>7. PlainAsked(queue', events)
  <2>1. PlainAsked(Sent(queue, c(p)), events)
    BY <1>2, <1>3, <1>4, PlainCall
  <2> QED BY <1>1, <1>4, <2>1 DEF Forward
<1>8. PasteInv'
  BY <1>1, <1>7, QuietPaste
<1>9. Made(queue, events)' /\ LandsFirst(queue, events)' /\ (~corpse' => Faithful(queue, events)')
  BY <1>6, Zenon DEF Made, LandsFirst, Faithful, Once, Pointed, Of
<1> QED BY <1>1, <1>8, <1>9 DEF InputInv

LEMMA TickStep == ASSUME InputInv, FrameTick PROVE InputInv'
<1>1. ~corpse /\ queue' = FlushWheel(FlushMove(queue)) /\ UNCHANGED <<events, plainPaste, packing, focused, corpse>>
  BY DEF FrameTick, FlushBeforeTick, Rest
<1>2. Made(queue, events) /\ Faithful(queue, events) /\ PlainAsked(queue, events)
  BY <1>1 DEF InputInv, PasteInv
<1>3. Made(queue', events') /\ Faithful(queue', events') /\ PlainAsked(queue', events)
  BY <1>1, <1>2, FlushKeeps, FlushAll
<1>4. PasteInv'
  BY <1>1, <1>3, QuietPaste
<1>5. Made(queue, events)' /\ LandsFirst(queue, events)' /\ Faithful(queue, events)'
  BY <1>3, Zenon DEF Made, LandsFirst, Faithful, Once, Pointed, Of
<1> QED BY <1>1, <1>4, <1>5 DEF InputInv

LEMMA InputRests ==
  ASSUME InputInv, UNCHANGED <<events, queue, plainPaste, packing, focused>>, corpse' \in BOOLEAN, corpse => corpse'
  PROVE  InputInv'
<1>1. PasteInv'
  BY QuietPaste DEF InputInv, PasteInv
<1>2. events' = events /\ queue' = queue
  OBVIOUS
<1>3. Made(queue, events)' <=> Made(queue, events)
  BY <1>2 DEF Made, Of
<1>4. LandsFirst(queue, events)' <=> LandsFirst(queue, events)
  BY <1>2 DEF LandsFirst, Of
<1>5. Faithful(queue, events)' <=> Faithful(queue, events)
  BY <1>2 DEF Faithful, LandsFirst, Once, Pointed, Of
<1> QED BY <1>1, <1>3, <1>4, <1>5 DEF InputInv

LEMMA InputStep == InputInv /\ [InputNext]_inputVars => InputInv'
<1> SUFFICES ASSUME InputInv, [InputNext]_inputVars PROVE InputInv'
  OBVIOUS
<1>1. CASE InputNext
  <2>1. CASE InputDies
    BY <2>1, InputRests DEF InputDies
  <2> QED BY <1>1, <2>1, MoveStep, WheelStep, ButtonStep, KeyStep, SilentStep, PasteStep, PackedStep,
             TickStep DEF InputNext
<1>2. CASE UNCHANGED inputVars
  BY <1>2, InputRests DEF inputVars, InputInv
<1> QED BY <1>1, <1>2

LEMMA InputStart == InputInit => InputInv
<1> SUFFICES ASSUME InputInit PROVE InputInv
  OBVIOUS
<1> DEFINE c == Call("bib_set_focus", {}, TRUE)
<1>1. c \in CallSet /\ c.ids = {} /\ c.fn = "bib_set_focus"
  BY CallsAre
<1> HIDE DEF c
<1>2. /\ events = <<>> /\ queue = [move |-> NoMove, wheel |-> NoWheel, sent |-> <<c>>]
      /\ plainPaste = FALSE /\ packing = {} /\ focused = TRUE /\ corpse = FALSE
  BY DEF InputInit, c
<1>3. <<c>> \in Seq(CallSet) /\ DOMAIN <<c>> = {1} /\ <<c>>[1] = c
  BY <1>1
<1>4. NoWheel \in [ids : SUBSET Nat, mods : Mods] /\ NoWheel.ids = {}
  BY ModsAssumption DEF NoWheel
<1>5. /\ queue \in Queues /\ queue.move = NoMove /\ queue.wheel.ids = {}
      /\ DOMAIN queue.sent = {1} /\ queue.sent[1] = c
  BY <1>2, <1>3, <1>4 DEF Queues, NoMove
<1>6. events \in Seq(Events) /\ \A kind : Of(events, kind) = {}
  BY <1>2 DEF Of
<1>7. Made(queue, events)
  BY <1>1, <1>5, <1>6 DEF Made
<1>8. LandsFirst(queue, events) /\ Once(queue, events) /\ Pointed(queue, events)
  BY <1>1, <1>5, <1>6 DEF LandsFirst, Once, Pointed
<1>9. PasteInv
  <2>1. Len(events) = 0 /\ ~AskedPlain(events, Len(events) + 1)
    BY <1>2 DEF AskedPlain
  <2> QED BY <1>1, <1>2, <1>5, <2>1 DEF PasteInv, Pastes, PlainAsked
<1> QED BY <1>2, <1>7, <1>8, <1>9 DEF InputInv, Faithful

LEMMA InputIsSound == InputSpec => []InputInv
BY InputStart, InputStep, PTL DEF InputSpec

\* "Scroll must land before the click's hit test": the queue holds every delta
\* and the last move before a button's call, however wheels, moves, keys,
\* pastes and frames came before it (flushWheel and flushMove in the canvas'
\* handlers).
THEOREM ScrollsLandFirst == InputSpec => []ScrollLandsFirst
<1>1. InputInv => ScrollLandsFirst
  BY DEF InputInv, LandsFirst, ScrollLandsFirst, Calls, Carried, Happened, Of
<1> QED BY <1>1, InputIsSound, PTL

\* Coalescing loses no wheel delta and sends none twice while the engine lives.
THEOREM DeltasGoOnce == InputSpec => []EveryDeltaOnce
<1>1. InputInv => EveryDeltaOnce
  <2> SUFFICES ASSUME InputInv, ~corpse, NEW e \in Of(events, "wheel")
               PROVE  IF e \in queue.wheel.ids THEN e \notin Delivered
                      ELSE \E i \in Calls("bib_wheel") : \A j \in DOMAIN queue.sent : e \in Carried(j) <=> j = i
    BY DEF EveryDeltaOnce, Happened, Of
  <2>1. Once(queue, events)
    BY DEF InputInv, Faithful
  <2>2. CASE e \in queue.wheel.ids
    <3>1. \A i \in DOMAIN queue.sent : e \notin queue.sent[i].ids
      BY <2>1, <2>2 DEF Once
    <3> QED BY <2>2, <3>1 DEF Delivered, Carried
  <2>3. CASE e \notin queue.wheel.ids
    BY <2>1, <2>3 DEF Once, Calls, Carried
  <2> QED BY <2>2, <2>3
<1> QED BY <1>1, InputIsSound, PTL

\* A paste is sent as plain text exactly when the last key or paste before it was
\* Ctrl+Shift+V, although its data is packed while other events come.
THEOREM PlainPastesAreAsked == InputSpec => []PlainIsAsked
<1>1. InputInv => PlainIsAsked
  <2> SUFFICES ASSUME InputInv, NEW i \in Calls("bib_edit"), NEW e \in Carried(i) \cap Happened("paste")
               PROVE  queue.sent[i].arg = "plain paste" <=>
                        \E k \in Before(e) : events[k].kind = "plainpastekey" /\ \A l \in Before(e) : l <= k
    BY DEF PlainIsAsked
  <2>1. queue.sent[i].arg = "plain paste" <=> AskedPlain(events, e)
    BY DEF InputInv, PasteInv, PlainAsked, Calls, Carried, Happened
  <2> QED BY <2>1 DEF AskedPlain, Before, Marking
<1> QED BY <1>1, InputIsSound, PTL

-----------------------------------------------------------------------------
(* Pump: what a cycle leaves over is served.                               *)

Loops == [functions : Nat, deadlines : SUBSET Nat]
Wakeups == [scheduled : BOOLEAN, posted : BOOLEAN, failures : Nat, handler : BOOLEAN]
Runtimes == [phase : {"booting", "running", "missing", "aborted", "exited", "lost", "terminated"}, dead : BOOLEAN]
\* A message the engine takes for scheduled is on its way: bibWakeUp would not post another.
PumpTypes == /\ clock \in Nat /\ loop \in Loops /\ wakeup \in Wakeups /\ timeout \in Nat
             /\ runtime \in Runtimes
             /\ wakeup.scheduled => wakeup.posted

\* Someone will call bib_pump for what l waits for
Served(l, w, t) == /\ l.functions > 0 => w.posted
                   /\ l.deadlines # {} => w.posted \/ t <= Earliest(l.deadlines) + Tolerance
\* WakeupIsComing, from the boot on
WakeupInv == runtime.phase \in {"booting", "running"} /\ ~stalled /\ wakeup.handler
               => Served(loop, wakeup, timeout)

LEMMA EarliestIs ==
  ASSUME NEW ds \in SUBSET Nat, ds # {}
  PROVE  Earliest(ds) \in ds /\ \A e \in ds : Earliest(ds) <= e
<1>1. IsWellFoundedOn(OpToRel(<, Nat), Nat)
  BY NatLessThanWellFounded
<1>2. PICK d \in ds : \A e \in ds : <<e, d>> \notin OpToRel(<, Nat)
  BY <1>1, WFMin
<1>3. \A e \in ds : ~(e < d)
  BY <1>2 DEF OpToRel
<1>4. \A e \in ds : d <= e
  BY <1>3
<1> QED BY <1>4 DEF Earliest

LEMMA WokenIs ==
  ASSUME NEW w \in Wakeups, w.scheduled => w.posted
  PROVE  Woken(w) \in Wakeups /\ Woken(w).posted /\ Woken(w).handler = w.handler
BY DEF Woken, Wakeups

\* A timeout for a deadline still to come is at most the tolerance late
LEMMA ArmedInTime ==
  ASSUME PumpTypes, NEW ds \in SUBSET Nat, \A d \in ds : d > clock, NEW t \in Nat
  PROVE  /\ ArmedAfter(ds, t) \in Nat
         /\ ds # {} => ArmedAfter(ds, t) <= Earliest(ds) + Tolerance
<1>1. CASE ds = {}
  BY <1>1 DEF ArmedAfter
<1>2. CASE ds # {}
  <2>1. Earliest(ds) \in Nat /\ Earliest(ds) > clock
    BY <1>2, EarliestIs
  <2>2. Later(clock, Earliest(ds)) = Earliest(ds)
    BY <2>1 DEF Later
  <2>3. Armed(t, Earliest(ds)) \in Nat /\ Armed(t, Earliest(ds)) <= Earliest(ds) + Tolerance
    BY <2>1, PumpAssumption DEF Armed
  <2> QED BY <1>2, <2>2, <2>3 DEF ArmedAfter
<1> QED BY <1>1, <1>2

\* However a cycle ends, what it left over is served.
LEMMA CycleServes ==
  ASSUME PumpTypes, NEW w \in Wakeups, w.scheduled => w.posted, NEW t \in Nat, CycleEnds(w, t)
  PROVE  /\ loop' \in Loops /\ wakeup' \in Wakeups /\ timeout' \in Nat /\ (wakeup'.scheduled => wakeup'.posted)
         /\ Served(loop, wakeup, timeout)' /\ UNCHANGED runtime
<1>1. PICK f \in 0..1, ds \in {{}} \cup {{d} : d \in (clock + 1)..MaxNow} :
        LET left == (loop.deadlines \ Due(loop)) \cup ds
            more == f + (IF ds = {} THEN 0 ELSE 1)
        IN /\ Start(f, left, IF more > 0 THEN Woken(w) ELSE w)
           /\ timeout' = ArmedAfter(left, t)
  BY DEF CycleEnds
<1> DEFINE left == (loop.deadlines \ Due(loop)) \cup ds
<1>2. left \in SUBSET Nat /\ \A d \in left : d > clock
  BY PumpAssumption DEF PumpTypes, Loops, Due
<1>3. loop' = [functions |-> f, deadlines |-> left]
  BY <1>1 DEF Start
<1>4. wakeup' \in {w, Woken(w)} /\ (f > 0 => wakeup' = Woken(w))
  BY <1>1 DEF Start
<1>5. timeout' \in Nat /\ (left # {} => timeout' <= Earliest(left) + Tolerance)
  BY <1>1, <1>2, ArmedInTime
<1>6. wakeup' \in Wakeups /\ (wakeup'.scheduled => wakeup'.posted) /\ (f > 0 => wakeup'.posted)
  BY <1>4, WokenIs
<1> QED BY <1>2, <1>3, <1>5, <1>6 DEF Loops, Served, CycleEnds

LEMMA CycleOutcomes ==
  ASSUME PumpTypes, NEW w \in Wakeups, w.scheduled => w.posted, NEW t \in Nat,
         CycleThrows(w, t) \/ CycleAborts(w, t)
  PROVE  /\ loop' \in Loops /\ wakeup' = w /\ timeout' = t
         /\ stalled' \/ runtime'.phase = "aborted"
<1>1. CASE CycleThrows(w, t)
  BY <1>1 DEF CycleThrows, Start, PumpTypes, Loops
<1>2. CASE CycleAborts(w, t)
  BY <1>2 DEF CycleAborts, PumpTypes
<1> QED BY <1>1, <1>2

LEMMA RuntimeType ==
  ASSUME runtime \in Runtimes, [PumpNext]_pumpVars
  PROVE  runtime' \in Runtimes
<1>1. \A w, t : CycleEnds(w, t) => UNCHANGED runtime
  BY DEF CycleEnds
<1>2. \A w, t : CycleAborts(w, t) => runtime' = [phase |-> "aborted", dead |-> TRUE]
  BY DEF CycleAborts
<1>3. CASE PumpMessage \/ TimerFires \/ ExportCall
  <2>1. \/ UNCHANGED runtime \/ runtime' = [runtime EXCEPT !.dead = TRUE]
        \/ runtime' = [phase |-> "aborted", dead |-> TRUE]
    BY <1>1, <1>2, <1>3, Zenon DEF PumpMessage, TimerFires, ExportCall
  <2>2. [runtime EXCEPT !.dead = TRUE] \in Runtimes /\ [phase |-> "aborted", dead |-> TRUE] \in Runtimes
    BY DEF Runtimes
  <2> QED BY <2>1, <2>2
<1>4. CASE Boots \/ WorkerError
  <2>1. \/ runtime' = [phase |-> "aborted", dead |-> TRUE]
        \/ \E phase \in {"running", "missing", "exited", "lost"} : runtime' = [runtime EXCEPT !.phase = phase]
    BY <1>4, Zenon DEF Boots, MainIsReady, MainExits, WorkerError
  <2>2. [phase |-> "aborted", dead |-> TRUE] \in Runtimes
        /\ \A phase \in {"running", "missing", "exited", "lost"} : [runtime EXCEPT !.phase = phase] \in Runtimes
    BY DEF Runtimes
  <2> QED BY <2>1, <2>2
<1>5. CASE Receive \/ Kill \/ PageHides
  BY <1>5 DEF Receive, Kill, PageHides, Crashed, Terminated, Runtimes
<1>6. CASE UNCHANGED runtime
  BY <1>6
<1> QED BY <1>3, <1>4, <1>5, <1>6 DEF PumpNext, Dispatch, StartTimer, ClockTicks, pumpVars

LEMMA HeardIs ==
  ASSUME PumpTypes
  PROVE  /\ [Heard EXCEPT !.failures = 0] \in Wakeups /\ ~[Heard EXCEPT !.failures = 0].scheduled
         /\ Failed(Heard) \in Wakeups /\ ~Failed(Heard).scheduled
<1>1. Heard \in Wakeups /\ ~Heard.scheduled
  BY DEF PumpTypes, Wakeups, Heard
<1>2. \A w \in Wakeups : ~w.scheduled => Failed(w) \in Wakeups /\ ~Failed(w).scheduled
  <2> SUFFICES ASSUME NEW w \in Wakeups, ~w.scheduled PROVE Failed(w) \in Wakeups /\ ~Failed(w).scheduled
    OBVIOUS
  <2>1. w.failures + 1 \in Nat /\ (w.failures + 1 < BurstLimit) \in BOOLEAN
    BY DEF Wakeups
  <2> QED BY <2>1 DEF Wakeups, Failed
<1>3. \A w \in Wakeups : ~w.scheduled => [w EXCEPT !.failures = 0] \in Wakeups /\ ~[w EXCEPT !.failures = 0].scheduled
  BY DEF Wakeups
<1> QED BY <1>1, <1>2, <1>3

LEMMA PumpStep ==
  ASSUME PumpTypes, WakeupInv, [PumpNext]_pumpVars
  PROVE  PumpTypes' /\ WakeupInv'
<1>0. runtime' \in Runtimes
  BY RuntimeType DEF PumpTypes
<1>1. CASE Dispatch
  <2>1. loop' = [functions |-> loop.functions + 1, deadlines |-> loop.deadlines]
        /\ wakeup' = Woken(wakeup) /\ UNCHANGED <<clock, timeout>>
    BY <1>1 DEF Dispatch, Start
  <2> QED BY <1>0, <2>1, WokenIs DEF PumpTypes, Loops, WakeupInv, Served
<1>2. CASE StartTimer
  <2>1. PICK d \in clock..MaxNow :
          loop' = [functions |-> loop.functions, deadlines |-> loop.deadlines \cup {d}]
          /\ wakeup' = Woken(wakeup) /\ UNCHANGED <<clock, timeout>>
    BY <1>2 DEF StartTimer, Start
  <2> QED BY <1>0, <2>1, WokenIs, PumpAssumption DEF PumpTypes, Loops, WakeupInv, Served
<1>3. CASE PumpMessage
  <2>0. UNCHANGED clock
    BY <1>3 DEF PumpMessage
  <2>1. CASE CycleEnds([Heard EXCEPT !.failures = 0], timeout)
    <3>1. /\ loop' \in Loops /\ wakeup' \in Wakeups /\ timeout' \in Nat /\ (wakeup'.scheduled => wakeup'.posted)
          /\ Served(loop, wakeup, timeout)'
      BY <2>0, <2>1, HeardIs, CycleServes DEF PumpTypes
    <3> QED BY <1>0, <2>0, <3>1 DEF PumpTypes, WakeupInv
  <2>2. CASE CycleThrows(Failed(Heard), timeout) \/ CycleAborts(Failed(Heard), timeout)
    BY <1>0, <2>0, <2>2, HeardIs, CycleOutcomes DEF PumpTypes, WakeupInv
  <2>3. CASE ~Runs /\ wakeup' = Failed(Heard) /\ UNCHANGED <<loop, timeout, runtime, mail, tasks, stalled>>
    BY <1>0, <1>3, <2>0, <2>3, HeardIs DEF PumpMessage, PumpTypes, WakeupInv, Runs
  <2> QED BY <1>3, <2>1, <2>2, <2>3 DEF PumpMessage
<1>4. CASE TimerFires
  <2>0. UNCHANGED clock /\ Never \in Nat
    BY <1>4, PumpAssumption DEF TimerFires, Never
  <2>1. CASE CycleEnds(wakeup, Never)
    <3>1. /\ loop' \in Loops /\ wakeup' \in Wakeups /\ timeout' \in Nat /\ (wakeup'.scheduled => wakeup'.posted)
          /\ Served(loop, wakeup, timeout)'
      BY <2>0, <2>1, CycleServes DEF PumpTypes
    <3> QED BY <1>0, <2>0, <3>1 DEF PumpTypes, WakeupInv
  <2>2. CASE CycleThrows(wakeup, Never) \/ CycleAborts(wakeup, Never)
    BY <1>0, <2>0, <2>2, CycleOutcomes DEF PumpTypes, WakeupInv
  <2>3. CASE ~Runs /\ timeout' = Never /\ UNCHANGED <<loop, wakeup, runtime, mail, tasks, stalled>>
    BY <1>0, <1>4, <2>0, <2>3 DEF TimerFires, PumpTypes, WakeupInv, Runs
  <2> QED BY <1>4, <2>1, <2>2, <2>3 DEF TimerFires
<1>5. CASE ExportCall
  <2>0. UNCHANGED clock
    BY <1>5 DEF ExportCall
  <2>1. CASE CycleEnds(wakeup, timeout)
    <3>1. /\ loop' \in Loops /\ wakeup' \in Wakeups /\ timeout' \in Nat /\ (wakeup'.scheduled => wakeup'.posted)
          /\ Served(loop, wakeup, timeout)'
      BY <2>0, <2>1, CycleServes DEF PumpTypes
    <3> QED BY <1>0, <2>0, <3>1 DEF PumpTypes, WakeupInv
  <2>2. CASE CycleThrows(wakeup, timeout) \/ CycleAborts(wakeup, timeout)
    BY <1>0, <2>0, <2>2, CycleOutcomes DEF PumpTypes, WakeupInv
  <2> QED BY <1>5, <2>1, <2>2 DEF ExportCall
<1>6. CASE ClockTicks
  BY <1>0, <1>6 DEF ClockTicks, PumpTypes, WakeupInv
<1>7. CASE Boots \/ WorkerError
  BY <1>0, <1>7 DEF Boots, MainIsReady, MainExits, WorkerError, PumpTypes, WakeupInv, Runtimes
<1>8. CASE Receive \/ Kill \/ PageHides
  BY <1>0, <1>8 DEF Receive, Kill, PageHides, Crashed, Terminated, PumpTypes, WakeupInv, Runtimes
<1>9. CASE UNCHANGED pumpVars
  BY <1>0, <1>9 DEF pumpVars, PumpTypes, WakeupInv
<1> QED BY <1>1, <1>2, <1>3, <1>4, <1>5, <1>6, <1>7, <1>8, <1>9 DEF PumpNext

\* For any limits: while the engine runs, ready work has a message on its way to the pump, and
\* the earliest deadline has one or a timeout, at most the tolerance late; the exceptions are a
\* cycle an exception ended early and a pump a burst of them disarmed.
THEOREM NothingWaitsForAFrame == PumpSpec => []WakeupIsComing
<1>1. PumpInit => PumpTypes /\ WakeupInv
  BY PumpAssumption DEF PumpInit, PumpTypes, WakeupInv, Loops, Wakeups, Runtimes, Served, Never
<1>2. PumpTypes /\ WakeupInv /\ [PumpNext]_pumpVars => PumpTypes' /\ WakeupInv'
  BY PumpStep
<1>3. WakeupInv => WakeupIsComing
  BY DEF WakeupInv, Served, WakeupIsComing, Runs
<1> QED BY <1>1, <1>2, <1>3, PTL DEF PumpSpec

-----------------------------------------------------------------------------
(* DevNet: a request that is not in flight hears of its end at most.       *)

Whereabouts == {"not begun", "fetching", "body", "over"}
NetEvents == {"response", "data", "redirect", "done", "failed", "cancelled"}
DevTypes == /\ begun \in [Ids -> Whereabouts] /\ inflight \in SUBSET Ids
            /\ told \in [Ids -> Seq(NetEvents)] /\ rest \in [Ids -> Nat]

\* What a step of one request does to what the engine was told of the others, and of it
TellsOnly(i) == \A j \in Ids \ {i} : told'[j] = told[j]
StillIs(i) == told'[i] = told[i]
ItsEnd(i) == told'[i] = Append(told[i], IF rest[i] > 0 THEN "data" ELSE "cancelled")

LEMMA TellIs ==
  ASSUME DevTypes, NEW i \in Ids, NEW event \in NetEvents, Tell(i, event)
  PROVE  /\ told' \in [Ids -> Seq(NetEvents)] /\ TellsOnly(i) /\ told'[i] = Append(told[i], event)
<1>1. told \in [Ids -> Seq(NetEvents)] /\ told' = [told EXCEPT ![i] = Append(@, event)]
  BY DEF DevTypes, Tell
<1>2. Append(told[i], event) \in Seq(NetEvents)
  BY <1>1
<1> QED BY <1>1, <1>2 DEF TellsOnly

LEMMA FailFetchIs ==
  ASSUME DevTypes, NEW i \in Ids, NEW event \in NetEvents, FailFetch(i, event)
  PROVE  DevTypes' /\ TellsOnly(i) /\ told'[i] = Append(told[i], event)
<1>1. /\ Tell(i, event) /\ inflight' = inflight \ {i} /\ begun' = [begun EXCEPT ![i] = "over"]
      /\ UNCHANGED rest
  BY DEF FailFetch, GoesTo
<1>2. told' \in [Ids -> Seq(NetEvents)] /\ TellsOnly(i) /\ told'[i] = Append(told[i], event)
  BY <1>1, TellIs
<1>3. begun' \in [Ids -> Whereabouts] /\ inflight' \in SUBSET Ids /\ rest' \in [Ids -> Nat]
  BY <1>1 DEF DevTypes, Whereabouts
<1> QED BY <1>2, <1>3 DEF DevTypes

LEMMA SilentIs ==
  ASSUME DevTypes, NEW i \in Ids, Silent(i)
  PROVE  DevTypes' /\ UNCHANGED told
BY DEF DevTypes, Silent, GoesTo, Whereabouts

\* Each step keeps the types and, of a request that is not in flight, tells its end or nothing
LEMMA DevRequestStep ==
  ASSUME DevTypes, NEW i \in Ids,
         \/ BeginFetch(i) \/ FetchFails(i) \/ Answered(i) \/ Chunk(i) \/ Slice(i)
         \/ BodyEnds(i) \/ BodyBreaks(i) \/ DevCancel(i)
  PROVE  DevTypes' /\ TellsOnly(i) /\ (Aborted(i) => StillIs(i) \/ ItsEnd(i))
<1>1. CASE BeginFetch(i)
  BY <1>1 DEF BeginFetch, GoesTo, DevTypes, TellsOnly, StillIs, Whereabouts
<1>2. CASE FetchFails(i)
  <2> DEFINE event == IF Aborted(i) THEN "cancelled" ELSE "failed"
  <2>1. event \in NetEvents /\ FailFetch(i, event) /\ rest[i] = 0
    BY <1>2 DEF FetchFails, At, NetEvents
  <2>2. DevTypes' /\ TellsOnly(i) /\ told'[i] = Append(told[i], event)
    BY <2>1, FailFetchIs
  <2> QED BY <2>1, <2>2 DEF ItsEnd
<1>3. CASE Answered(i)
  <2>1. CASE ~Wanted(i) /\ Silent(i)
    BY <2>1, SilentIs DEF TellsOnly, StillIs
  <2>2. CASE Wanted(i) /\ \E event \in {"failed", "redirect"} : FailFetch(i, event)
    <3>1. PICK event \in {"failed", "redirect"} : FailFetch(i, event)
      BY <2>2
    <3>2. event \in NetEvents
      BY DEF NetEvents
    <3>3. DevTypes' /\ TellsOnly(i)
      BY <3>1, <3>2, FailFetchIs
    <3> QED BY <2>2, <3>3 DEF Wanted, Aborted
  <2>3. CASE Wanted(i) /\ Tell(i, "response") /\ GoesTo(i, "body") /\ UNCHANGED <<inflight, rest>>
    <3>1. told' \in [Ids -> Seq(NetEvents)] /\ TellsOnly(i)
      <4>1. "response" \in NetEvents
        BY DEF NetEvents
      <4> QED BY <2>3, <4>1, TellIs
    <3>2. begun' \in [Ids -> Whereabouts]
      BY <2>3 DEF GoesTo, DevTypes, Whereabouts
    <3> QED BY <2>3, <3>1, <3>2 DEF Wanted, Aborted, DevTypes
  <2> QED BY <1>3, <2>1, <2>2, <2>3 DEF Answered
<1>4. CASE Chunk(i)
  <2>1. CASE Silent(i)
    BY <2>1, SilentIs DEF TellsOnly, StillIs
  <2>2. CASE \E n \in 1..MaxChunks : rest' = [rest EXCEPT ![i] = n] /\ UNCHANGED <<begun, inflight, told>>
    <3>1. PICK n \in 1..MaxChunks : rest' = [rest EXCEPT ![i] = n] /\ UNCHANGED <<begun, inflight, told>>
      BY <2>2
    <3>2. n \in Nat
      BY DevNetAssumption
    <3> QED BY <3>1, <3>2 DEF DevTypes, TellsOnly, StillIs
  <2> QED BY <1>4, <2>1, <2>2 DEF Chunk
<1>5. CASE Slice(i)
  <2>1. rest[i] > 0 /\ rest' = [rest EXCEPT ![i] = @ - 1] /\ Tell(i, "data") /\ UNCHANGED <<begun, inflight>>
    BY <1>5 DEF Slice
  <2>2. told' \in [Ids -> Seq(NetEvents)] /\ TellsOnly(i) /\ told'[i] = Append(told[i], "data")
    <3>1. "data" \in NetEvents
      BY DEF NetEvents
    <3> QED BY <2>1, <3>1, TellIs
  <2>3. rest[i] - 1 \in Nat
    BY <2>1 DEF DevTypes
  <2> QED BY <2>1, <2>2, <2>3 DEF DevTypes, ItsEnd
<1>6. CASE BodyEnds(i) \/ BodyBreaks(i)
  <2>1. CASE Silent(i)
    BY <2>1, SilentIs DEF TellsOnly, StillIs
  <2>2. CASE Wanted(i) /\ \E event \in {"done", "failed"} : FailFetch(i, event)
    <3>1. PICK event \in {"done", "failed"} : FailFetch(i, event)
      BY <2>2
    <3>2. event \in NetEvents
      BY DEF NetEvents
    <3>3. DevTypes' /\ TellsOnly(i)
      BY <3>1, <3>2, FailFetchIs
    <3> QED BY <2>2, <3>3 DEF Wanted, Aborted
  <2> QED BY <1>6, <2>1, <2>2 DEF BodyEnds, BodyBreaks
<1>7. CASE DevCancel(i)
  BY <1>7 DEF DevCancel, DevTypes, TellsOnly, StillIs
<1> QED BY <1>1, <1>2, <1>3, <1>4, <1>5, <1>6, <1>7

\* CancelIsFinal (DevNet), for any requests and bodies: of a request it cancelled the engine hears
\* the rest of the chunk in hand, or CANCELLED, and never a response, a redirect or an end of the
\* body (bib-net.js' tests of `inflight` after each await).
THEOREM CancelsAreFinal == DevSpec => CancelIsFinal
<1>1. DevInit => DevTypes
  <2>1. <<>> \in Seq(NetEvents) /\ "not begun" \in Whereabouts /\ 0 \in Nat
    BY DEF Whereabouts
  <2>2. /\ [i \in Ids |-> <<>>] \in [Ids -> Seq(NetEvents)] /\ [i \in Ids |-> 0] \in [Ids -> Nat]
        /\ [i \in Ids |-> "not begun"] \in [Ids -> Whereabouts]
    BY <2>1
  <2> QED BY <2>2 DEF DevInit, DevTypes
<1>2. DevTypes /\ [DevNext]_devVars => DevTypes'
  <2> SUFFICES ASSUME DevTypes, [DevNext]_devVars PROVE DevTypes'
    OBVIOUS
  <2>1. CASE DevNext
    BY <2>1, DevRequestStep DEF DevNext
  <2>2. CASE UNCHANGED devVars
    BY <2>2 DEF devVars, DevTypes
  <2> QED BY <2>1, <2>2
<1> DEFINE Final == \A i \in Ids : begun[i] # "not begun" /\ Aborted(i) /\ told'[i] # told[i] =>
                      told'[i] = Append(told[i], IF rest[i] > 0 THEN "data" ELSE "cancelled")
<1>3. DevTypes /\ [DevNext]_devVars => [Final]_devVars
  <2> SUFFICES ASSUME DevTypes, [DevNext]_devVars, NEW i \in Ids, Aborted(i), told'[i] # told[i],
                      ~UNCHANGED devVars
               PROVE  ItsEnd(i)
    BY DEF ItsEnd
  <2>1. PICK j \in Ids : \/ BeginFetch(j) \/ FetchFails(j) \/ Answered(j) \/ Chunk(j) \/ Slice(j)
                         \/ BodyEnds(j) \/ BodyBreaks(j) \/ DevCancel(j)
    BY DEF DevNext
  <2>2. TellsOnly(j) /\ (Aborted(j) => StillIs(j) \/ ItsEnd(j))
    BY <2>1, DevRequestStep
  <2>3. i = j
    BY <2>2 DEF TellsOnly
  <2> QED BY <2>2, <2>3 DEF StillIs
<1> QED BY <1>1, <1>2, <1>3, PTL DEF DevSpec, CancelIsFinal

-----------------------------------------------------------------------------
(* MediaStub: an element shows an error only for the source it has.        *)

Elements == [src : BOOLEAN, token : Nat, error : {0, 4}, network : {"empty", "loading", "no source"}]
Timeouts == [token : Nat, at : Nat]
MediaTypes == media \in Elements /\ queued \in SUBSET Timeouts /\ mediaActs \in Nat

\* Timeouts come in the order of their loads, so that of the last load is the last.
QueueInv ==
  /\ \A q \in queued : q.token <= media.token /\ q.at < mediaActs
  /\ \A q, r \in queued : (q.token < r.token => q.at < r.at) /\ (q.token = r.token => q = r)
  /\ \A q \in queued : q.token = media.token => media.src
MediaInv == MediaTypes /\ QueueInv /\ ErrorIsCurrent

LEMMA LoadStep ==
  ASSUME MediaInv, NEW src \in BOOLEAN, Load(src)
  PROVE  MediaInv'
<1>1. /\ media.token \in Nat /\ mediaActs \in Nat /\ queued \in SUBSET Timeouts
      /\ [media EXCEPT !.src = src] \in Elements /\ [media EXCEPT !.src = src].token = media.token
      /\ [media EXCEPT !.src = src].src = src
  BY DEF MediaInv, MediaTypes, Elements
<1>2. /\ media' = [src |-> src, token |-> media.token + 1, error |-> 0,
                   network |-> IF src THEN "loading" ELSE "empty"]
      /\ mediaActs' = mediaActs + 1
      /\ queued' = IF src THEN queued \cup {[token |-> media.token + 1, at |-> mediaActs]} ELSE queued
  BY <1>1 DEF Load, Acts, Loaded, NextToken
<1>3. MediaTypes'
  <2>1. media.token + 1 \in Nat /\ (IF src THEN "loading" ELSE "empty") \in {"empty", "loading", "no source"}
    BY <1>1
  <2>2. [token |-> media.token + 1, at |-> mediaActs] \in Timeouts
    BY <1>1, <2>1 DEF Timeouts
  <2>3. media' \in Elements
    BY <1>2, <2>1 DEF Elements
  <2> QED BY <1>1, <1>2, <2>2, <2>3 DEF MediaTypes
<1>4. \A q \in queued : q.token \in Nat /\ q.at \in Nat /\ q.token <= media.token /\ q.at < mediaActs
  BY DEF MediaInv, MediaTypes, QueueInv, Timeouts
<1>5. QueueInv'
  <2>1. \A q, r \in queued : (q.token < r.token => q.at < r.at) /\ (q.token = r.token => q = r)
    BY DEF MediaInv, QueueInv
  <2> QED BY <1>1, <1>2, <1>4, <2>1 DEF QueueInv
<1>6. media'.error = 0
  BY <1>2
<1> QED BY <1>3, <1>5, <1>6 DEF MediaInv, ErrorIsCurrent

LEMMA TimeoutStep ==
  ASSUME MediaInv, TimeoutFires
  PROVE  MediaInv'
<1>1. PICK q \in queued :
        /\ \A other \in queued : q.at <= other.at
        /\ queued' = queued \ {q}
        /\ IF q.token = media.token
           THEN media' = [media EXCEPT !.error = 4, !.network = "no source"]
           ELSE UNCHANGED media
        /\ UNCHANGED <<listeners, mediaActs>>
  BY DEF TimeoutFires
<1>2. \A r \in queued : r.token \in Nat /\ r.at \in Nat /\ r.token <= media.token /\ r.at < mediaActs
  BY DEF MediaInv, MediaTypes, QueueInv, Timeouts
<1>3. CASE q.token = media.token
  <2>1. queued' = {}
    <3> SUFFICES ASSUME NEW r \in queued, r # q PROVE FALSE
      BY <1>1
    <3>1. r.token < q.token
      BY <1>2, <1>3 DEF MediaInv, QueueInv
    <3>2. r.at < q.at
      BY <3>1 DEF MediaInv, QueueInv
    <3> QED BY <1>1, <1>2, <3>2
  <2>2. media.src /\ media \in Elements
    BY <1>3 DEF MediaInv, MediaTypes, QueueInv
  <2>3. media' \in Elements /\ media'.src
    BY <1>1, <1>3, <2>2 DEF Elements
  <2> QED BY <1>1, <2>1, <2>3 DEF MediaInv, MediaTypes, QueueInv, ErrorIsCurrent
<1>4. CASE q.token # media.token
  BY <1>1, <1>4 DEF MediaInv, MediaTypes, QueueInv, ErrorIsCurrent
<1> QED BY <1>3, <1>4

\* For any page: while an element shows an error it has a source, and no load of it is still to
\* fail, whatever loads, removals and listeners ran in between.
THEOREM ErrorsAreCurrent == MediaSpec => []ErrorIsCurrent
<1>1. MediaInit => MediaInv
  BY DEF MediaInit, MediaInv, MediaTypes, QueueInv, ErrorIsCurrent, Elements
<1>2. MediaInv /\ [MediaNext]_mediaVars => MediaInv'
  <2> SUFFICES ASSUME MediaInv, [MediaNext]_mediaVars PROVE MediaInv'
    OBVIOUS
  <2>1. ASSUME NEW src \in BOOLEAN, Load(src) PROVE MediaInv'
    BY <2>1, LoadStep
  <2>2. CASE TimeoutFires
    BY <2>2, TimeoutStep
  <2>3. CASE UNCHANGED <<media, queued>> /\ mediaActs' \in {mediaActs, mediaActs + 1}
    <3>1. MediaTypes'
      BY <2>3 DEF MediaInv, MediaTypes
    <3>2. \A q \in queued : q.at < mediaActs => q.at < mediaActs'
      BY <2>3 DEF MediaInv, MediaTypes, Timeouts
    <3> QED BY <2>3, <3>1, <3>2 DEF MediaInv, QueueInv, ErrorIsCurrent
  <2> QED BY <2>1, <2>2, <2>3 DEF MediaNext, AddListener, RemoveListener, Acts, DispatchNext, mediaVars
<1>3. MediaInv => ErrorIsCurrent
  BY DEF MediaInv
<1> QED BY <1>1, <1>2, <1>3, PTL DEF MediaSpec
-----------------------------------------------------------------------------
(* Staging: what the builds, the files and the record are, once staged.    *)

Links == {"plain", "proxy"}
CompiledBits == {None} \cup {Compiled[h] : h \in Hashes}
Snapshots == [link : Links, bits : CompiledBits, hashes : SUBSET Hashes, guessed : SUBSET Hashes]
Steps == {"idle", "select", "js", "wasm", "config", "meta", "release"}
\* What a script or the record may name, and a file hold, of a history of builds
Names(bs) == {None, Raw} \cup DOMAIN bs
Files(bs) == {i \in Int : i <= None} \cup DOMAIN bs
Engines(bs) == [js : Files(bs), wasm : Files(bs), config : {None, Raw}]
Metas(bs) == [stamp : Names(bs), hashes : SUBSET Hashes, pinned : BOOLEAN]
Releases(bs) == [says : SUBSET Hashes, engine : Engines(bs)]
Scripts(bs) == [step : Steps, ifStale : BOOLEAN, from : Names(bs), src : Names(bs),
                retried : BOOLEAN, release : BOOLEAN]
WholeCopy(o) == o.js # None /\ o.wasm # None /\ o.config # None
\* A file that was copied from src
IsFrom(file, src) == IF src = Raw THEN file < None ELSE file = src
\* What the record says of a complete engine
Describes(m, o, bs) ==
    WholeCopy(o) => /\ m.stamp # None /\ IsFrom(o.js, m.stamp) /\ IsFrom(o.wasm, m.stamp)
                    /\ IF m.stamp = Raw THEN m.hashes = {} ELSE m.hashes \subseteq bs[m.stamp].hashes

BuildTypes ==
    /\ built \in Seq(Snapshots) /\ present \subseteq DOMAIN built
    /\ bin \in [Links -> [id : Nat, bits : CompiledBits]]
    /\ build \in [step : {"idle", "compile", "snapshot"}, link : Links,
                  stamps : SUBSET Hashes, guessed : SUBSET Hashes]
StagingTypes ==
    /\ BuildTypes /\ out \in Engines(built) /\ meta \in Metas(built) /\ script \in Scripts(built)
    /\ shipped \in Releases(built) /\ source \in Hashes /\ killed \in BOOLEAN

\* A hash that is not guessed is of sources the bits were compiled from
Honest == /\ \A s \in DOMAIN built : \A h \in built[s].hashes \ built[s].guessed :
                built[s].bits = Compiled[h]
          /\ build.step = "snapshot" => \A h \in build.stamps \ build.guessed :
                                           bin[build.link].bits = Compiled[h]
\* How far the copy has come
Copied ==
    /\ script.step \in {"js", "wasm", "config", "meta"} => script.src # None
    /\ script.step \in {"wasm", "config", "meta"} => IsFrom(out.js, script.src)
    /\ script.step \in {"config", "meta"} => IsFrom(out.wasm, script.src)
    /\ script.step = "meta" => out.config # None
    /\ script.step # "idle" => shipped.says = {}
    /\ script.release => ~script.ifStale
\* What holds of the copy and the release unless a script was killed
Unspoilt == /\ script.step \in {"idle", "select", "release"} => Describes(meta, out, built)
            /\ script.step = "release" => WholeCopy(out)
ShipsWhat(s, bs) == s.says # {} => /\ s.engine.js = s.engine.wasm /\ s.engine.config # None
                                   /\ s.engine.wasm \in DOMAIN bs
                                   /\ s.says \subseteq bs[s.engine.wasm].hashes

StagingInv == StagingTypes /\ Honest /\ Copied /\ (~killed => Unspoilt /\ ShipsWhat(shipped, built))

\* Builds only add hashes
Grown(bs, cs) == /\ cs \in Seq(Snapshots) /\ DOMAIN bs \subseteq DOMAIN cs
                 /\ \A s \in DOMAIN bs : bs[s].hashes \subseteq cs[s].hashes

LEMMA FilesGrow ==
  ASSUME NEW bs, NEW cs, Grown(bs, cs)
  PROVE  /\ Names(bs) \subseteq Names(cs) /\ Engines(bs) \subseteq Engines(cs)
         /\ Metas(bs) \subseteq Metas(cs) /\ Scripts(bs) \subseteq Scripts(cs)
         /\ Releases(bs) \subseteq Releases(cs)
<1>1. Names(bs) \subseteq Names(cs) /\ Files(bs) \subseteq Files(cs)
  BY DEF Names, Files, Grown
<1>2. Engines(bs) \subseteq Engines(cs)
  BY <1>1 DEF Engines
<1>3. Metas(bs) \subseteq Metas(cs) /\ Scripts(bs) \subseteq Scripts(cs)
  BY <1>1 DEF Metas, Scripts
<1>4. Releases(bs) \subseteq Releases(cs)
  BY <1>2 DEF Releases
<1> QED BY <1>1, <1>2, <1>3, <1>4

\* What a build's step keeps, if it only adds hashes
LEMMA BuildKeeps ==
  ASSUME StagingInv, Grown(built, built'), BuildTypes', Honest',
         UNCHANGED <<source, out, meta, script, shipped, killed>>
  PROVE  StagingInv'
<1>1. /\ Names(built) \subseteq Names(built') /\ Engines(built) \subseteq Engines(built')
      /\ Metas(built) \subseteq Metas(built') /\ Scripts(built) \subseteq Scripts(built')
      /\ Releases(built) \subseteq Releases(built')
  BY FilesGrow
<1>2. /\ out' \in Engines(built') /\ meta' \in Metas(built') /\ script' \in Scripts(built')
      /\ shipped' \in Releases(built') /\ source' \in Hashes /\ killed' \in BOOLEAN
  BY <1>1 DEF StagingInv, StagingTypes
<1>3. StagingTypes'
  BY <1>2 DEF StagingTypes, Engines, Metas, Scripts, Releases, Names, Files
<1>4. Copied'
  BY DEF StagingInv, Copied
<1>5. ASSUME ~killed PROVE Unspoilt' /\ ShipsWhat(shipped, built)'
  <2>1. Unspoilt /\ ShipsWhat(shipped, built) /\ meta.stamp \in Names(built)
    BY <1>5 DEF StagingInv, StagingTypes, Metas
  <2>2. Describes(meta, out, built) => Describes(meta, out, built')
    BY <2>1 DEF Describes, Grown, Names
  <2>3. ShipsWhat(shipped, built')
    BY <2>1 DEF ShipsWhat, Grown
  <2>4. Unspoilt'
    BY <2>1, <2>2 DEF Unspoilt, Describes, WholeCopy, IsFrom
  <2>5. ShipsWhat(shipped, built)'
    BY <2>3 DEF ShipsWhat
  <2> QED BY <2>4, <2>5
<1> QED BY <1>3, <1>4, <1>5 DEF StagingInv

\* The latest snapshot gets the hash too: its bits are those that were built
LEMMA AddsHash ==
  ASSUME BuildTypes, Honest, build.step = "snapshot", build' = NoBuild, bin' = bin,
         Unchanged(Len(built)),
         built' = [built EXCEPT ![Len(built)] = Stamped(built[Len(built)])],
         present' = present
  PROVE  Grown(built, built') /\ BuildTypes' /\ Honest'
<1> DEFINE n == Len(built)
           old == built[n]
           new == Stamped(old)
<1>1. built \in Seq(Snapshots) /\ DOMAIN built = 1..n /\ n \in Nat /\ n > 0 /\ n \in DOMAIN built
  BY DEF BuildTypes, Unchanged
<1>2. old \in Snapshots /\ build.stamps \subseteq Hashes /\ build.guessed \subseteq Hashes
  BY <1>1 DEF BuildTypes
<1>3. /\ new \in Snapshots /\ new.hashes = old.hashes \cup build.stamps /\ new.bits = old.bits
      /\ new.guessed = old.guessed \cup (build.guessed \ old.hashes)
  BY <1>2 DEF Snapshots, Stamped
<1>4. old.bits = bin[build.link].bits
  BY DEF Unchanged
<1>5. \A h \in new.hashes \ new.guessed : new.bits = Compiled[h]
  <2>1. \A h \in old.hashes \ old.guessed : old.bits = Compiled[h]
    BY <1>1 DEF Honest
  <2>2. \A h \in build.stamps \ build.guessed : old.bits = Compiled[h]
    BY <1>4 DEF Honest
  <2> QED BY <1>3, <2>1, <2>2
<1>6. old.hashes \subseteq new.hashes
  BY <1>3
<1>7. built' = [built EXCEPT ![n] = new]
  OBVIOUS
<1> HIDE DEF new, old, n
<1>8. /\ built' \in Seq(Snapshots) /\ DOMAIN built' = DOMAIN built /\ built'[n] = new
      /\ \A i \in DOMAIN built : i # n => built'[i] = built[i]
  BY <1>1, <1>3, <1>7
<1>9. Grown(built, built')
  BY <1>6, <1>8 DEF Grown, old
<1>10. Honest'
  <2>1. ASSUME NEW i \in DOMAIN built' PROVE \A h \in built'[i].hashes \ built'[i].guessed : built'[i].bits = Compiled[h]
    BY <1>5, <1>8, <2>1 DEF Honest
  <2>2. build'.step # "snapshot"
    BY DEF NoBuild
  <2> QED BY <2>1, <2>2 DEF Honest
<1>11. BuildTypes'
  BY <1>8 DEF BuildTypes, NoBuild, Links
<1> QED BY <1>9, <1>10, <1>11

LEMMA StoresSnapshot ==
  ASSUME BuildTypes, Honest, build.step = "snapshot", build' = NoBuild, bin' = bin,
         built' = Append(built, [link |-> build.link, bits |-> bin[build.link].bits,
                                 hashes |-> build.stamps, guessed |-> build.guessed]),
         present' \subseteq present \cup {Len(built) + 1}
  PROVE  Grown(built, built') /\ BuildTypes' /\ Honest'
<1> DEFINE new == [link |-> build.link, bits |-> bin[build.link].bits,
                   hashes |-> build.stamps, guessed |-> build.guessed]
           n == Len(built)
<1>1. built \in Seq(Snapshots) /\ DOMAIN built = 1..n /\ n \in Nat
  BY DEF BuildTypes
<1>2. build.link \in Links /\ bin[build.link].bits \in CompiledBits /\ build.stamps \subseteq Hashes
      /\ build.guessed \subseteq Hashes
  BY DEF BuildTypes
<1>3. new \in Snapshots
  BY <1>2 DEF Snapshots
<1>4. \A h \in new.hashes \ new.guessed : new.bits = Compiled[h]
  BY DEF Honest
<1>5. built' = Append(built, new)
  OBVIOUS
<1> HIDE DEF new
<1>6. /\ built' \in Seq(Snapshots) /\ DOMAIN built' = 1..(n + 1) /\ built'[n + 1] = new
      /\ \A i \in 1..n : built'[i] = built[i]
  BY <1>1, <1>3, <1>5
<1> HIDE DEF n
<1>7. Grown(built, built')
  BY <1>1, <1>6 DEF Grown
<1>8. Honest'
  <2>1. \A i \in DOMAIN built' : (i \in DOMAIN built /\ built'[i] = built[i]) \/ built'[i] = new
    BY <1>1, <1>6
  <2> QED BY <1>4, <2>1 DEF Honest, NoBuild
<1>9. BuildTypes'
  <2>1. present' \subseteq DOMAIN built'
    BY <1>1, <1>6 DEF BuildTypes, n
  <2> QED BY <1>6, <2>1 DEF BuildTypes, NoBuild, Links
<1> QED BY <1>7, <1>8, <1>9

LEMMA BuildsKeep ==
  ASSUME StagingInv, Builds
  PROVE  StagingInv'
<1>0. BuildTypes /\ Honest
  BY DEF StagingInv, StagingTypes
<1>1. Grown(built, built)
  BY <1>0 DEF Grown, BuildTypes
<1>2. ASSUME NEW h \in Hashes, NEW link \in Links, NEW force \in BOOLEAN, Hashed(h, link, force)
      PROVE  StagingInv'
  <2>1. /\ build' = [NoBuild EXCEPT !.step = "compile", !.link = link, !.stamps = {h}]
        /\ UNCHANGED <<built, present, bin, source, out, meta, script, shipped, killed>>
    BY <1>2 DEF Hashed
  <2>2. BuildTypes' /\ Honest'
    BY <1>0, <2>1 DEF BuildTypes, Honest, NoBuild
  <2> QED BY <1>1, <2>1, <2>2, BuildKeeps DEF Grown
<1>3. ASSUME NEW h \in Hashes, NEW link \in Links, SnapshotOnly(h, link) PROVE StagingInv'
  <2>1. /\ build' = [step |-> "snapshot", link |-> link, stamps |-> {h}, guessed |-> {h}]
        /\ UNCHANGED <<built, present, bin, source, out, meta, script, shipped, killed>>
    BY <1>3 DEF SnapshotOnly
  <2>2. BuildTypes' /\ Honest'
    BY <1>0, <2>1 DEF BuildTypes, Honest
  <2> QED BY <1>1, <2>1, <2>2, BuildKeeps DEF Grown
<1>4. ASSUME NEW h \in Hashes, Compile(h) PROVE StagingInv'
  <2>1. /\ build.step = "compile"
        /\ bin' = [bin EXCEPT ![build.link] = [id |-> @.id + 1, bits |-> Compiled[h]]]
        /\ build' = [build EXCEPT !.step = "snapshot", !.guessed = build.stamps \ {h}]
        /\ UNCHANGED <<built, present, source, out, meta, script, shipped, killed>>
    BY <1>4 DEF Compile
  <2>2. build.link \in Links /\ build.stamps \subseteq Hashes /\ bin[build.link].id + 1 \in Nat
    BY <1>0 DEF BuildTypes
  <2>3. Compiled[h] \in CompiledBits
    BY DEF CompiledBits
  <2>4. bin' \in [Links -> [id : Nat, bits : CompiledBits]] /\ bin'[build.link].bits = Compiled[h]
    BY <1>0, <2>1, <2>2, <2>3 DEF BuildTypes
  <2>5. build' \in [step : {"idle", "compile", "snapshot"}, link : Links,
                    stamps : SUBSET Hashes, guessed : SUBSET Hashes]
        /\ build'.link = build.link /\ build'.stamps \ build'.guessed \subseteq {h}
    BY <1>0, <2>1, <2>2 DEF BuildTypes
  <2>6. BuildTypes' /\ Honest'
    BY <1>0, <2>1, <2>4, <2>5 DEF BuildTypes, Honest
  <2> QED BY <1>1, <2>1, <2>6, BuildKeeps DEF Grown
<1>5. CASE StoreSnapshot
  <2>1. build.step = "snapshot" /\ build' = NoBuild
        /\ UNCHANGED <<bin, source, out, meta, script, shipped, killed>>
    BY <1>5 DEF StoreSnapshot
  <2>2. CASE Unchanged(Len(built))
    BY <1>0, <1>5, <2>1, <2>2, AddsHash, BuildKeeps DEF StoreSnapshot
  <2>3. CASE ~Unchanged(Len(built))
    BY <1>0, <1>5, <2>1, <2>3, StoresSnapshot, BuildKeeps DEF StoreSnapshot
  <2> QED BY <2>2, <2>3
<1>6. CASE BuildFails
  <2>1. build' = NoBuild /\ UNCHANGED <<built, present, bin, source, out, meta, script, shipped, killed>>
    BY <1>6 DEF BuildFails
  <2>2. BuildTypes' /\ Honest'
    BY <1>0, <2>1 DEF BuildTypes, Honest, NoBuild, Links
  <2> QED BY <1>1, <2>1, <2>2, BuildKeeps DEF Grown
<1> QED BY <1>2, <1>3, <1>4, <1>5, <1>6 DEF Builds, Links

\* What the script finds to copy from
LEMMA FoundIs ==
  ASSUME StagingTypes, NEW s, Exists(s)
  PROVE  /\ s \in Names(built) /\ s # None /\ HashesOf(s) \subseteq Hashes
         /\ CopyOf(s) \in Files(built) /\ CopyOf(s) # None /\ IsFrom(CopyOf(s), s)
         /\ s = Raw => HashesOf(s) = {}
         /\ s # Raw => s \in DOMAIN built /\ HashesOf(s) = built[s].hashes
<1>1. s = Raw \/ s \in DOMAIN built
  BY DEF Exists, StagingTypes, BuildTypes
<1>2. built \in Seq(Snapshots)
  BY DEF StagingTypes, BuildTypes
<1>3. s # None
  BY <1>1, <1>2 DEF Raw, None
<1>4. s \in DOMAIN built => built[s] \in Snapshots
  BY <1>2
<1>5. HashesOf(s) \subseteq Hashes
  BY <1>1, <1>4 DEF HashesOf, Snapshots
<1>6. CASE s = Raw
  <2>1. bin["plain"].id \in Nat /\ bin["plain"].id > 0
    BY <1>6 DEF StagingTypes, BuildTypes, Links, Exists
  <2> QED BY <1>3, <1>5, <1>6, <2>1 DEF CopyOf, Files, Names, IsFrom, HashesOf, None
<1>7. CASE s # Raw
  BY <1>1, <1>3, <1>5, <1>7 DEF CopyOf, Files, Names, IsFrom, HashesOf
<1> QED BY <1>6, <1>7

LEMMA DoneIs ==
  /\ Done \in Scripts(built) /\ Done.step = "idle" /\ ~Done.release
  /\ [Done EXCEPT !.step = "release"] \in Scripts(built)
  /\ [Done EXCEPT !.step = "release"].step = "release" /\ ~[Done EXCEPT !.step = "release"].release
BY DEF Done, Scripts, Steps, Names

\* What a step of the script keeps
LEMMA ScriptKeeps ==
  ASSUME StagingInv, UNCHANGED <<built, present, bin, build, source>>,
         out' \in Engines(built), meta' \in Metas(built), script' \in Scripts(built),
         shipped' \in Releases(built), killed' \in BOOLEAN, Copied',
         ~killed' => Unspoilt' /\ ShipsWhat(shipped', built)
  PROVE  StagingInv'
<1>1. StagingTypes'
  BY DEF StagingInv, StagingTypes, BuildTypes, Engines, Files, Names, Metas, Scripts, Releases
<1>2. ~killed' => Unspoilt' /\ ShipsWhat(shipped, built)'
  BY DEF ShipsWhat
<1>3. Honest'
  BY DEF StagingInv, Honest
<1> QED BY <1>1, <1>2, <1>3 DEF StagingInv

\* The script ends: a complete engine may be left staged, which a release may go on to pack
LEMMA EndsWell ==
  ASSUME StagingInv, UNCHANGED built, script' \in {Done, Returns}, shipped'.says = {},
         ~killed' => /\ Describes(meta', out', built)
                     /\ script' = Returns /\ script.release => WholeCopy(out')
  PROVE  script' \in Scripts(built) /\ Copied' /\ (~killed' => Unspoilt')
<1>1. \/ script' = Done
      \/ script.release /\ script' = Returns /\ script' = [Done EXCEPT !.step = "release"]
  BY DEF Returns
<1>2. script' \in Scripts(built) /\ script'.step \in {"idle", "release"} /\ ~script'.release
  BY <1>1, DoneIs
<1>3. Copied'
  BY <1>2 DEF Copied
<1>4. ~killed' => Describes(meta, out, built)'
  BY DEF Describes, WholeCopy, IsFrom
<1>5. ~killed' => (script'.step = "release" => WholeCopy(out)')
  BY <1>1, DoneIs DEF WholeCopy
<1> QED BY <1>2, <1>3, <1>4, <1>5 DEF Unspoilt

LEMMA SelectKeeps == ASSUME StagingInv, Select PROVE StagingInv'
<1>00. ASSUME ~killed PROVE Unspoilt /\ Describes(meta, out, built)
  <2>1. Unspoilt
    BY <1>00 DEF StagingInv
  <2> QED BY <2>1 DEF Select, Unspoilt
<1>0. /\ script.step = "select" /\ UNCHANGED <<built, present, bin, build, source, shipped, killed>>
      /\ StagingTypes /\ out \in Engines(built) /\ script \in Scripts(built) /\ meta \in Metas(built)
      /\ shipped \in Releases(built) /\ shipped.says = {} /\ killed \in BOOLEAN /\ Copied
      /\ (~killed => Unspoilt /\ Describes(meta, out, built))
  BY <1>00 DEF Select, StagingInv, StagingTypes, Copied
<1>01. ShipsWhat(shipped', built) /\ shipped'.says = {} /\ shipped' \in Releases(built) /\ killed' \in BOOLEAN
  BY <1>0 DEF ShipsWhat
<1>1. CASE /\ \/ script.ifStale /\ meta.pinned /\ BitsStaged
              \/ script.from = None /\ Matching = {} /\ StagedStillMatches
           /\ script' = Returns /\ UNCHANGED <<out, meta>>
  <2>1. script.release => WholeCopy(out')
    BY <1>0, <1>1 DEF Copied, StagedStillMatches, BitsStaged, WholeCopy
  <2>2. script' \in Scripts(built) /\ Copied' /\ (~killed' => Unspoilt')
    BY <1>0, <1>01, <1>1, <2>1, EndsWell
  <2> QED BY <1>0, <1>01, <1>1, <2>2, ScriptKeeps
<1>2. CASE script' = Exits /\ UNCHANGED <<out, meta>>
  <2>1. script' = Done
    BY <1>2 DEF Exits
  <2>2. script' = Returns => ~script.release
    BY <2>1, DoneIs DEF Returns
  <2>3. script' \in Scripts(built) /\ Copied' /\ (~killed' => Unspoilt')
    BY <1>0, <1>01, <1>2, <2>1, <2>2, EndsWell
  <2> QED BY <1>0, <1>01, <1>2, <2>3, ScriptKeeps
<1>3. CASE /\ Exists(Choice) /\ script.ifStale /\ SameInodes(Choice)
           /\ script' = Returns /\ UNCHANGED out
           /\ meta' = IF meta # NoMeta THEN meta
                      ELSE [stamp |-> Choice, hashes |-> HashesOf(Choice), pinned |-> FALSE]
  <2> DEFINE c == Choice
  <2>1. c \in Names(built) /\ c # None /\ c # Raw /\ out.js = c /\ out.wasm = c /\ out.config # None
    BY <1>0, <1>3, FoundIs DEF SameInodes
  <2>2. HashesOf(c) = built[c].hashes /\ HashesOf(c) \subseteq Hashes
    BY <1>0, <1>3, <2>1, FoundIs
  <2>3. meta' = meta \/ meta' = [stamp |-> c, hashes |-> HashesOf(c), pinned |-> FALSE]
    BY <1>3
  <2> HIDE DEF c
  <2>4. meta' \in Metas(built)
    <3> DEFINE hs == HashesOf(c)
    <3>1. hs \in SUBSET Hashes /\ (meta' = meta \/ meta' = [stamp |-> c, hashes |-> hs, pinned |-> FALSE])
      BY <2>2, <2>3
    <3> HIDE DEF hs
    <3>2. [stamp |-> c, hashes |-> hs, pinned |-> FALSE] \in Metas(built)
      BY <2>1, <3>1 DEF Metas
    <3>3. meta \in Metas(built)
      BY <1>0
    <3> QED BY <3>1, <3>2, <3>3
  <2>5. ~killed' => Describes(meta', out', built)
    <3>1. CASE meta' = meta
      BY <1>0, <1>3, <3>1
    <3>2. CASE meta' = [stamp |-> c, hashes |-> HashesOf(c), pinned |-> FALSE]
      BY <1>3, <2>1, <2>2, <3>2 DEF Describes, IsFrom
    <3> QED BY <2>3, <3>1, <3>2
  <2>6. ~script.release
    BY <1>0, <1>3 DEF Copied
  <2>7. script' \in Scripts(built) /\ Copied' /\ (~killed' => Unspoilt')
    BY <1>0, <1>01, <1>3, <2>5, <2>6, EndsWell
  <2> QED BY <1>0, <1>01, <1>3, <2>4, <2>7, ScriptKeeps
<1>4. CASE /\ Exists(Choice) /\ script' = [script EXCEPT !.src = Choice, !.step = "js"]
           /\ UNCHANGED <<out, meta>>
  <2> DEFINE c == Choice
  <2>1. c \in Names(built) /\ c # None /\ script' = [script EXCEPT !.src = c, !.step = "js"]
    BY <1>0, <1>4, FoundIs
  <2> HIDE DEF c
  <2>2. script' \in Scripts(built) /\ script'.step = "js" /\ script'.src # None
        /\ script'.release = script.release /\ script'.ifStale = script.ifStale
    BY <1>0, <2>1 DEF Scripts, Steps
  <2>3. Copied' /\ Unspoilt'
    BY <1>0, <1>01, <2>2 DEF Copied, Unspoilt
  <2> QED BY <1>0, <1>01, <1>4, <2>2, <2>3, ScriptKeeps
<1> QED BY <1>1, <1>2, <1>3, <1>4 DEF Select

LEMMA FileKeeps ==
  ASSUME StagingInv,
         File("js", "wasm") \/ File("wasm", "config")
  PROVE  StagingInv'
<1>1. PICK f \in {"js", "wasm"}, next \in {"wasm", "config"} :
        /\ f = "js" <=> next = "wasm"
        /\ File(f, next)
  BY Zenon
<1>0. /\ script.step = f /\ UNCHANGED <<built, present, bin, build, source, meta, shipped, killed>>
      /\ StagingTypes /\ out \in Engines(built) /\ script \in Scripts(built) /\ meta \in Metas(built)
      /\ shipped \in Releases(built) /\ killed \in BOOLEAN /\ Copied
  BY <1>1 DEF File, StagingInv, StagingTypes
<1>01. ShipsWhat(shipped', built) /\ shipped'.says = {} /\ shipped' \in Releases(built)
       /\ killed' \in BOOLEAN /\ meta' \in Metas(built)
  BY <1>0, <1>1 DEF ShipsWhat, Copied
<1>2. CASE /\ Exists(script.src) /\ out' = [out EXCEPT ![f] = CopyOf(script.src)]
           /\ script' = [script EXCEPT !.step = next]
  <2> DEFINE c == CopyOf(script.src)
  <2>1. c \in Files(built) /\ script.src # None /\ IsFrom(c, script.src)
    BY <1>0, <1>2, FoundIs
  <2>2. out' = [out EXCEPT ![f] = c]
    BY <1>2
  <2> HIDE DEF c
  <2>3. /\ out' \in Engines(built) /\ out'[f] = c /\ (f = "wasm" => out'.js = out.js)
    BY <1>0, <1>1, <2>1, <2>2 DEF Engines
  <2>4. /\ script' \in Scripts(built) /\ script'.step = next /\ script'.src = script.src
        /\ script'.release = script.release /\ script'.ifStale = script.ifStale
    BY <1>0, <1>1, <1>2 DEF Scripts, Steps
  <2>5. Copied' /\ Unspoilt'
    <3>1. CASE f = "js"
      BY <1>0, <1>01, <1>1, <2>1, <2>3, <2>4, <3>1 DEF Copied, Unspoilt, IsFrom
    <3>2. CASE f = "wasm"
      BY <1>0, <1>01, <1>1, <2>1, <2>3, <2>4, <3>2 DEF Copied, Unspoilt, IsFrom
    <3> QED BY <1>1, <3>1, <3>2
  <2> QED BY <1>0, <1>01, <2>3, <2>4, <2>5, ScriptKeeps
<1>3. CASE /\ out' = Removed(f)
           /\ script' = IF script.retried THEN Exits
                        ELSE [script EXCEPT !.step = "select", !.src = None, !.retried = TRUE]
  <2>1. out' \in Engines(built) /\ out'[f] = None
    BY <1>0, <1>1, <1>3 DEF Removed, Engines, Files, None
  <2>2. ~WholeCopy(out') /\ Describes(meta', out', built)
    BY <1>1, <2>1 DEF Describes, WholeCopy
  <2>3. CASE script.retried
    <3>1. script' = Done
      BY <1>3, <2>3 DEF Exits
    <3>2. script' = Returns => ~script.release
      BY <3>1, DoneIs DEF Returns
    <3>3. script' \in Scripts(built) /\ Copied' /\ (~killed' => Unspoilt')
      BY <1>0, <1>01, <2>2, <3>1, <3>2, EndsWell
    <3> QED BY <1>0, <1>01, <2>1, <3>3, ScriptKeeps
  <2>4. CASE ~script.retried
    <3>1. /\ script' \in Scripts(built) /\ script'.step = "select"
          /\ script'.release = script.release /\ script'.ifStale = script.ifStale
      BY <1>0, <1>3, <2>4 DEF Scripts, Steps, Names
    <3>2. Describes(meta, out, built)'
      BY <1>0, <2>2 DEF Describes, WholeCopy
    <3>3. Copied' /\ Unspoilt'
      BY <1>0, <1>01, <3>1, <3>2 DEF Copied, Unspoilt
    <3> QED BY <1>0, <1>01, <2>1, <3>1, <3>3, ScriptKeeps
  <2> QED BY <2>3, <2>4
<1> QED BY <1>1, <1>2, <1>3 DEF File

LEMMA RecordKeeps ==
  ASSUME StagingInv, Config \/ WriteMeta
  PROVE  StagingInv'
<1>0. /\ UNCHANGED <<built, present, bin, build, source, shipped>>
      /\ StagingTypes /\ out \in Engines(built) /\ script \in Scripts(built) /\ meta \in Metas(built)
      /\ shipped \in Releases(built) /\ killed \in BOOLEAN /\ Copied /\ script.step # "idle"
  BY DEF Config, WriteMeta, StagingInv, StagingTypes
<1>01. ShipsWhat(shipped', built) /\ shipped'.says = {} /\ shipped' \in Releases(built)
  BY <1>0 DEF ShipsWhat, Copied
<1>1. CASE Config
  <2>1. script.step = "config" /\ out' = [out EXCEPT !.config = Raw]
        /\ script' = [script EXCEPT !.step = "meta"] /\ meta' = meta /\ killed' = killed
    BY <1>1 DEF Config
  <2>2. /\ out' \in Engines(built) /\ out'.config # None /\ out'.js = out.js /\ out'.wasm = out.wasm
    BY <1>0, <2>1 DEF Engines, Raw, None
  <2>3. /\ script' \in Scripts(built) /\ script'.step = "meta" /\ script'.src = script.src
        /\ script'.release = script.release /\ script'.ifStale = script.ifStale
    BY <1>0, <2>1 DEF Scripts, Steps
  <2>4. Copied' /\ Unspoilt'
    BY <1>0, <1>01, <2>1, <2>2, <2>3 DEF Copied, Unspoilt, IsFrom
  <2> QED BY <1>0, <1>01, <2>1, <2>2, <2>3, <2>4, ScriptKeeps
<1>2. CASE WriteMeta
  <2> DEFINE hs == IF Exists(script.src) THEN HashesOf(script.src) ELSE {}
  <2>1. /\ script.step = "meta" /\ script' = Returns /\ out' = out /\ killed' = FALSE
        /\ meta' = [stamp |-> script.src, pinned |-> script.from # None, hashes |-> hs]
    BY <1>2 DEF WriteMeta
  <2>2. /\ hs \subseteq Hashes /\ (script.src = Raw => hs = {})
        /\ (script.src # Raw => hs \subseteq built[script.src].hashes)
    BY <1>0, FoundIs
  <2> HIDE DEF hs
  <2>3. script.src \in Names(built) /\ (script.from # None) \in BOOLEAN
    BY <1>0 DEF Scripts
  <2>4. meta' \in Metas(built)
    BY <2>1, <2>2, <2>3 DEF Metas
  <2>5. WholeCopy(out') /\ Describes(meta', out', built)
    <3>1. IsFrom(out'.js, script.src) /\ IsFrom(out'.wasm, script.src) /\ out'.config # None
          /\ script.src # None
      BY <1>0, <2>1 DEF Copied
    <3>2. out'.js # None /\ out'.wasm # None
      BY <3>1 DEF IsFrom, None
    <3> QED BY <2>1, <2>2, <3>1, <3>2 DEF Describes, WholeCopy
  <2>6. script' \in Scripts(built) /\ Copied' /\ (~killed' => Unspoilt')
    BY <1>0, <1>01, <2>1, <2>5, EndsWell
  <2> QED BY <1>0, <1>01, <2>1, <2>4, <2>6, ScriptKeeps
<1> QED BY <1>1, <1>2

LEMMA RunKeeps ==
  ASSUME StagingInv, NEW ifStale \in BOOLEAN, NEW from \in Names(built), NEW release \in BOOLEAN,
         release => ~ifStale, Run(ifStale, from, release)
  PROVE  StagingInv'
<1>00. ASSUME ~killed PROVE Describes(meta, out, built)
  <2>1. Unspoilt
    BY <1>00 DEF StagingInv
  <2> QED BY <2>1 DEF Run, Unspoilt
<1>0. /\ UNCHANGED <<built, present, bin, build, source, killed, out, meta>> /\ shipped' = NoRelease
      /\ StagingTypes /\ out \in Engines(built) /\ script.step = "idle" /\ meta \in Metas(built)
      /\ killed \in BOOLEAN /\ (~killed => Describes(meta, out, built))
  BY <1>00 DEF Run, StagingInv, StagingTypes
<1>1. script' = [Done EXCEPT !.step = "select", !.ifStale = ifStale, !.from = from, !.release = release]
  BY DEF Run
<1>2. /\ script' \in Scripts(built) /\ script'.step = "select"
      /\ script'.release = release /\ script'.ifStale = ifStale
  BY <1>1 DEF Done, Scripts, Steps, Names
<1>3. shipped' \in Releases(built) /\ shipped'.says = {} /\ ShipsWhat(shipped', built)
  BY <1>0 DEF NoRelease, NoEngine, Releases, Engines, Files, None, ShipsWhat
<1>4. Copied' /\ (~killed' => Unspoilt')
  <2>1. ~killed' => Describes(meta, out, built)'
    BY <1>0 DEF Describes, WholeCopy, IsFrom
  <2> QED BY <1>2, <1>3, <2>1 DEF Copied, Unspoilt
<1> QED BY <1>0, <1>2, <1>3, <1>4, ScriptKeeps

LEMMA ReleaseKeeps == ASSUME StagingInv, Release PROVE StagingInv'
<1>00. ASSUME ~killed PROVE ShipsWhat(shipped, built) /\ WholeCopy(out) /\ Describes(meta, out, built)
  <2>1. Unspoilt /\ ShipsWhat(shipped, built)
    BY <1>00 DEF StagingInv
  <2> QED BY <2>1 DEF Release, Unspoilt
<1>0. /\ UNCHANGED <<built, present, bin, build, source, killed, out, meta>>
      /\ StagingTypes /\ out \in Engines(built) /\ script.step = "release" /\ script' = Done
      /\ meta \in Metas(built) /\ shipped \in Releases(built) /\ source \in Hashes /\ killed \in BOOLEAN
      /\ (~killed => ShipsWhat(shipped, built) /\ WholeCopy(out) /\ Describes(meta, out, built))
  BY <1>00 DEF Release, StagingInv, StagingTypes
<1>1. shipped' = shipped \/ shipped' = [says |-> {source} \cap meta.hashes, engine |-> out]
  BY DEF Release
<1>2. shipped' \in Releases(built)
  BY <1>0, <1>1 DEF Releases
<1>3. Copied' /\ (~killed' => Unspoilt')
  <2>1. script' \in Scripts(built) /\ script'.step = "idle" /\ ~script'.release
    BY <1>0, DoneIs
  <2>2. ~killed' => Describes(meta, out, built)'
    BY <1>0 DEF Describes, WholeCopy, IsFrom
  <2> QED BY <2>1, <2>2 DEF Copied, Unspoilt
<1>4. ASSUME ~killed PROVE ShipsWhat(shipped', built)
  <2>1. WholeCopy(out) /\ Describes(meta, out, built) /\ meta.stamp \in Names(built)
    BY <1>0, <1>4 DEF Metas
  <2>2. ShipsWhat([says |-> {source} \cap meta.hashes, engine |-> out], built)
    BY <2>1 DEF ShipsWhat, Describes, IsFrom, WholeCopy, Names
  <2> QED BY <1>0, <1>1, <1>4, <2>2
<1> QED BY <1>0, <1>2, <1>3, <1>4, DoneIs, ScriptKeeps

LEMMA StagingStep == StagingInv /\ [StagingNext]_stagingVars => StagingInv'
<1> SUFFICES ASSUME StagingInv, [StagingNext]_stagingVars PROVE StagingInv'
  OBVIOUS
<1>1. CASE StagingKilled
  <2>1. script' = Done /\ killed' = TRUE
        /\ UNCHANGED <<built, present, bin, build, source, out, meta, shipped>>
    BY <1>1 DEF StagingKilled
  <2>2. /\ out' \in Engines(built) /\ meta' \in Metas(built) /\ script' \in Scripts(built)
        /\ shipped' \in Releases(built)
    BY <2>1, DoneIs DEF StagingInv, StagingTypes
  <2>3. Copied'
    BY <2>1, DoneIs DEF Copied
  <2> QED BY <2>1, <2>2, <2>3, ScriptKeeps
<1>2. CASE SourcesChange
  BY <1>2 DEF SourcesChange, StagingInv, StagingTypes, BuildTypes, Honest, Copied, Unspoilt, ShipsWhat,
     Engines, Files, Names, Metas, Scripts, Releases, Describes, WholeCopy, IsFrom
<1>3. CASE UNCHANGED stagingVars
  BY <1>3 DEF stagingVars, StagingInv, StagingTypes, BuildTypes, Honest, Copied, Unspoilt, ShipsWhat,
     Engines, Files, Names, Metas, Scripts, Releases, Describes, WholeCopy, IsFrom
<1>4. None \in Names(built) /\ Raw \in Names(built) /\ DOMAIN built \subseteq Names(built)
  BY DEF Names
<1>5. ASSUME NEW ifStale \in BOOLEAN, Run(ifStale, None, FALSE) PROVE StagingInv'
  BY <1>4, <1>5, RunKeeps
<1>6. ASSUME NEW from \in {Raw} \cup DOMAIN built, Run(FALSE, from, FALSE) PROVE StagingInv'
  BY <1>4, <1>6, RunKeeps
<1>7. CASE Run(FALSE, None, TRUE)
  BY <1>4, <1>7, RunKeeps
<1> QED BY <1>1, <1>2, <1>3, <1>5, <1>6, <1>7, SelectKeeps, FileKeeps, RecordKeeps, ReleaseKeeps, BuildsKeep
        DEF StagingNext

LEMMA StagingStart == ASSUME StagingInit PROVE StagingInv
<1>1. source \in Hashes
  BY StagingAssumption DEF StagingInit
<1>2. /\ built = <<>> /\ <<>> \in Seq(Snapshots) /\ present = {} /\ build = NoBuild
      /\ bin = [link \in Links |-> [id |-> 0, bits |-> None]]
  BY DEF StagingInit, Links
<1>3. BuildTypes /\ Honest
  BY <1>2 DEF BuildTypes, Honest, NoBuild, Links, CompiledBits
<1>4. out \in Engines(built) /\ out.js = None
  BY DEF StagingInit, NoEngine, Engines, Files, None
<1>5. meta \in Metas(built)
  BY DEF StagingInit, NoMeta, Names, Metas
<1>6. shipped \in Releases(built) /\ shipped.says = {}
  BY <1>4 DEF StagingInit, NoRelease, Releases
<1>7. script \in Scripts(built) /\ script.step = "idle" /\ ~script.release /\ killed = FALSE
  BY DoneIs DEF StagingInit
<1> QED BY <1>1, <1>3, <1>4, <1>5, <1>6, <1>7 DEF StagingInv, StagingTypes, Copied, Unspoilt,
          ShipsWhat, Describes, WholeCopy

LEMMA StagingIsSound == StagingSpec => []StagingInv
<1>1. StagingInit => StagingInv
  BY StagingStart
<1> QED BY <1>1, StagingStep, PTL DEF StagingSpec

\* However many snapshots were built and pruned under the copy, a complete engine
\* that is staged is the one its record names, and has the sources the record
\* claims: stage-engine's retry and its "still matches" shortcut never lie.
THEOREM StagedBitsAreAttributed == StagingSpec => []BitsAreAttributed
<1>1. StagingInv => BitsAreAttributed
  <2> SUFFICES ASSUME StagingInv, script.step = "idle", ~killed, WholeCopy(out) PROVE
        IF meta.stamp = Raw THEN out.js < None /\ out.wasm < None /\ meta.hashes = {}
        ELSE out.js = meta.stamp /\ out.wasm = meta.stamp /\ meta.hashes \subseteq HashesOf(out.wasm)
    BY DEF BitsAreAttributed, BitsStaged, WholeCopy
  <2>1. Unspoilt
    BY DEF StagingInv
  <2>2. Describes(meta, out, built)
    BY <2>1 DEF Unspoilt
  <2> QED BY <2>2 DEF Describes, IsFrom, HashesOf
<1> QED BY <1>1, StagingIsSound, PTL

\* A release that does not warn ships a whole engine, of one snapshot, and its bits are what the
\* sources it names compile to: dedupes, prunings and refused stagings never attach a hash to
\* other bits.  The hashes that a build of edited sources or --snapshot-only stamped are exempt.
THEOREM ReleasesAreAttributed == StagingSpec => []ReleaseIsAttributed
<1>1. StagingInv => ReleaseIsAttributed
  <2> SUFFICES ASSUME StagingInv, ~killed, shipped.says # {} PROVE
        /\ shipped.engine.config # None /\ shipped.engine.js = shipped.engine.wasm
        /\ shipped.says \subseteq HashesOf(shipped.engine.wasm)
        /\ \A h \in shipped.says \ built[shipped.engine.wasm].guessed :
              built[shipped.engine.wasm].bits = Compiled[h]
    BY DEF ReleaseIsAttributed
  <2>1. ShipsWhat(shipped, built) /\ Honest /\ built \in Seq(Snapshots)
    BY DEF StagingInv, StagingTypes, BuildTypes
  <2>2. shipped.engine.wasm # Raw
    BY <2>1 DEF ShipsWhat, Raw
  <2> QED BY <2>1, <2>2 DEF ShipsWhat, Honest, HashesOf
<1> QED BY <1>1, StagingIsSound, PTL

-----------------------------------------------------------------------------
(* ViewerUrl: an address our code wrote splits at its first "#" and at its *)
(* first url= exactly where it was put together.                           *)

\* The model's own words are named, as the provers do not know that they are strings.
Words == STRING \cup {"?", "&", "url=", "#", "x", "https:", "host", "file:", "bad escape"}
Tokens == [word : Words, enc : BOOLEAN]
NoHash(u) == \A i \in DOMAIN u : Word(u, i) # "#"
\* The parameters of a viewer that a written address would give back
Returned(p) == /\ p \in Seq(Tokens) /\ NoHash(p) /\ UrlParam(p) = {}
               /\ p # <<>> => Word(p, 1) # "url="
Https(target) == target \in Seq(Tokens) /\ target # <<>> /\ target[1] = [word |-> "https:", enc |-> FALSE]
UrlInv == /\ address \in Seq(Tokens) /\ Returned(own)
          /\ canonical => \E t : /\ Https(t) /\ address = ViewerURLFor(t, own)
                               /\ shown \in {t, Trimmed(t)}

\* What ViewerURLFor writes before the target
Prefix(p) == Plain(<<"?">>) \o (IF p = <<>> THEN <<>> ELSE p \o Plain(<<"&">>)) \o Plain(<<"url=">>)

LEMMA FirstMatchIs ==
  ASSUME NEW is \in SUBSET Nat, is # {}
  PROVE  FirstMatch(is) \in is /\ \A i \in is : FirstMatch(is) <= i
<1>1. IsWellFoundedOn(OpToRel(<, Nat), Nat)
  BY NatLessThanWellFounded
<1>2. PICK i \in is : \A j \in is : <<j, i>> \notin OpToRel(<, Nat)
  BY <1>1, WFMin
<1>3. \A j \in is : ~(j < i)
  BY <1>2 DEF OpToRel
<1>4. \A j \in is : i <= j
  BY <1>3
<1> QED BY <1>4 DEF FirstMatch

LEMMA LargerSeq ==
  ASSUME NEW S, NEW T, S \subseteq T, NEW s \in Seq(S)
  PROVE  s \in Seq(T)
OBVIOUS

LEMMA StringsAreWords ==
  ASSUME NEW s \in Seq(STRING)
  PROVE  s \in Seq(Words)
<1>1. STRING \subseteq Words
  BY Zenon DEF Words
<1> QED BY <1>1, LargerSeq, Zenon

LEMMA ShortSeqs ==
  ASSUME NEW S, NEW a \in S, NEW b \in S, NEW c \in S
  PROVE  <<a, b>> \in Seq(S) /\ <<a, b, c>> \in Seq(S)
OBVIOUS

LEMMA PlainIs ==
  ASSUME NEW words \in Seq(Words)
  PROVE  /\ Plain(words) \in Seq(Tokens) /\ Len(Plain(words)) = Len(words)
         /\ \A i \in 1..Len(words) : Plain(words)[i] = [word |-> words[i], enc |-> FALSE]
<1>1. Plain(words) = [i \in 1..Len(words) |-> [word |-> words[i], enc |-> FALSE]]
  BY DEF Plain
<1>2. \A i \in 1..Len(words) : [word |-> words[i], enc |-> FALSE] \in Tokens
  BY DEF Tokens
<1> QED BY <1>1, <1>2

LEMMA ConcatIs ==
  ASSUME NEW s \in Seq(Tokens), NEW t \in Seq(Tokens)
  PROVE  /\ s \o t \in Seq(Tokens) /\ Len(s \o t) = Len(s) + Len(t)
         /\ \A i \in 1..(Len(s) + Len(t)) : (s \o t)[i] = IF i <= Len(s) THEN s[i] ELSE t[i - Len(s)]
<1>1. s \o t \in Seq(Tokens) /\ Len(s \o t) = Len(s) + Len(t)
  OBVIOUS
<1>2. \A i \in 1..(Len(s) + Len(t)) :
        (s \o t)[i] = IF i <= Len(s) THEN s[i] ELSE t[i - Len(s)]
  OBVIOUS
<1> QED BY <1>1, <1>2

LEMMA ConcatsAssociate ==
  ASSUME NEW s \in Seq(Tokens), NEW t \in Seq(Tokens), NEW u \in Seq(Tokens)
  PROVE  (s \o t) \o u = s \o (t \o u)
BY ConcatAssociative

LEMMA PrefixIs ==
  ASSUME NEW p \in Seq(Tokens)
  PROVE  /\ Prefix(p) \in Seq(Tokens)
         /\ Len(Prefix(p)) = IF p = <<>> THEN 2 ELSE Len(p) + 3
         /\ Prefix(p)[1] = [word |-> "?", enc |-> FALSE]
         /\ Prefix(p)[Len(Prefix(p))] = [word |-> "url=", enc |-> FALSE]
         /\ p # <<>> => /\ Prefix(p)[Len(p) + 2] = [word |-> "&", enc |-> FALSE]
                        /\ \A i \in 1..Len(p) : Prefix(p)[i + 1] = p[i]
<1> DEFINE q == Plain(<<"?">>)
           a == Plain(<<"&">>)
           v == Plain(<<"url=">>)
<1>1. /\ q \in Seq(Tokens) /\ Len(q) = 1 /\ q[1] = [word |-> "?", enc |-> FALSE]
      /\ a \in Seq(Tokens) /\ Len(a) = 1 /\ a[1] = [word |-> "&", enc |-> FALSE]
      /\ v \in Seq(Tokens) /\ Len(v) = 1 /\ v[1] = [word |-> "url=", enc |-> FALSE]
  <2>1. <<"?">> \in Seq(Words) /\ <<"&">> \in Seq(Words) /\ <<"url=">> \in Seq(Words)
    <3>1. "?" \in Words /\ "&" \in Words /\ "url=" \in Words
      BY DEF Words
    <3> QED BY <3>1
  <2>2. /\ Len(<<"?">>) = 1 /\ Len(<<"&">>) = 1 /\ Len(<<"url=">>) = 1
        /\ <<"?">>[1] = "?" /\ <<"&">>[1] = "&" /\ <<"url=">>[1] = "url="
    OBVIOUS
  <2>3. 1 \in 1..1
    OBVIOUS
  <2> QED BY <2>1, <2>2, <2>3, PlainIs
<1> HIDE DEF q, a, v
<1>2. CASE p = <<>>
  <2>1. Prefix(p) = (q \o <<>>) \o v
    BY <1>2 DEF Prefix, q, v
  <2>2. q \o <<>> = q
    BY <1>1, ConcatEmptySeq
  <2>3. Prefix(p) = q \o v
    BY <2>1, <2>2
  <2>4. /\ Prefix(p) \in Seq(Tokens) /\ Len(Prefix(p)) = Len(q) + Len(v)
        /\ \A i \in 1..(Len(q) + Len(v)) : Prefix(p)[i] = IF i <= Len(q) THEN q[i] ELSE v[i - Len(q)]
    <3>1. /\ q \o v \in Seq(Tokens) /\ Len(q \o v) = Len(q) + Len(v)
          /\ \A i \in 1..(Len(q) + Len(v)) : (q \o v)[i] = IF i <= Len(q) THEN q[i] ELSE v[i - Len(q)]
      BY <1>1, ConcatIs
    <3> QED BY <2>3, <3>1, Zenon
  <2>5. Prefix(p)[1] = q[1] /\ Prefix(p)[2] = v[1]
    BY <1>1, <2>4
  <2> QED BY <1>1, <1>2, <2>4, <2>5
<1>3. CASE p # <<>>
  <2> DEFINE m == p \o a
             n == q \o m
  <2>0. Prefix(p) = n \o v
    BY <1>3 DEF Prefix, q, a, v
  <2>1. /\ m \in Seq(Tokens) /\ Len(m) = Len(p) + Len(a)
        /\ \A i \in 1..(Len(p) + Len(a)) : m[i] = IF i <= Len(p) THEN p[i] ELSE a[i - Len(p)]
    BY <1>1, ConcatIs
  <2> HIDE DEF m
  <2>2. /\ n \in Seq(Tokens) /\ Len(n) = Len(q) + Len(m)
        /\ \A i \in 1..(Len(q) + Len(m)) : n[i] = IF i <= Len(q) THEN q[i] ELSE m[i - Len(q)]
    BY <1>1, <2>1, ConcatIs
  <2> HIDE DEF n
  <2>3. /\ Prefix(p) \in Seq(Tokens) /\ Len(Prefix(p)) = Len(n) + Len(v)
        /\ \A i \in 1..(Len(n) + Len(v)) : Prefix(p)[i] = IF i <= Len(n) THEN n[i] ELSE v[i - Len(n)]
    <3>1. /\ n \o v \in Seq(Tokens) /\ Len(n \o v) = Len(n) + Len(v)
          /\ \A i \in 1..(Len(n) + Len(v)) : (n \o v)[i] = IF i <= Len(n) THEN n[i] ELSE v[i - Len(n)]
      BY <1>1, <2>2, ConcatIs
    <3> QED BY <2>0, <3>1, Zenon
  <2>4. Len(m) = Len(p) + 1 /\ Len(n) = Len(p) + 2 /\ Len(Prefix(p)) = Len(p) + 3 /\ Len(p) \in Nat
    BY <1>1, <2>1, <2>2, <2>3
  <2>5. ASSUME NEW i \in 1..Len(p) PROVE Prefix(p)[i + 1] = p[i]
    <3>1. /\ i + 1 \in 1..(Len(n) + Len(v)) /\ i + 1 <= Len(n)
          /\ i + 1 \in 1..(Len(q) + Len(m)) /\ ~(i + 1 <= Len(q)) /\ (i + 1) - Len(q) = i
          /\ i \in 1..(Len(p) + Len(a)) /\ i <= Len(p)
      BY <1>1, <2>4
    <3> QED BY <2>1, <2>2, <2>3, <3>1
  <2>6. Prefix(p)[Len(p) + 2] = a[1]
    <3> DEFINE i == Len(p) + 2
    <3>1. /\ i \in 1..(Len(n) + Len(v)) /\ i <= Len(n)
          /\ i \in 1..(Len(q) + Len(m)) /\ ~(i <= Len(q)) /\ i - Len(q) = Len(p) + 1
          /\ Len(p) + 1 \in 1..(Len(p) + Len(a)) /\ ~(Len(p) + 1 <= Len(p)) /\ (Len(p) + 1) - Len(p) = 1
      BY <1>1, <2>4
    <3> HIDE DEF i
    <3>2. Prefix(p)[i] = n[i] /\ n[i] = m[Len(p) + 1]
      BY <2>2, <2>3, <3>1
    <3>3. m[Len(p) + 1] = a[1]
      BY <2>1, <3>1
    <3> QED BY <3>2, <3>3 DEF i
  <2>7. Prefix(p)[1] = q[1]
    <3>1. 1 \in 1..(Len(n) + Len(v)) /\ 1 <= Len(n) /\ 1 \in 1..(Len(q) + Len(m)) /\ 1 <= Len(q)
      BY <1>1, <2>4
    <3> QED BY <2>2, <2>3, <3>1
  <2>8. Prefix(p)[Len(Prefix(p))] = v[1]
    <3> DEFINE i == Len(Prefix(p))
    <3>1. i \in 1..(Len(n) + Len(v)) /\ ~(i <= Len(n)) /\ i - Len(n) = 1
      BY <1>1, <2>4
    <3> HIDE DEF i
    <3>2. Prefix(p)[i] = v[1]
      BY <2>3, <3>1
    <3> QED BY <3>2 DEF i
  <2> QED BY <1>1, <1>3, <2>3, <2>4, <2>5, <2>6, <2>7, <2>8
<1> QED BY <1>2, <1>3

\* The url parameter of a written address is the writer's
LEMMA WrittenParam ==
  ASSUME NEW p, Returned(p), NEW t \in Seq(Tokens)
  PROVE  /\ UrlParam(Prefix(p) \o t) # {}
         /\ FirstMatch(UrlParam(Prefix(p) \o t)) = Len(Prefix(p)) - 1
<1> DEFINE u == Prefix(p) \o t
           k == Len(Prefix(p)) - 1
<1>1. /\ p \in Seq(Tokens) /\ Prefix(p) \in Seq(Tokens) /\ u \in Seq(Tokens)
      /\ Len(u) = Len(Prefix(p)) + Len(t) /\ k \in Nat /\ k >= 1
      /\ \A i \in 1..(k + 1) : u[i] = Prefix(p)[i]
  <2>1. p \in Seq(Tokens)
    BY DEF Returned
  <2> QED BY <2>1, PrefixIs
<1>0. Len(Prefix(p)) = IF p = <<>> THEN 2 ELSE Len(p) + 3
  BY PrefixIs DEF Returned
<1>2. k \in UrlParam(u)
  <2>1. Word(u, k + 1) = "url="
    BY <1>1, PrefixIs DEF Word
  <2>2. Word(u, k) \in {"?", "&"}
    <3>1. CASE p = <<>>
      <4>1. k = 1 /\ u[1] = Prefix(p)[1]
        BY <1>0, <1>1, <3>1
      <4> QED BY <1>1, <4>1, PrefixIs DEF Word
    <3>2. CASE p # <<>>
      <4>1. k = Len(p) + 2
        BY <1>1, <3>2, PrefixIs
      <4> QED BY <1>1, <3>2, <4>1, PrefixIs DEF Word
    <3> QED BY <3>1, <3>2
  <2>3. k \in 1..(Len(u) - 1)
    BY <1>1
  <2> QED BY <2>1, <2>2, <2>3 DEF UrlParam
<1>3. ASSUME NEW i \in UrlParam(u), i < k
      PROVE  FALSE
  <2>1. /\ i \in Nat /\ 1 <= i /\ Word(u, i) \in {"?", "&"} /\ Word(u, i + 1) = "url="
    BY <1>1, <1>3 DEF UrlParam
  <2>2. p # <<>> /\ k = Len(p) + 2
    <3>1. p = <<>> => k = 1
      BY <1>0
    <3>2. p # <<>> => k = Len(p) + 2
      BY <1>0, <1>1
    <3>3. k \in Nat /\ i \in Nat /\ 1 <= i /\ i < k
      BY <1>1, <1>3, <2>1
    <3> HIDE DEF k
    <3>4. p # <<>>
      BY <3>1, <3>3
    <3> QED BY <3>2, <3>4
  <2>3. \A j \in 1..Len(p) : u[j + 1] = p[j]
    BY <1>1, <2>2, PrefixIs
  <2>4. CASE i = 1
    <3>1. Word(u, 2) = Word(p, 1)
      BY <1>1, <2>2, <2>3 DEF Word
    <3> QED BY <2>1, <2>2, <2>4, <3>1 DEF Returned
  <2>5. CASE i > 1 /\ i <= Len(p)
    <3>1. i - 1 \in 1..Len(p) /\ i \in 1..Len(p) /\ (i - 1) + 1 = i
      BY <1>1, <2>1, <2>5
    <3>2. Word(u, i) = Word(p, i - 1) /\ Word(u, i + 1) = Word(p, i)
      <4>1. u[i] = p[i - 1] /\ u[i + 1] = p[i]
        BY <2>3, <3>1
      <4> QED BY <4>1 DEF Word
    <3>3. i - 1 \in UrlParam(p)
      BY <1>1, <2>1, <2>5, <3>1, <3>2 DEF UrlParam
    <3> QED BY <3>3 DEF Returned
  <2>6. CASE i = Len(p) + 1
    <3>1. Word(u, i + 1) = "&"
      <4>1. i + 1 = Len(p) + 2 /\ p \in Seq(Tokens) /\ i + 1 \in 1..k
        BY <1>1, <2>2, <2>6
      <4>2. Prefix(p)[i + 1] = [word |-> "&", enc |-> FALSE]
        BY <2>2, <4>1, PrefixIs
      <4>3. u[i + 1] = Prefix(p)[i + 1]
        BY <1>0, <1>1, <2>2, <4>1
      <4> QED BY <4>2, <4>3 DEF Word
    <3> QED BY <2>1, <3>1
  <2> QED BY <1>1, <1>3, <2>1, <2>2, <2>4, <2>5, <2>6
<1>4. UrlParam(u) \in SUBSET Nat
  BY <1>1 DEF UrlParam
<1>5. FirstMatch(UrlParam(u)) = k
  <2>1. FirstMatch(UrlParam(u)) \in UrlParam(u) /\ FirstMatch(UrlParam(u)) <= k
    BY <1>2, <1>4, FirstMatchIs
  <2>2. FirstMatch(UrlParam(u)) \in Nat
    BY <2>1, <1>4
  <2> QED BY <1>1, <1>3, <2>1, <2>2
<1> QED BY <1>2, <1>5

LEMMA WrittenIs ==
  ASSUME NEW p \in Seq(Tokens), NEW t \in Seq(Tokens)
  PROVE  /\ ViewerURLFor(t, p) = Prefix(p) \o t /\ ViewerURLFor(t, p) \in Seq(Tokens)
         /\ Len(ViewerURLFor(t, p)) = Len(Prefix(p)) + Len(t)
         /\ \A i \in 1..(Len(Prefix(p)) + Len(t)) :
              ViewerURLFor(t, p)[i] = IF i <= Len(Prefix(p)) THEN Prefix(p)[i] ELSE t[i - Len(Prefix(p))]
<1>1. Prefix(p) \in Seq(Tokens)
  BY PrefixIs
<1>2. ViewerURLFor(t, p) = Prefix(p) \o t
  BY DEF ViewerURLFor, Prefix
<1>3. /\ Prefix(p) \o t \in Seq(Tokens) /\ Len(Prefix(p) \o t) = Len(Prefix(p)) + Len(t)
      /\ \A i \in 1..(Len(Prefix(p)) + Len(t)) :
           (Prefix(p) \o t)[i] = IF i <= Len(Prefix(p)) THEN Prefix(p)[i] ELSE t[i - Len(Prefix(p))]
  BY <1>1, ConcatIs
<1> QED BY <1>2, <1>3, Zenon

\* location.search and the fragment of any address
LEMMA HalvesAre ==
  ASSUME NEW u \in Seq(Tokens)
  PROVE  /\ Search(u) \in Seq(Tokens) /\ Fragment(u) \in Seq(Tokens) /\ NoHash(Search(u))
         /\ Search(u) \o Fragment(u) = u /\ Len(Search(u)) <= Len(u)
         /\ \A i \in 1..Len(Search(u)) : Search(u)[i] = u[i]
         /\ u # <<>> /\ Word(u, 1) # "#" => Search(u) # <<>>
         /\ Fragment(u) # <<>> => Word(Fragment(u), 1) = "#"
<1>1. HashAt(u) \in SUBSET Nat
  BY DEF HashAt
<1>2. CASE HashAt(u) = {}
  <2>1. Search(u) = u /\ Fragment(u) = <<>>
    BY <1>2 DEF Search, Fragment
  <2>2. u \o <<>> = u
    BY ConcatEmptySeq
  <2>3. NoHash(u)
    BY <1>2 DEF NoHash, HashAt
  <2> QED BY <2>1, <2>2, <2>3
<1>3. CASE HashAt(u) # {}
  <2> DEFINE k == FirstMatch(HashAt(u))
             s == SubSeq(u, 1, k - 1)
             h == SubSeq(u, k, Len(u))
  <2>1. k \in HashAt(u) /\ \A i \in HashAt(u) : k <= i
    BY <1>1, <1>3, FirstMatchIs
  <2>2. k \in 1..Len(u) /\ Word(u, k) = "#"
    BY <2>1 DEF HashAt
  <2>3. Search(u) = s /\ Fragment(u) = h
    BY <1>3 DEF Search, Fragment
  <2> HIDE DEF k
  <2>4. s \in Seq(Tokens) /\ Len(s) = k - 1 /\ \A i \in 1..(k - 1) : s[i] = u[i]
    BY <2>2
  <2>5. h \in Seq(Tokens) /\ Len(h) = Len(u) - k + 1 /\ \A i \in 1..(Len(u) - k + 1) : h[i] = u[k + i - 1]
    BY <2>2
  <2> HIDE DEF s, h
  <2>6. NoHash(s)
    <3> SUFFICES ASSUME NEW i \in DOMAIN s, Word(s, i) = "#" PROVE FALSE
      BY DEF NoHash
    <3>1. i \in 1..(k - 1) /\ s[i] = u[i] /\ i \in DOMAIN u
      BY <2>2, <2>4
    <3>2. i \in HashAt(u)
      BY <3>1 DEF HashAt, Word
    <3> QED BY <2>1, <2>2, <3>1, <3>2
  <2>7. s \o h = u
    <3>1. /\ s \o h \in Seq(Tokens) /\ Len(s \o h) = Len(u)
          /\ \A i \in 1..Len(u) : (s \o h)[i] = IF i <= Len(s) THEN s[i] ELSE h[i - Len(s)]
      <4>1. /\ s \o h \in Seq(Tokens) /\ Len(s \o h) = Len(s) + Len(h)
            /\ \A i \in 1..(Len(s) + Len(h)) : (s \o h)[i] = IF i <= Len(s) THEN s[i] ELSE h[i - Len(s)]
        BY <2>4, <2>5, ConcatIs
      <4>2. Len(s) + Len(h) = Len(u)
        BY <2>2, <2>4, <2>5
      <4> QED BY <4>1, <4>2
    <3> DEFINE c == s \o h
    <3> HIDE DEF c
    <3>2. ASSUME NEW i \in 1..Len(u) PROVE c[i] = u[i]
      <4>1. CASE i <= Len(s)
        BY <2>2, <2>4, <3>1, <4>1 DEF c
      <4>2. CASE ~(i <= Len(s))
        <5>1. i - Len(s) \in 1..(Len(u) - k + 1) /\ k + (i - Len(s)) - 1 = i
          BY <2>2, <2>4, <4>2
        <5>2. c[i] = h[i - Len(s)]
          BY <3>1, <4>2 DEF c
        <5>3. h[i - Len(s)] = u[k + (i - Len(s)) - 1]
          BY <2>5, <5>1
        <5> QED BY <5>1, <5>2, <5>3
      <4> QED BY <4>1, <4>2
    <3>3. c = u
      <4>1. c \in Seq(Tokens) /\ Len(c) = Len(u)
        BY <3>1 DEF c
      <4> QED BY <3>2, <4>1, SeqEqual
    <3> QED BY <3>3 DEF c
  <2>8. u # <<>> /\ Word(u, 1) # "#" => s # <<>>
    BY <2>2, <2>4
  <2>9. Word(h, 1) = "#" /\ k - 1 <= Len(u)
    <3>1. 1 \in 1..(Len(u) - k + 1) /\ k + 1 - 1 = k
      BY <2>2
    <3>2. h[1] = u[k]
      BY <2>5, <3>1
    <3> QED BY <2>2, <3>2 DEF Word
  <2> QED BY <2>2, <2>3, <2>4, <2>5, <2>6, <2>7, <2>8, <2>9
<1> QED BY <1>2, <1>3

\* The halves the page sees make the address, but for an empty fragment
LEMMA TrimmedIs ==
  ASSUME NEW u \in Seq(Tokens)
  PROVE  Search(u) \o Hash(u) = Trimmed(u) /\ (Https(u) => Https(Trimmed(u)))
<1>1. HashAt(u) \in SUBSET Nat /\ \A i \in HashAt(u) : i \in 1..Len(u) /\ Word(u, i) = "#"
  BY DEF HashAt
<1>2. CASE HashAt(u) = {}
  <2>1. Hash(u) = <<>> /\ Search(u) = u /\ Trimmed(u) = u
    BY <1>2 DEF Hash, Fragment, Search, Trimmed
  <2> QED BY <2>1, ConcatEmptySeq
<1>3. CASE HashAt(u) # {}
  <2> DEFINE k == FirstMatch(HashAt(u))
             f == SubSeq(u, k, Len(u))
  <2>1. k \in HashAt(u) /\ \A i \in HashAt(u) : k <= i
    BY <1>1, <1>3, FirstMatchIs
  <2>2. Fragment(u) = f /\ Search(u) = SubSeq(u, 1, k - 1)
    BY <1>3 DEF Fragment, Search
  <2>3. k \in 1..Len(u) /\ Len(u) \in Nat /\ Word(u, k) = "#"
    BY <1>1, <2>1
  <2> HIDE DEF k
  <2>4. Len(f) = Len(u) - k + 1
    BY <2>3
  <2> HIDE DEF f
  <2>5. CASE k = Len(u)
    <3>1. Hash(u) = <<>>
      BY <2>2, <2>3, <2>4, <2>5 DEF Hash
    <3>2. \A i \in HashAt(u) : i = Len(u)
      BY <1>1, <2>1, <2>3, <2>5
    <3>3. HashAt(u) = {Len(u)}
      BY <2>1, <2>5, <3>2
    <3>4. Trimmed(u) = Search(u)
      BY <2>2, <2>5, <3>3 DEF Trimmed
    <3>5. Search(u) \in Seq(Tokens)
      BY HalvesAre
    <3>6. ASSUME Https(u) PROVE Https(Search(u))
      <4>1. k # 1
        BY <2>3, <3>6 DEF Https, Word
      <4>2. Search(u) # <<>> /\ Search(u)[1] = u[1]
        BY <2>2, <2>3, <4>1
      <4> QED BY <3>5, <3>6, <4>2 DEF Https
    <3> QED BY <3>1, <3>4, <3>5, <3>6, ConcatEmptySeq
  <2>6. CASE k # Len(u)
    <3>1. Len(f) # 1
      BY <2>3, <2>4, <2>6
    <3>2. Hash(u) = Fragment(u)
      BY <2>2, <3>1 DEF Hash
    <3>3. HashAt(u) # {Len(u)}
      BY <2>1, <2>6
    <3>4. Trimmed(u) = u
      BY <3>3 DEF Trimmed
    <3> QED BY <3>2, <3>4, HalvesAre
  <2> QED BY <2>5, <2>6
<1> QED BY <1>2, <1>3

\* The parameters the page keeps of an address are ones it would get back
LEMMA ParamsAreReturned ==
  ASSUME NEW u \in Seq(Tokens), u # <<>>, Word(u, 1) = "?", NoHash(u)
  PROVE  Returned(ViewerParams(u))
<1> DEFINE head == IF UrlParam(u) = {} THEN u ELSE SubSeq(u, 1, FirstMatch(UrlParam(u)) - 1)
           m == Len(head)
<1>1. UrlParam(u) \in SUBSET Nat
  BY DEF UrlParam
<1>2. /\ head \in Seq(Tokens) /\ m \in Nat /\ m <= Len(u) /\ \A i \in 1..m : head[i] = u[i]
      /\ \A i \in UrlParam(u) : i > m
  <2>1. CASE UrlParam(u) = {}
    BY <2>1
  <2>2. CASE UrlParam(u) # {}
    <3> DEFINE k == FirstMatch(UrlParam(u))
    <3>1. k \in UrlParam(u) /\ \A i \in UrlParam(u) : k <= i
      BY <1>1, <2>2, FirstMatchIs
    <3>2. k \in 1..(Len(u) - 1)
      BY <3>1 DEF UrlParam
    <3> HIDE DEF k
    <3>3. head = SubSeq(u, 1, k - 1)
      BY <2>2 DEF k
    <3>4. /\ SubSeq(u, 1, k - 1) \in Seq(Tokens) /\ Len(SubSeq(u, 1, k - 1)) = k - 1
          /\ \A i \in 1..(k - 1) : SubSeq(u, 1, k - 1)[i] = u[i]
      BY <3>2
    <3>5. \A i \in UrlParam(u) : i > k - 1
      BY <1>1, <3>1, <3>2
    <3> HIDE DEF head
    <3> QED BY <3>2, <3>3, <3>4, <3>5
  <2> QED BY <2>1, <2>2
<1>3. ViewerParams(u) = IF head # <<>> /\ Word(head, 1) = "?" THEN Tail(head) ELSE head
  BY DEF ViewerParams
<1> HIDE DEF head
<1>4. CASE head = <<>>
  <2>1. ViewerParams(u) = <<>>
    BY <1>3, <1>4
  <2> QED BY <2>1 DEF Returned, NoHash, UrlParam
<1>5. CASE head # <<>>
  <2> DEFINE p == Tail(head)
  <2>1. m >= 1 /\ head[1] = u[1]
    BY <1>2, <1>5
  <2>2. ViewerParams(u) = p
    BY <1>3, <1>5, <2>1 DEF Word
  <2>3. p \in Seq(Tokens) /\ Len(p) = m - 1 /\ \A i \in 1..(m - 1) : p[i] = head[i + 1]
    BY <1>2, <1>5, <2>1
  <2> HIDE DEF p
  <2>4. \A i \in 1..(m - 1) : p[i] = u[i + 1]
    <3> SUFFICES ASSUME NEW i \in 1..(m - 1) PROVE p[i] = u[i + 1]
      OBVIOUS
    <3>1. i + 1 \in 1..m
      BY <1>2
    <3> QED BY <1>2, <2>3, <3>1
  <2>5. NoHash(p)
    <3> SUFFICES ASSUME NEW i \in 1..(m - 1) PROVE Word(p, i) # "#"
      BY <2>3 DEF NoHash
    <3>1. i + 1 \in DOMAIN u /\ Word(p, i) = Word(u, i + 1)
      BY <1>2, <2>4 DEF Word
    <3> QED BY <3>1 DEF NoHash
  <2>6. ASSUME NEW i \in UrlParam(p) PROVE FALSE
    <3>1. i \in 1..(m - 2) /\ Word(p, i) \in {"?", "&"} /\ Word(p, i + 1) = "url="
      <4>1. i \in 1..(Len(p) - 1) /\ Word(p, i) \in {"?", "&"} /\ Word(p, i + 1) = "url="
        BY <2>6 DEF UrlParam
      <4> QED BY <1>2, <2>3, <4>1
    <3>2. /\ i \in 1..(m - 1) /\ i + 1 \in 1..(m - 1) /\ i + 1 \in 1..(Len(u) - 1)
          /\ i + 1 <= m
      BY <1>2, <3>1
    <3>3. Word(u, i + 1) = Word(p, i) /\ Word(u, (i + 1) + 1) = Word(p, i + 1)
      BY <2>4, <3>2 DEF Word
    <3>4. i + 1 \in UrlParam(u)
      BY <3>1, <3>2, <3>3 DEF UrlParam
    <3> QED BY <1>2, <3>2, <3>4
  <2>7. p # <<>> => Word(p, 1) # "url="
    <3> SUFFICES ASSUME p # <<>>, Word(p, 1) = "url=" PROVE FALSE
      OBVIOUS
    <3>1. 1 \in 1..(m - 1) /\ 1 \in 1..(Len(u) - 1) /\ 1 <= m
      BY <1>2, <2>3
    <3>2. Word(u, 1 + 1) = "url="
      BY <2>4, <3>1 DEF Word
    <3>3. 1 \in UrlParam(u)
      BY <3>1, <3>2 DEF UrlParam
    <3> QED BY <1>2, <3>1, <3>3
  <2> QED BY <2>2, <2>3, <2>5, <2>6, <2>7 DEF Returned
<1> QED BY <1>4, <1>5

LEMMA ConcatParts ==
  ASSUME NEW s \in Seq(Tokens), NEW t \in Seq(Tokens)
  PROVE  /\ SubSeq(s \o t, 1, Len(s)) = s
         /\ SubSeq(s \o t, Len(s) + 1, Len(s \o t)) = t
<1> DEFINE u == s \o t
<1>1. /\ u \in Seq(Tokens) /\ Len(u) = Len(s) + Len(t)
      /\ \A i \in 1..(Len(s) + Len(t)) : u[i] = IF i <= Len(s) THEN s[i] ELSE t[i - Len(s)]
  BY ConcatIs
<1> HIDE DEF u
<1>2. SubSeq(u, 1, Len(s)) = s
  <2>1. /\ SubSeq(u, 1, Len(s)) \in Seq(Tokens) /\ Len(SubSeq(u, 1, Len(s))) = Len(s)
        /\ \A i \in 1..Len(s) : SubSeq(u, 1, Len(s))[i] = u[i]
    BY <1>1
  <2>2. \A i \in 1..Len(s) : u[i] = s[i]
    BY <1>1
  <2> QED BY <2>1, <2>2, SeqEqual
<1>3. SubSeq(u, Len(s) + 1, Len(u)) = t
  <2> DEFINE v == SubSeq(u, Len(s) + 1, Len(u))
  <2>1. v \in Seq(Tokens) /\ Len(v) = Len(t) /\ \A i \in 1..Len(t) : v[i] = u[Len(s) + i]
    BY <1>1
  <2> HIDE DEF v
  <2>2. ASSUME NEW i \in 1..Len(t) PROVE v[i] = t[i]
    <3>1. Len(s) + i \in 1..(Len(s) + Len(t)) /\ ~(Len(s) + i <= Len(s)) /\ (Len(s) + i) - Len(s) = i
      OBVIOUS
    <3>2. u[Len(s) + i] = t[i]
      BY <1>1, <3>1
    <3> QED BY <2>1, <3>2
  <2>3. v = t
    BY <2>1, <2>2, SeqEqual
  <2> QED BY <2>3 DEF v
<1> QED BY <1>2, <1>3 DEF u

\* The split at the first "#" is the only one
LEMMA SplitIs ==
  ASSUME NEW s \in Seq(Tokens), NEW h \in Seq(Tokens), NoHash(s), h # <<>> => Word(h, 1) = "#"
  PROVE  Search(s \o h) = s /\ Fragment(s \o h) = h
<1> DEFINE u == s \o h
<1>1. /\ u \in Seq(Tokens) /\ Len(u) = Len(s) + Len(h)
      /\ \A i \in 1..(Len(s) + Len(h)) : u[i] = IF i <= Len(s) THEN s[i] ELSE h[i - Len(s)]
  BY ConcatIs
<1>2. SubSeq(u, 1, Len(s)) = s /\ SubSeq(u, Len(s) + 1, Len(u)) = h
  BY ConcatParts
<1>3. CASE h = <<>>
  <2>1. u = s
    BY <1>3, ConcatEmptySeq
  <2>2. HashAt(s) = {}
    BY DEF HashAt, NoHash
  <2> QED BY <1>3, <2>1, <2>2 DEF Search, Fragment
<1>4. CASE h # <<>>
  <2> HIDE DEF u
  <2> DEFINE k == Len(s) + 1
  <2>1. k \in HashAt(u)
    <3>1. k \in 1..(Len(s) + Len(h)) /\ ~(k <= Len(s)) /\ k - Len(s) = 1
      BY <1>4
    <3>2. u[k] = h[1]
      BY <1>1, <3>1
    <3> QED BY <1>1, <1>4, <3>1, <3>2 DEF HashAt, Word
  <2>2. ASSUME NEW i \in HashAt(u), i < k PROVE FALSE
    <3>1. i \in 1..Len(s) /\ u[i] = s[i] /\ Word(u, i) = "#"
      BY <1>1, <2>2 DEF HashAt
    <3> QED BY <3>1 DEF NoHash, Word
  <2>3. HashAt(u) \in SUBSET Nat
    BY <1>1 DEF HashAt
  <2>4. FirstMatch(HashAt(u)) = k
    <3>1. FirstMatch(HashAt(u)) \in HashAt(u) /\ FirstMatch(HashAt(u)) <= k
      BY <2>1, <2>3, FirstMatchIs
    <3>2. FirstMatch(HashAt(u)) \in Nat /\ k \in Nat
      BY <2>3, <3>1
    <3> HIDE DEF k
    <3> QED BY <2>2, <3>1, <3>2
  <2>5. k - 1 = Len(s)
    OBVIOUS
  <2>6. Search(u) = SubSeq(u, 1, k - 1) /\ Fragment(u) = SubSeq(u, k, Len(u))
    BY <2>1, <2>4 DEF Search, Fragment
  <2>7. Search(u) = s /\ Fragment(u) = h
    BY <1>2, <2>5, <2>6
  <2> QED BY <2>7 DEF u
<1> QED BY <1>3, <1>4

LEMMA PrefixHasNoHash ==
  ASSUME NEW p, Returned(p)
  PROVE  NoHash(Prefix(p))
<1>1. p \in Seq(Tokens)
  BY DEF Returned
<1> SUFFICES ASSUME NEW i \in 1..Len(Prefix(p)) PROVE Word(Prefix(p), i) # "#"
  BY <1>1, PrefixIs DEF NoHash
<1>2. Len(Prefix(p)) = IF p = <<>> THEN 2 ELSE Len(p) + 3
  BY <1>1, PrefixIs
<1>3. CASE i = 1 \/ i = Len(Prefix(p))
  BY <1>1, <1>3, PrefixIs DEF Word
<1>4. CASE p # <<>> /\ i = Len(p) + 2
  BY <1>1, <1>4, PrefixIs DEF Word
<1>5. CASE p # <<>> /\ i \in 2..(Len(p) + 1)
  <2>1. i - 1 \in 1..Len(p) /\ (i - 1) + 1 = i
    BY <1>1, <1>5
  <2>2. Prefix(p)[i] = p[i - 1]
    <3>1. \A j \in 1..Len(p) : Prefix(p)[j + 1] = p[j]
      BY <1>1, <1>5, PrefixIs
    <3> QED BY <2>1, <3>1
  <2>3. Word(p, i - 1) # "#"
    BY <1>1, <2>1 DEF Returned, NoHash
  <2> QED BY <2>2, <2>3 DEF Word
<1>6. CASE p = <<>>
  BY <1>2, <1>3, <1>6
<1>7. CASE p # <<>>
  <2>1. Len(Prefix(p)) = Len(p) + 3
    BY <1>2, <1>7
  <2>2. i = 1 \/ i = Len(Prefix(p)) \/ i = Len(p) + 2 \/ i \in 2..(Len(p) + 1)
    BY <1>1, <2>1
  <2> QED BY <1>3, <1>4, <1>5, <1>7, <2>2
<1> QED BY <1>6, <1>7

\* The halves of a written address
LEMMA WrittenHalves ==
  ASSUME NEW p, Returned(p), NEW t \in Seq(Tokens)
  PROVE  /\ Search(Prefix(p) \o t) = Prefix(p) \o Search(t)
         /\ Fragment(Prefix(p) \o t) = Fragment(t)
<1> DEFINE a == Prefix(p)
           s == Search(t)
           h == Fragment(t)
<1>1. /\ s \in Seq(Tokens) /\ h \in Seq(Tokens) /\ NoHash(s) /\ s \o h = t
      /\ h # <<>> => Word(h, 1) = "#"
  BY HalvesAre
<1>2. a \in Seq(Tokens) /\ NoHash(a)
  BY PrefixIs, PrefixHasNoHash DEF Returned
<1> HIDE DEF a, s, h
<1>3. a \o t = (a \o s) \o h
  <2>0. a \in Seq(Tokens) /\ s \in Seq(Tokens) /\ h \in Seq(Tokens)
    BY <1>1, <1>2
  <2>1. (a \o s) \o h = a \o (s \o h)
    BY ONLY <2>0, ConcatsAssociate
  <2> QED BY <1>1, <2>1, Zenon
<1>4. a \o s \in Seq(Tokens) /\ NoHash(a \o s)
  <2> DEFINE u == a \o s
  <2>1. /\ u \in Seq(Tokens) /\ Len(u) = Len(a) + Len(s)
        /\ \A i \in 1..(Len(a) + Len(s)) : u[i] = IF i <= Len(a) THEN a[i] ELSE s[i - Len(a)]
    BY <1>1, <1>2, ConcatIs
  <2> HIDE DEF u
  <2>2. ASSUME NEW i \in 1..(Len(a) + Len(s)) PROVE Word(u, i) # "#"
    <3>1. CASE i <= Len(a)
      <4>1. i \in DOMAIN a /\ u[i] = a[i]
        BY <1>2, <2>1, <3>1
      <4> QED BY <1>2, <4>1 DEF NoHash, Word
    <3>2. CASE ~(i <= Len(a))
      <4>1. i - Len(a) \in DOMAIN s /\ u[i] = s[i - Len(a)]
        BY <1>1, <1>2, <2>1, <3>2
      <4> QED BY <1>1, <4>1 DEF NoHash, Word
    <3> QED BY <3>1, <3>2
  <2>3. NoHash(u)
    BY <2>1, <2>2 DEF NoHash
  <2> QED BY <2>1, <2>3 DEF u
<1>5. Search((a \o s) \o h) = a \o s /\ Fragment((a \o s) \o h) = h
  BY <1>1, <1>4, SplitIs
<1> QED BY <1>3, <1>5 DEF a, s, h

\* A target that is not percent-encoded comes back as it was written
LEMMA SliceIs ==
  ASSUME NEW p, Returned(p), NEW s \in Seq(Tokens), NEW h, s # <<>>, ~s[1].enc
  PROVE  SliceTarget(Prefix(p) \o s, h) = s \o h
<1> DEFINE u == Prefix(p) \o s
<1>1. UrlParam(u) # {} /\ FirstMatch(UrlParam(u)) = Len(Prefix(p)) - 1
  BY WrittenParam
<1>2. Prefix(p) \in Seq(Tokens) /\ Len(Prefix(p)) \in Nat
  BY PrefixIs DEF Returned
<1>3. SubSeq(u, Len(Prefix(p)) + 1, Len(u)) = s
  BY <1>2, ConcatParts
<1> HIDE DEF u
<1>4. FirstMatch(UrlParam(u)) + 2 = Len(Prefix(p)) + 1
  BY <1>1, <1>2
<1>5. ~EncodedHttp(s)
  BY DEF EncodedHttp
<1>6. SliceTarget(u, h) = s \o h
  BY <1>1, <1>3, <1>4, <1>5 DEF SliceTarget
<1> QED BY <1>6 DEF u

\* What all readers find in a written address
LEMMA ReadBack ==
  ASSUME NEW p, Returned(p), NEW t, Https(t)
  PROVE  LET u == ViewerURLFor(t, p) IN
         /\ u \in Seq(Tokens) /\ u # <<>> /\ Word(u, 1) = "?"
         /\ ViewerTarget(u) = t /\ RawUrlParam(u) = Trimmed(t)
         /\ Https(Trimmed(t)) /\ NormalizeEngineURL(RawUrlParam(u)) = Trimmed(t)
         /\ ViewerParams(Search(u)) = p
<1> DEFINE u == ViewerURLFor(t, p)
<1>1. p \in Seq(Tokens) /\ t \in Seq(Tokens) /\ t # <<>> /\ ~t[1].enc /\ Word(t, 1) = "https:"
  BY DEF Returned, Https, Word
<1>2. u = Prefix(p) \o t /\ u \in Seq(Tokens) /\ u # <<>> /\ Word(u, 1) = "?"
  <2>1. /\ u = Prefix(p) \o t /\ u \in Seq(Tokens) /\ Len(u) = Len(Prefix(p)) + Len(t)
        /\ \A i \in 1..(Len(Prefix(p)) + Len(t)) :
             u[i] = IF i <= Len(Prefix(p)) THEN Prefix(p)[i] ELSE t[i - Len(Prefix(p))]
    BY <1>1, WrittenIs
  <2>2. Len(Prefix(p)) \in Nat /\ Len(Prefix(p)) >= 2 /\ Prefix(p)[1] = [word |-> "?", enc |-> FALSE]
    BY <1>1, PrefixIs
  <2> HIDE DEF u
  <2>3. u[1] = [word |-> "?", enc |-> FALSE] /\ u # <<>>
    BY <1>1, <2>1, <2>2
  <2> QED BY <2>1, <2>3 DEF Word
<1> HIDE DEF u
<1>3. ViewerTarget(u) = t
  <2>1. SliceTarget(u, <<>>) = t \o <<>>
    BY <1>1, <1>2, SliceIs
  <2>2. t \o <<>> = t
    BY <1>1, ConcatEmptySeq
  <2> QED BY <1>2, <2>1, <2>2 DEF ViewerTarget
<1>4. /\ Search(t) \in Seq(Tokens) /\ Search(t) # <<>> /\ Search(t)[1] = t[1]
      /\ Search(t) \o Hash(t) = Trimmed(t) /\ Https(Trimmed(t))
  <2>1. Word(t, 1) # "#"
    BY <1>1
  <2>2. /\ Search(t) \in Seq(Tokens) /\ Search(t) # <<>>
        /\ \A i \in 1..Len(Search(t)) : Search(t)[i] = t[i]
    BY <1>1, <2>1, HalvesAre
  <2> QED BY <1>1, <2>2, TrimmedIs
<1>5. Search(u) = Prefix(p) \o Search(t) /\ Hash(u) = Hash(t)
  BY <1>1, <1>2, WrittenHalves DEF Hash
<1>6. RawUrlParam(u) = Trimmed(t)
  <2>1. SliceTarget(Prefix(p) \o Search(t), Hash(t)) = Search(t) \o Hash(t)
    BY <1>1, <1>4, SliceIs
  <2> QED BY <1>4, <1>5, <2>1 DEF RawUrlParam
<1>7. NormalizeEngineURL(RawUrlParam(u)) = Trimmed(t)
  <2> DEFINE x == Trimmed(t)
  <2>1. Https(x) /\ RawUrlParam(u) = x
    BY <1>4, <1>6
  <2> HIDE DEF x
  <2>2. x # <<>> /\ Word(x, 1) = "https:" /\ x \in Seq(Tokens)
    BY <2>1 DEF Https, Word
  <2>3. NormalizeEngineURL(x) \in {x, NoTarget}
    BY <2>2 DEF NormalizeEngineURL
  <2>4. x # NoTarget => NormalizeEngineURL(x) = x
    BY <2>2 DEF NormalizeEngineURL
  <2> QED BY <2>1, <2>3, <2>4 DEF x
<1>8. ViewerParams(Search(u)) = p
  <2> DEFINE v == Prefix(p) \o Search(t)
             k == Len(Prefix(p)) - 1
  <2>1. UrlParam(v) # {} /\ FirstMatch(UrlParam(v)) = k
    BY <1>4, WrittenParam
  <2>2. /\ v \in Seq(Tokens) /\ Len(v) = Len(Prefix(p)) + Len(Search(t))
        /\ \A i \in 1..(Len(Prefix(p)) + Len(Search(t))) :
             v[i] = IF i <= Len(Prefix(p)) THEN Prefix(p)[i] ELSE Search(t)[i - Len(Prefix(p))]
    BY <1>1, <1>4, PrefixIs, ConcatIs
  <2> HIDE DEF v
  <2> DEFINE head == SubSeq(v, 1, k - 1)
  <2>3. Len(Prefix(p)) \in Nat /\ Len(Prefix(p)) >= 2 /\ Prefix(p)[1] = [word |-> "?", enc |-> FALSE]
    BY <1>1, PrefixIs
  <2>4. /\ head \in Seq(Tokens) /\ Len(head) = Len(Prefix(p)) - 2
        /\ \A i \in 1..(Len(Prefix(p)) - 2) : head[i] = Prefix(p)[i]
    <3>1. k - 1 \in Nat /\ k - 1 = Len(Prefix(p)) - 2 /\ k - 1 <= Len(v)
      BY <1>4, <2>2, <2>3
    <3>2. head \in Seq(Tokens) /\ Len(head) = k - 1 /\ \A i \in 1..(k - 1) : head[i] = v[i]
      BY <2>2, <3>1
    <3> HIDE DEF head
    <3>3. \A i \in 1..(k - 1) : v[i] = Prefix(p)[i]
      BY <1>4, <2>2, <2>3
    <3> QED BY <3>1, <3>2, <3>3
  <2> HIDE DEF head
  <2>5. ViewerParams(v) = IF head # <<>> /\ Word(head, 1) = "?" THEN Tail(head) ELSE head
    BY <2>1 DEF ViewerParams, head
  <2>6. Len(Prefix(p)) = IF p = <<>> THEN 2 ELSE Len(p) + 3
    BY <1>1, PrefixIs
  <2>7. CASE p = <<>>
    <3>1. Len(head) = 0
      BY <2>4, <2>6, <2>7
    <3>2. head = <<>>
      BY <2>4, <3>1
    <3> QED BY <1>5, <2>5, <2>7, <3>2 DEF v
  <2>8. CASE p # <<>>
    <3>1. Len(head) = Len(p) + 1 /\ Len(Prefix(p)) - 2 = Len(p) + 1
      BY <1>1, <2>4, <2>6, <2>8
    <3>2. head # <<>> /\ head[1] = [word |-> "?", enc |-> FALSE]
      BY <1>1, <2>3, <2>4, <3>1
    <3>3. ViewerParams(v) = Tail(head)
      BY <2>5, <3>2 DEF Word
    <3>4. /\ Tail(head) \in Seq(Tokens) /\ Len(Tail(head)) = Len(p)
          /\ \A i \in 1..Len(p) : Tail(head)[i] = head[i + 1]
      BY <1>1, <2>4, <3>1, <3>2
    <3>5. ASSUME NEW i \in 1..Len(p) PROVE Tail(head)[i] = p[i]
      <4>1. i + 1 \in 1..(Len(Prefix(p)) - 2)
        BY <1>1, <3>1
      <4>2. \A j \in 1..Len(p) : Prefix(p)[j + 1] = p[j]
        BY <1>1, <2>8, PrefixIs
      <4> QED BY <2>4, <3>4, <4>1, <4>2
    <3>6. Tail(head) = p
      BY <1>1, <3>4, <3>5, SeqEqual
    <3> QED BY <1>5, <3>3, <3>6 DEF v
  <2> QED BY <2>7, <2>8
<1> QED BY <1>2, <1>3, <1>4, <1>6, <1>7, <1>8 DEF u

LEMMA PageIs ==
  ASSUME NEW web \in Pages
  PROVE  Https(Plain(web))
<1>1. web \in Seq(Words) /\ web # <<>> /\ web[1] = "https:"
  BY PagesAssumption, StringsAreWords, Zenon
<1>2. 1 \in 1..Len(web)
  BY <1>1
<1> QED BY <1>1, <1>2, PlainIs DEF Https

LEMMA ViewerParamsAreReturned ==
  ASSUME NEW u \in Seq(Tokens), IsViewer(u)
  PROVE  Returned(ViewerParams(Search(u)))
<1>1. u # <<>> /\ Word(u, 1) = "?"
  BY DEF IsViewer
<1>2. /\ Search(u) \in Seq(Tokens) /\ Search(u) # <<>> /\ NoHash(Search(u))
      /\ \A i \in 1..Len(Search(u)) : Search(u)[i] = u[i]
  BY <1>1, HalvesAre
<1>3. Word(Search(u), 1) = "?"
  <2>1. 1 \in 1..Len(Search(u))
    BY <1>2
  <2> QED BY <1>1, <1>2, <2>1 DEF Word
<1> QED BY <1>2, <1>3, ParamsAreReturned

LEMMA RedirectStep ==
  ASSUME NEW web \in Pages, RedirectTo(web)
  PROVE  UrlInv'
<1> DEFINE t == Plain(web)
<1>1. Https(t)
  BY PageIs
<1>2. Returned(<<>>)
  BY DEF Returned, NoHash, UrlParam
<1>3. /\ address' = ViewerURLFor(t, <<>>) /\ canonical' = TRUE
      /\ own' = ViewerParams(Search(address')) /\ shown' = NormalizeEngineURL(RawUrlParam(address'))
  BY DEF RedirectTo, Boot
<1> HIDE DEF t
<1>4. address' \in Seq(Tokens) /\ own' = <<>> /\ shown' = Trimmed(t)
  BY <1>1, <1>2, <1>3, ReadBack
<1> QED BY <1>1, <1>2, <1>3, <1>4 DEF UrlInv

LEMMA HandStep ==
  ASSUME NEW words \in OwnParams, NEW web \in Seq(Words), NEW encode \in BOOLEAN,
         OpenByHand(words, web, encode)
  PROVE  UrlInv'
<1> DEFINE t == [i \in DOMAIN web |-> [word |-> web[i], enc |-> encode]]
           p == Plain(words)
<1>1. t \in Seq(Tokens)
  <2>1. \A i \in 1..Len(web) : [word |-> web[i], enc |-> encode] \in Tokens
    BY DEF Tokens
  <2> QED BY <2>1
<1>2. p \in Seq(Tokens)
  <2>1. words \in Seq(Words)
    BY PagesAssumption, StringsAreWords, Zenon
  <2> QED BY <2>1, PlainIs
<1>3. /\ address' = ViewerURLFor(t, p) /\ canonical' = FALSE /\ own' = ViewerParams(Search(address'))
  BY DEF OpenByHand, Boot
<1> HIDE DEF t, p
<1>4. address' \in Seq(Tokens) /\ IsViewer(address')
  <2>1. /\ Prefix(p) \in Seq(Tokens) /\ Len(Prefix(p)) \in Nat /\ Len(Prefix(p)) >= 2
        /\ Prefix(p)[1] = [word |-> "?", enc |-> FALSE]
    BY <1>2, PrefixIs
  <2>2. /\ address' \in Seq(Tokens) /\ Len(address') = Len(Prefix(p)) + Len(t)
        /\ \A i \in 1..(Len(Prefix(p)) + Len(t)) :
             address'[i] = IF i <= Len(Prefix(p)) THEN Prefix(p)[i] ELSE t[i - Len(Prefix(p))]
    BY <1>1, <1>2, <1>3, WrittenIs
  <2>3. address' # <<>> /\ address'[1] = Prefix(p)[1]
    BY <1>1, <2>1, <2>2
  <2> QED BY <2>1, <2>2, <2>3 DEF IsViewer, Word
<1>5. Returned(own')
  BY <1>3, <1>4, ViewerParamsAreReturned
<1> QED BY <1>3, <1>4, <1>5 DEF UrlInv

LEMMA SignalStep ==
  ASSUME UrlInv, NEW web \in Pages, UrlSignal(web)
  PROVE  UrlInv'
<1>1. Https(shown') /\ Returned(own) /\ own' = own /\ address' = ViewerURLFor(shown', own)
  BY PageIs DEF UrlInv, UrlSignal
<1>2. address' \in Seq(Tokens)
  BY <1>1, ReadBack
<1> QED BY <1>1, <1>2 DEF UrlInv

LEMMA ReloadStep ==
  ASSUME UrlInv, IsViewer(address), ReloadPage
  PROVE  UrlInv'
<1>1. /\ address' = address /\ canonical' = canonical /\ own' = ViewerParams(Search(address))
      /\ shown' = NormalizeEngineURL(RawUrlParam(address)) /\ address \in Seq(Tokens)
  BY DEF UrlInv, ReloadPage, Boot
<1>2. Returned(own')
  BY <1>1, ViewerParamsAreReturned
<1>3. ASSUME canonical
      PROVE  \E t : Https(t) /\ address' = ViewerURLFor(t, own') /\ shown' \in {t, Trimmed(t)}
  <2>1. PICK t : Https(t) /\ address = ViewerURLFor(t, own)
    BY <1>3 DEF UrlInv
  <2>2. own' = own /\ shown' = Trimmed(t)
    BY <1>1, <2>1, ReadBack DEF UrlInv
  <2> QED BY <1>1, <2>1, <2>2
<1> QED BY <1>1, <1>2, <1>3 DEF UrlInv

\* Whatever address is read whole, what is read is an address
LEMMA TargetIs ==
  ASSUME NEW u \in Seq(Tokens)
  PROVE  ViewerTarget(u) \in Seq(Tokens) \cup {NoTarget}
<1> DEFINE k == FirstMatch(UrlParam(u)) + 2
           query == SubSeq(u, k, Len(u))
<1>1. UrlParam(u) \in SUBSET Nat
  BY DEF UrlParam
<1>2. CASE UrlParam(u) = {}
  BY <1>2 DEF ViewerTarget, SliceTarget
<1>3. CASE UrlParam(u) # {}
  <2>1. FirstMatch(UrlParam(u)) \in UrlParam(u)
    BY <1>1, <1>3, FirstMatchIs
  <2>2. k \in 2..(Len(u) + 1)
    BY <2>1 DEF UrlParam
  <2> HIDE DEF k
  <2>3. query \in Seq(Tokens)
    BY <2>2
  <2>4. Decoded(query) \in Seq(Tokens)
    <3> HIDE DEF query
    <3>1. ASSUME NEW i \in 1..Len(query) PROVE [query[i] EXCEPT !.enc = FALSE] \in Tokens
      <4>1. query[i] \in Tokens
        BY <2>3
      <4> QED BY <4>1 DEF Tokens
    <3>2. Decoded(query) = [i \in 1..Len(query) |-> [query[i] EXCEPT !.enc = FALSE]]
      BY <2>3 DEF Decoded
    <3> QED BY <2>3, <3>1, <3>2
  <2>5. query \o <<>> = query
    BY <2>3, ConcatEmptySeq
  <2>6. SliceTarget(u, <<>>) \in {query \o <<>>, Decoded(query), query}
    BY <1>3 DEF SliceTarget, k
  <2> HIDE DEF query
  <2> QED BY <2>3, <2>4, <2>5, <2>6 DEF ViewerTarget
<1> QED BY <1>2, <1>3

LEMMA NativeStep ==
  ASSUME UrlInv, HandNatively
  PROVE  UrlInv'
<1>1. ViewerTarget(address) # NoTarget
  BY DEF HandNatively, NormalizeEngineURL
<1>2. ViewerTarget(address) \in Seq(Tokens)
  BY <1>1, TargetIs DEF UrlInv
<1> QED BY <1>2 DEF UrlInv, HandNatively

LEMMA FragmentStep ==
  ASSUME UrlInv, NEW words \in Seq(Words), EditFragment(words)
  PROVE  UrlInv'
<1> DEFINE h == Plain(<<"#">> \o words)
<1>1. h \in Seq(Tokens)
  <2>1. <<"#">> \o words \in Seq(Words)
    <3>1. "#" \in Words
      BY DEF Words
    <3> QED BY <3>1
  <2> QED BY <2>1, PlainIs
<1> HIDE DEF h
<1>2. /\ address' = Search(address) \o h /\ own' = own /\ canonical' = canonical
      /\ shown' = NormalizeEngineURL(RawUrlParam(address'))
      /\ address \in Seq(Tokens) /\ Returned(own)
  BY DEF UrlInv, EditFragment, h
<1>3. address' \in Seq(Tokens)
  <2>1. Search(address) \in Seq(Tokens)
    BY <1>2, HalvesAre
  <2> QED BY <1>1, <1>2, <2>1, ConcatIs
<1>4. ASSUME canonical
      PROVE  \E t : Https(t) /\ address' = ViewerURLFor(t, own) /\ shown' \in {t, Trimmed(t)}
  <2>0. PICK t : Https(t) /\ address = ViewerURLFor(t, own)
    BY <1>4 DEF UrlInv
  <2> DEFINE s == Search(t) \o h
  <2>1. Https(t) /\ address = ViewerURLFor(t, own) /\ t \in Seq(Tokens) /\ own \in Seq(Tokens)
    BY <1>4, <2>0 DEF UrlInv, Https, Returned
  <2>2. /\ Search(t) \in Seq(Tokens) /\ Search(t) # <<>>
        /\ \A i \in 1..Len(Search(t)) : Search(t)[i] = t[i]
    <3>1. t # <<>> /\ Word(t, 1) # "#"
      BY <2>1 DEF Https, Word
    <3> QED BY <2>1, <3>1, HalvesAre
  <2>3. Https(s)
    <3>1. /\ s \in Seq(Tokens) /\ Len(s) = Len(Search(t)) + Len(h)
          /\ \A i \in 1..(Len(Search(t)) + Len(h)) :
               s[i] = IF i <= Len(Search(t)) THEN Search(t)[i] ELSE h[i - Len(Search(t))]
      BY <1>1, <2>2, ConcatIs
    <3> HIDE DEF s
    <3>2. Len(Search(t)) \in Nat /\ Len(Search(t)) >= 1 /\ Search(t)[1] = t[1] /\ Len(h) \in Nat
      BY <1>1, <2>2
    <3>3. s # <<>> /\ s[1] = t[1]
      BY <3>1, <3>2
    <3> QED BY <2>1, <3>1, <3>3 DEF Https
  <2>4. address' = ViewerURLFor(s, own)
    <3>1. address = Prefix(own) \o t /\ Prefix(own) \in Seq(Tokens)
      BY <2>1, WrittenIs, PrefixIs
    <3>2. Search(address) = Prefix(own) \o Search(t)
      BY <1>2, <2>1, <3>1, WrittenHalves
    <3>3. (Prefix(own) \o Search(t)) \o h = Prefix(own) \o s
      BY <1>1, <2>2, <3>1, ConcatsAssociate
    <3>4. ViewerURLFor(s, own) = Prefix(own) \o s
      <4>1. s \in Seq(Tokens)
        BY <2>3 DEF Https
      <4> HIDE DEF s
      <4> QED BY <2>1, <4>1, WrittenIs
    <3> HIDE DEF s
    <3> QED BY <1>2, <3>2, <3>3, <3>4, Zenon
  <2> HIDE DEF s
  <2>5. shown' = Trimmed(s)
    BY <1>2, <2>3, <2>4, ReadBack
  <2> QED BY <2>3, <2>4, <2>5
<1> QED BY <1>2, <1>3, <1>4 DEF UrlInv

LEMMA UrlStep ==
  ASSUME UrlInv, [UrlNext]_urlVars
  PROVE  UrlInv'
<1>1. ASSUME NEW web \in Pages, RedirectTo(web) PROVE UrlInv'
  BY <1>1, RedirectStep
<1>2. ASSUME NEW web \in Pages, UrlSignal(web) PROVE UrlInv'
  BY <1>2, SignalStep
<1>3. ASSUME NEW words \in OwnParams, NEW encode \in BOOLEAN,
             NEW web \in Pages \cup {<<"file:", "x">>, <<"host", "?", "x">>, <<"https:", "bad escape">>},
             OpenByHand(words, web, encode)
      PROVE  UrlInv'
  <2>1. "file:" \in Words /\ "x" \in Words /\ "host" \in Words /\ "?" \in Words
        /\ "https:" \in Words /\ "bad escape" \in Words
    BY DEF Words
  <2>2. \A q \in Pages : q \in Seq(Words)
    BY PagesAssumption, StringsAreWords, Zenon
  <2>3. /\ <<"file:", "x">> \in Seq(Words) /\ <<"host", "?", "x">> \in Seq(Words)
        /\ <<"https:", "bad escape">> \in Seq(Words)
    BY <2>1, ShortSeqs, Zenon
  <2>4. web \in Seq(Words)
    BY <2>2, <2>3, Zenon
  <2> QED BY <1>3, <2>4, HandStep
<1>4. CASE IsViewer(address) /\ ReloadPage
  BY <1>4, ReloadStep
<1>5. CASE HandNatively
  BY <1>5, NativeStep
<1>6. ASSUME NEW words \in {<<>>, <<"x">>, <<"?", "url=", "x">>}, EditFragment(words) PROVE UrlInv'
  <2>1. "x" \in Words /\ "?" \in Words /\ "url=" \in Words
    BY DEF Words
  <2>2. words \in Seq(Words)
    <3>1. CASE words = <<>>
      BY <3>1
    <3>2. CASE words = <<"x">>
      BY <2>1, <3>2
    <3>3. CASE words = <<"?", "url=", "x">>
      BY <2>1, <3>3
    <3> QED BY <3>1, <3>2, <3>3
  <2> QED BY <1>6, <2>2, FragmentStep
<1>7. CASE UNCHANGED urlVars
  BY <1>7 DEF urlVars, UrlInv
<1> QED BY <1>1, <1>2, <1>3, <1>4, <1>5, <1>6, <1>7 DEF UrlNext

\* For any pages and parameters: of an address our code wrote every reader (viewerTarget whole,
\* rawUrlParam and ownParams from its two halves) reads what was written, whatever the target's
\* own query and fragment look like, and through any reloads and edited fragments; of a fragment
\* that is empty (a "#" at the end) only viewerTarget knows.
THEOREM AllReadersAgree == UrlSpec => []ReadersAgree
<1>1. UrlInit => UrlInv
  BY DEF UrlInit, UrlInv, Returned, NoHash, UrlParam
<1>2. UrlInv /\ [UrlNext]_urlVars => UrlInv'
  BY UrlStep
<1>3. UrlInv => ReadersAgree
  <2> SUFFICES ASSUME UrlInv, canonical PROVE ReadersAgree
    BY DEF ReadersAgree
  <2>1. PICK t : Https(t) /\ address = ViewerURLFor(t, own) /\ shown \in {t, Trimmed(t)}
    BY DEF UrlInv
  <2>2. /\ ViewerTarget(address) = t /\ RawUrlParam(address) = Trimmed(t)
        /\ ViewerParams(Search(address)) = own
    BY <2>1, ReadBack DEF UrlInv
  <2> QED BY <2>1, <2>2 DEF ReadersAgree
<1> QED BY <1>1, <1>2, <1>3, PTL DEF UrlSpec

-----------------------------------------------------------------------------
(* Bench: what of a step's inputs the guest, and the frame in flight, have. *)

\* No tail of the codes is invisible: whatever is still missing changes the colour.
Shown(codes) == \A k \in 0..(Len(codes) - 1) : (SumTo(codes, Len(codes)) - SumTo(codes, k)) % 256 # 0
Burst == [i \in 1..KeyCount |-> BurstChar(i - 1)]

Fixtures == [inputs : Seq([zone : Zones, code : Nat]), total : [Zones -> Nat], handled : Nat]
BenchTypes == /\ expected \in [Zones -> 0..255] /\ plan \in Seq([zone : Zones, codes : Seq(Nat)])
              /\ \A i \in DOMAIN plan : Shown(plan[i].codes)
              /\ guest \in Fixtures /\ fired \in Nat
              /\ screen \in [shows : BOOLEAN, total : [Zones -> Nat], handled : Nat]

\* The fixture, or a frame of it, has k inputs of the step, on top of the totals base.
HasOf(it, base, k) == /\ it.handled = fired - Len(Step.codes) + k
                      /\ it.total = [base EXCEPT ![Step.zone] = @ + SumTo(Step.codes, k)]

\* Between two steps everything has been handled, and is shown.
AtRest == /\ guest.inputs = <<>> /\ guest.handled = fired /\ measured = fired
          /\ \A z \in Zones : expected[z] = Colour(guest.total[z])
          /\ screen.shows => screen.handled = fired /\ screen.total = guest.total
\* In a step the guest has its first k inputs, and the frame in flight not more.
InStep == /\ plan # <<>>
          /\ watch = [zone |-> Step.zone, want |-> After(Step.zone, Step.codes)]
          /\ \E base \in [Zones -> Nat], k \in 0..Len(Step.codes) :
               /\ \A z \in Zones : expected[z] = Colour(base[z])
               /\ HasOf(guest, base, k)
               /\ guest.inputs = [i \in 1..(Len(Step.codes) - k) |->
                                    [zone |-> Step.zone, code |-> Step.codes[i + k]]]
               /\ screen.shows => \E j \in 0..k : HasOf(screen, base, j)
BenchInv == BenchTypes /\ IF watch = Unwatched THEN AtRest ELSE InStep
\* Once a watch has timed out the page is ahead of the harness.
UpToDate == invalid \in Nat /\ (invalid = 0 => BenchInv)

LEMMA FirstOfSeq ==
  ASSUME NEW S, NEW s \in Seq(S), s # <<>>
  PROVE  Head(s) = s[1] /\ 1 \in DOMAIN s /\ Head(s) \in S /\ Tail(s) \in Seq(S)
BY HeadTailProperties

LEMMA Counting ==
  ASSUME NEW T \in SUBSET Nat, 0 \in T, \A n \in T : n + 1 \in T
  PROVE  T = Nat
<1>1. IsWellFoundedOn(OpToRel(<, Nat), Nat)
  BY NatLessThanWellFounded
<1>2. SUFFICES ASSUME Nat \ T # {} PROVE FALSE
  OBVIOUS
<1>3. PICK n \in Nat \ T : \A m \in Nat \ T : <<m, n>> \notin OpToRel(<, Nat)
  <2>1. Nat \ T \subseteq Nat
    OBVIOUS
  <2> QED BY <1>1, <1>2, <2>1, WFMin
<1>4. \A m \in Nat \ T : ~(m < n)
  BY <1>3 DEF OpToRel
<1>5. n \in Nat /\ n # 0 /\ n \notin T
  BY <1>3
<1>6. n - 1 \in Nat /\ n - 1 < n /\ (n - 1) + 1 = n
  BY <1>5
<1> QED BY <1>4, <1>5, <1>6

SumsOf(f, codes, n) == f = [i \in 0..n |-> IF i = 0 THEN 0 ELSE f[i - 1] + codes[i]]

LEMMA SumsAre ==
  ASSUME NEW codes
  PROVE  /\ SumTo(codes, 0) = 0
         /\ \A n \in Nat : SumTo(codes, n + 1) = SumTo(codes, n) + codes[n + 1]
<1> DEFINE T == {n \in Nat : \E f : SumsOf(f, codes, n)}
<1>1. 0 \in T
  <2>1. SumsOf([i \in 0..0 |-> 0], codes, 0)
    BY DEF SumsOf
  <2> QED BY <2>1
<1>2. ASSUME NEW n \in T PROVE n + 1 \in T
  <2>1. PICK f : SumsOf(f, codes, n)
    OBVIOUS
  <2> DEFINE g == [i \in 0..(n + 1) |-> IF i = n + 1 THEN f[n] + codes[n + 1] ELSE f[i]]
  <2>2. ASSUME NEW i \in 0..(n + 1) PROVE g[i] = IF i = 0 THEN 0 ELSE g[i - 1] + codes[i]
    <3>1. CASE i = n + 1
      BY <3>1
    <3>2. CASE i \in 0..n
      <4>1. f[i] = IF i = 0 THEN 0 ELSE f[i - 1] + codes[i]
        BY <2>1, <3>2 DEF SumsOf
      <4> QED BY <3>2, <4>1
    <3> QED BY <3>1, <3>2
  <2>3. SumsOf(g, codes, n + 1)
    BY <2>2 DEF SumsOf
  <2> HIDE DEF g
  <2> QED BY <2>3
<1> HIDE DEF T
<1>3. T = Nat
  BY <1>1, <1>2, Counting DEF T
<1>4. ASSUME NEW n \in Nat
      PROVE  \E f : SumsOf(f, codes, n) /\ SumTo(codes, n) = f[n]
  <2> DEFINE f == CHOOSE g : SumsOf(g, codes, n)
  <2>1. SumsOf(f, codes, n)
    BY <1>3 DEF T
  <2>2. SumTo(codes, n) = f[n]
    BY DEF SumTo, SumsOf
  <2> HIDE DEF f
  <2> QED BY <2>1, <2>2
<1>5. SumTo(codes, 0) = 0
  BY <1>4 DEF SumsOf
<1>6. ASSUME NEW n \in Nat PROVE SumTo(codes, n + 1) = SumTo(codes, n) + codes[n + 1]
  <2>1. PICK f : SumsOf(f, codes, n) /\ SumTo(codes, n) = f[n]
    BY <1>4
  <2>2. PICK g : SumsOf(g, codes, n + 1) /\ SumTo(codes, n + 1) = g[n + 1]
    BY <1>4
  <2> DEFINE U == {i \in Nat : i <= n => f[i] = g[i]}
  <2>3. 0 \in U
    BY <2>1, <2>2 DEF SumsOf
  <2>4. ASSUME NEW i \in U PROVE i + 1 \in U
    <3>1. CASE i + 1 <= n
      <4>1. i + 1 \in 0..n /\ i + 1 \in 0..(n + 1) /\ i + 1 # 0 /\ (i + 1) - 1 = i
        BY <3>1
      <4>2. f[i + 1] = f[i] + codes[i + 1] /\ g[i + 1] = g[i] + codes[i + 1]
        BY <2>1, <2>2, <4>1 DEF SumsOf
      <4> QED BY <3>1, <4>2
    <3> QED BY <3>1
  <2> HIDE DEF U
  <2>5. U = Nat
    BY <2>3, <2>4, Counting DEF U
  <2>6. f[n] = g[n]
    BY <2>5 DEF U
  <2>7. n + 1 \in 0..(n + 1) /\ n + 1 # 0 /\ (n + 1) - 1 = n
    OBVIOUS
  <2>8. g[n + 1] = g[n] + codes[n + 1]
    BY <2>2, <2>7 DEF SumsOf
  <2> QED BY <2>1, <2>2, <2>6, <2>8
<1> QED BY <1>5, <1>6

LEMMA SumsAreNat ==
  ASSUME NEW codes \in Seq(Nat)
  PROVE  \A k \in 0..Len(codes) : SumTo(codes, k) \in Nat
<1> DEFINE T == {k \in Nat : k <= Len(codes) => SumTo(codes, k) \in Nat}
<1>1. 0 \in T
  BY SumsAre
<1>2. ASSUME NEW k \in T PROVE k + 1 \in T
  <2>1. CASE k + 1 <= Len(codes)
    <3>1. k + 1 \in 1..Len(codes) /\ codes[k + 1] \in Nat /\ SumTo(codes, k) \in Nat
      BY <2>1
    <3>2. SumTo(codes, k + 1) = SumTo(codes, k) + codes[k + 1]
      BY SumsAre
    <3> QED BY <3>1, <3>2
  <2> QED BY <2>1
<1> HIDE DEF T
<1>3. T = Nat
  BY <1>1, <1>2, Counting DEF T
<1> QED BY <1>3 DEF T

-----------------------------------------------------------------------------
(* Bench: the steps of a rep.                                              *)

LEMMA OneCodeShows ==
  ASSUME NEW c \in Nat, c % 256 # 0
  PROVE  <<c>> \in Seq(Nat) /\ Shown(<<c>>)
<1>1. SumTo(<<c>>, 0) = 0 /\ SumTo(<<c>>, 1) = c
  <2>1. SumTo(<<c>>, 0) = 0 /\ SumTo(<<c>>, 0 + 1) = SumTo(<<c>>, 0) + <<c>>[0 + 1]
    BY SumsAre
  <2>2. 0 + 1 = 1 /\ <<c>>[1] = c
    OBVIOUS
  <2> QED BY <2>1, <2>2
<1>2. Len(<<c>>) = 1 /\ 0..(1 - 1) = {0} /\ c - 0 = c
  OBVIOUS
<1> QED BY <1>1, <1>2 DEF Shown

LEMMA RepShows ==
  ASSUME Shown(Burst)
  PROVE  /\ InputRep \in Seq([zone : Zones, codes : Seq(Nat)])
         /\ \A i \in DOMAIN InputRep : Shown(InputRep[i].codes)
<1> DEFINE S == {s \in [zone : Zones, codes : Seq(Nat)] : Shown(s.codes)}
           a == [i \in 1..Clicks |-> [zone |-> "click", codes |-> <<1>>]]
           b == [i \in 1..KeyCount |-> [zone |-> "sum", codes |-> <<Char(i - 1)>>]]
           c == <<[zone |-> "sum", codes |-> [i \in 1..KeyCount |-> BurstChar(i - 1)]]>>
<1>0. Clicks \in Nat /\ KeyCount \in Nat
  BY BenchAssumption
<1>1. a \in Seq(S)
  <2>1. <<1>> \in Seq(Nat) /\ Shown(<<1>>)
    BY OneCodeShows
  <2>2. [zone |-> "click", codes |-> <<1>>] \in S
    BY <2>1 DEF Zones
  <2> HIDE DEF S
  <2> QED BY <1>0, <2>2
<1>2. b \in Seq(S)
  <2>1. ASSUME NEW i \in 1..KeyCount PROVE <<Char(i - 1)>> \in Seq(Nat) /\ Shown(<<Char(i - 1)>>)
    <3>1. Char(i - 1) \in Nat /\ Char(i - 1) % 256 # 0
      BY <1>0 DEF Char
    <3> QED BY <3>1, OneCodeShows
  <2>2. ASSUME NEW i \in 1..KeyCount PROVE [zone |-> "sum", codes |-> <<Char(i - 1)>>] \in S
    BY <2>1, <2>2 DEF Zones
  <2> HIDE DEF S
  <2> QED BY <1>0, <2>2
<1>3. c \in Seq(S)
  <2>1. Burst \in Seq(Nat)
    <3>1. \A i \in 1..KeyCount : BurstChar(i - 1) \in Nat
      BY <1>0 DEF BurstChar
    <3> QED BY <1>0, <3>1 DEF Burst
  <2>2. [zone |-> "sum", codes |-> Burst] \in S
    BY <2>1 DEF Zones
  <2> QED BY <2>2 DEF Burst
<1> HIDE DEF S, a, b, c
<1>4. InputRep \in Seq(S)
  <2>1. InputRep = a \o b \o c
    BY DEF InputRep, a, b, c
  <2> QED BY <1>1, <1>2, <1>3, <2>1
<1>5. \A i \in DOMAIN InputRep : InputRep[i] \in S
  BY <1>4
<1>6. S \subseteq [zone : Zones, codes : Seq(Nat)] /\ \A s \in S : Shown(s.codes)
  BY DEF S
<1>7. InputRep \in Seq([zone : Zones, codes : Seq(Nat)])
  BY <1>4, <1>6, LargerSeq
<1> QED BY <1>5, <1>6, <1>7

\* The step at hand.
LEMMA StepIs ==
  ASSUME BenchTypes, plan # <<>>
  PROVE  /\ Step.zone \in Zones /\ Step.codes \in Seq(Nat) /\ Len(Step.codes) \in Nat
         /\ Shown(Step.codes)
         /\ Tail(plan) \in Seq([zone : Zones, codes : Seq(Nat)])
         /\ \A i \in DOMAIN Tail(plan) : Shown(Tail(plan)[i].codes)
<1>1. plan \in Seq([zone : Zones, codes : Seq(Nat)])
  BY DEF BenchTypes
<1>2. Step = plan[1] /\ 1 \in DOMAIN plan /\ Step \in [zone : Zones, codes : Seq(Nat)]
  BY <1>1, FirstOfSeq DEF Step
<1>3. \A i \in DOMAIN Tail(plan) : i + 1 \in DOMAIN plan /\ Tail(plan)[i] = plan[i + 1]
  BY <1>1
<1>4. Tail(plan) \in Seq([zone : Zones, codes : Seq(Nat)])
  BY <1>1
<1> QED BY <1>1, <1>2, <1>3, <1>4 DEF BenchTypes

LEMMA RepStep == ASSUME Shown(Burst), BenchInv, NextRep PROVE BenchInv'
<1>1. /\ plan = <<>> /\ plan' = InputRep
      /\ UNCHANGED <<expected, watch, guest, screen, fired, measured, invalid>>
  BY DEF NextRep
<1>2. BenchTypes'
  BY <1>1, RepShows DEF BenchInv, BenchTypes
<1>3. watch = Unwatched /\ AtRest
  BY <1>1 DEF BenchInv, InStep
<1> QED BY <1>1, <1>2, <1>3 DEF BenchInv, AtRest

LEMMA AwaitStep == ASSUME BenchInv, AwaitPixel PROVE BenchInv'
<1> DEFINE z == Step.zone
           cs == Step.codes
           n == Len(Step.codes)
           more == [i \in DOMAIN Step.codes |-> [zone |-> Step.zone, code |-> Step.codes[i]]]
<1>1. /\ plan # <<>> /\ watch = Unwatched
      /\ watch' = [zone |-> z, want |-> After(z, cs)]
      /\ guest' = [guest EXCEPT !.inputs = @ \o more]
      /\ fired' = fired + n
      /\ UNCHANGED <<expected, plan, screen, measured, invalid>>
  BY DEF AwaitPixel
<1>2. z \in Zones /\ cs \in Seq(Nat) /\ n \in Nat
  BY <1>1, StepIs DEF BenchInv
<1>3. more \in Seq([zone : Zones, code : Nat]) /\ more = [i \in 1..n |-> [zone |-> z, code |-> cs[i]]]
  <2>1. DOMAIN cs = 1..n /\ \A i \in 1..n : cs[i] \in Nat
    BY <1>2
  <2>2. more = [i \in 1..n |-> [zone |-> z, code |-> cs[i]]]
    BY <2>1
  <2> QED BY <1>2, <2>1, <2>2
<1>4. guest \in Fixtures /\ fired \in Nat
  BY DEF BenchInv, BenchTypes
<1>5. /\ guest'.inputs = guest.inputs \o more /\ guest'.total = guest.total
      /\ guest'.handled = guest.handled /\ guest' \in Fixtures
  <2> HIDE DEF more
  <2>1. guest.inputs \o more \in Seq([zone : Zones, code : Nat])
    BY <1>3, <1>4 DEF Fixtures
  <2>2. guest' = [inputs |-> guest.inputs \o more, total |-> guest.total, handled |-> guest.handled]
    BY <1>1, <1>4 DEF Fixtures
  <2> QED BY <1>4, <2>1, <2>2 DEF Fixtures
<1>6. BenchTypes'
  <2>1. fired' \in Nat
    BY <1>1, <1>2, <1>4
  <2> QED BY <1>1, <1>5, <2>1 DEF BenchInv, BenchTypes
<1>7. Step' = Step /\ watch' # Unwatched
  BY <1>1, <1>2 DEF Step, Unwatched, Zones
<1>8. InStep'
  <2>1. AtRest
    BY <1>1 DEF BenchInv
  <2>2. SumTo(cs, 0) = 0
    BY SumsAre
  <2>3. PICK base \in [Zones -> Nat] : base = guest.total
    BY <1>4 DEF Fixtures
  <2>4. base = [base EXCEPT ![z] = @ + SumTo(cs, 0)]
    BY <1>2, <2>2, <2>3
  <2>5. 0 \in 0..n /\ fired' - n + 0 = fired /\ n - 0 = n
    BY <1>1, <1>2, <1>4
  <2>6. HasOf(guest, base, 0)'
    BY <1>5, <1>7, <2>1, <2>3, <2>4, <2>5 DEF HasOf, AtRest
  <2>7. guest'.inputs = [i \in 1..(n - 0) |-> [zone |-> z, code |-> cs[i + 0]]]
    <3>1. \A i \in 1..n : i + 0 = i
      BY <1>2
    <3>2. guest'.inputs = more
      <4> HIDE DEF more
      <4> QED BY <1>3, <1>5, <2>1 DEF AtRest
    <3> QED BY <1>3, <2>5, <3>1, <3>2
  <2>8. screen'.shows => HasOf(screen, base, 0)'
    BY <1>1, <1>7, <2>1, <2>3, <2>4, <2>5 DEF HasOf, AtRest
  <2>9. \A y \in Zones : expected'[y] = Colour(base[y])
    BY <1>1, <2>1, <2>3 DEF AtRest
  <2>10. plan' # <<>> /\ watch' = [zone |-> Step.zone, want |-> After(Step.zone, Step.codes)]'
    BY <1>1, <1>7 DEF After
  <2>11. screen'.shows => \E j \in 0..0 : HasOf(screen, base, j)'
    BY <2>8
  <2> HIDE DEF more
  <2> QED BY <1>7, <2>5, <2>6, <2>7, <2>9, <2>10, <2>11 DEF InStep
<1> QED BY <1>1, <1>6, <1>7, <1>8 DEF BenchInv

LEMMA HandleStep == ASSUME BenchInv, HandleInput PROVE BenchInv'
<1> DEFINE z == Step.zone
           cs == Step.codes
           n == Len(Step.codes)
           in == Head(guest.inputs)
<1>1. /\ guest.inputs # <<>>
      /\ guest' = [inputs |-> Tail(guest.inputs), handled |-> guest.handled + 1,
                   total |-> [guest.total EXCEPT ![in.zone] = @ + in.code]]
      /\ UNCHANGED <<expected, plan, watch, screen, fired, measured, invalid>>
  BY DEF HandleInput
<1>2. guest \in Fixtures
  BY DEF BenchInv, BenchTypes
<1>3. /\ in = guest.inputs[1] /\ in \in [zone : Zones, code : Nat]
      /\ Tail(guest.inputs) \in Seq([zone : Zones, code : Nat])
  BY <1>1, <1>2, FirstOfSeq DEF Fixtures
<1>4. guest' \in Fixtures
  <2> HIDE DEF in
  <2> QED BY <1>1, <1>2, <1>3 DEF Fixtures
<1>5. BenchTypes'
  BY <1>1, <1>4 DEF BenchInv, BenchTypes
<1>6. watch # Unwatched /\ InStep'
  <2>1. watch # Unwatched /\ InStep
    BY <1>1 DEF BenchInv, AtRest
  <2>2. plan # <<>> /\ z \in Zones /\ cs \in Seq(Nat) /\ n \in Nat
    BY <2>1, StepIs DEF BenchInv, InStep
  <2>3. PICK base \in [Zones -> Nat], k \in 0..n :
          /\ \A y \in Zones : expected[y] = Colour(base[y])
          /\ HasOf(guest, base, k)
          /\ guest.inputs = [i \in 1..(n - k) |-> [zone |-> z, code |-> cs[i + k]]]
          /\ screen.shows => \E j \in 0..k : HasOf(screen, base, j)
    BY <2>1 DEF InStep
  <2>4. k \in Nat /\ k < n /\ k + 1 \in 0..n
    <3>1. ASSUME k = n PROVE FALSE
      <4>1. 1..(n - k) = {}
        BY <2>2, <3>1
      <4>2. DOMAIN guest.inputs = {}
        BY <2>3, <4>1
      <4> QED BY <1>1, <1>2, <1>3, <4>2, FirstOfSeq DEF Fixtures
    <3> QED BY <2>2, <2>3, <3>1
  <2>5. in = [zone |-> z, code |-> cs[k + 1]]
    <3>1. 1 \in 1..(n - k) /\ 1 + k = k + 1
      BY <2>2, <2>4
    <3> QED BY <1>3, <2>3, <3>1
  <2>6. Tail(guest.inputs) = [i \in 1..(n - (k + 1)) |-> [zone |-> z, code |-> cs[i + (k + 1)]]]
    <3> DEFINE q == guest.inputs
    <3>1. q \in Seq([zone : Zones, code : Nat]) /\ q # <<>> /\ DOMAIN q = 1..(n - k)
      BY <1>1, <1>2, <2>3 DEF Fixtures
    <3>2. Len(q) = n - k
      <4> HIDE DEF q
      <4>1. Len(q) \in Nat /\ Len(q) # 0 /\ 1..Len(q) = 1..(n - k)
        BY <3>1
      <4>2. n - k \in Nat \ {0}
        BY <2>2, <2>4
      <4>3. Len(q) \in 1..(n - k) /\ n - k \in 1..Len(q)
        BY <4>1, <4>2
      <4> QED BY <4>1, <4>2, <4>3
    <3>3. /\ Tail(q) \in Seq([zone : Zones, code : Nat]) /\ Len(Tail(q)) = n - (k + 1)
          /\ \A i \in 1..(n - (k + 1)) : Tail(q)[i] = q[i + 1]
      <4> HIDE DEF q
      <4>1. Tail(q) \in Seq([zone : Zones, code : Nat]) /\ Len(Tail(q)) = Len(q) - 1
        BY <3>1
      <4>2. \A i \in 1..Len(Tail(q)) : Tail(q)[i] = q[i + 1]
        BY <3>1
      <4>3. Len(q) - 1 = n - (k + 1)
        BY <2>2, <2>4, <3>2
      <4> QED BY <4>1, <4>2, <4>3
    <3>4. ASSUME NEW i \in 1..(n - (k + 1)) PROVE q[i + 1] = [zone |-> z, code |-> cs[i + (k + 1)]]
      <4>1. i + 1 \in 1..(n - k) /\ (i + 1) + k = i + (k + 1)
        BY <2>2, <2>4
      <4> QED BY <2>3, <4>1
    <3>5. DOMAIN Tail(q) = 1..(n - (k + 1))
      BY <3>3
    <3>6. Tail(q) = [i \in DOMAIN Tail(q) |-> Tail(q)[i]]
      BY <3>3
    <3> QED BY <3>3, <3>4, <3>5, <3>6
  <2>7. Step' = Step
    BY <1>1 DEF Step
  <2>8. HasOf(guest, base, k + 1)'
    <3>1. guest.handled + 1 = fired - n + (k + 1)
      <4>1. guest.handled = fired - n + k /\ fired \in Nat
        BY <2>3 DEF HasOf, BenchInv, BenchTypes
      <4> QED BY <2>2, <2>4, <4>1
    <3>2. SumTo(cs, k + 1) = SumTo(cs, k) + cs[k + 1]
      BY <2>4, SumsAre
    <3>3. SumTo(cs, k) \in Nat /\ cs[k + 1] \in Nat
      BY <2>2, <2>4, SumsAreNat
    <3>4. guest.total = [base EXCEPT ![z] = @ + SumTo(cs, k)]
      BY <2>3 DEF HasOf
    <3>5. guest'.total = [guest.total EXCEPT ![z] = @ + cs[k + 1]]
      BY <1>1, <2>5
    <3>6. guest'.total = [base EXCEPT ![z] = @ + SumTo(cs, k + 1)]
      <4> HIDE DEF z, cs
      <4>1. PICK a \in Nat, b \in Nat : a = SumTo(cs, k) /\ b = cs[k + 1]
        BY <3>3
      <4>2. PICK x \in Zones, f \in [Zones -> Nat] : x = z /\ f = guest.total
        BY <1>2, <2>2 DEF Fixtures
      <4>3. [f EXCEPT ![x] = @ + b] = [base EXCEPT ![x] = @ + (a + b)]
        <5>1. f = [base EXCEPT ![x] = @ + a]
          BY <3>4, <4>1, <4>2
        <5>2. base[x] + a + b = base[x] + (a + b)
          OBVIOUS
        <5> QED BY <5>1, <5>2
      <4>4. a + b = SumTo(cs, k + 1)
        BY <3>2, <4>1
      <4> QED BY <3>5, <4>1, <4>2, <4>3, <4>4
    <3>7. guest'.handled = fired' - n + (k + 1)
      BY <1>1, <3>1
    <3> QED BY <2>7, <3>6, <3>7 DEF HasOf
  <2>9. screen'.shows => \E j \in 0..(k + 1) : HasOf(screen, base, j)'
    <3>1. screen.shows => \E j \in 0..(k + 1) : HasOf(screen, base, j)
      BY <2>3, <2>4
    <3> QED BY <1>1, <2>7, <3>1 DEF HasOf
  <2>10. /\ \A y \in Zones : expected'[y] = Colour(base[y])
         /\ plan' # <<>> /\ watch' = [zone |-> Step.zone, want |-> After(Step.zone, Step.codes)]'
    BY <1>1, <2>1, <2>3, <2>7 DEF InStep, After
  <2>11. guest'.inputs = [i \in 1..(n - (k + 1)) |-> [zone |-> z, code |-> cs[i + (k + 1)]]]
    BY <1>1, <2>6
  <2> QED BY <2>1, <2>4, <2>7, <2>8, <2>9, <2>10, <2>11 DEF InStep
<1> QED BY <1>1, <1>5, <1>6 DEF BenchInv

LEMMA PaintStep == ASSUME BenchInv, PaintFrame PROVE BenchInv'
<1>1. /\ screen' = [shows |-> TRUE, total |-> guest.total, handled |-> guest.handled]
      /\ UNCHANGED <<expected, plan, watch, guest, fired, measured, invalid>>
  BY DEF PaintFrame
<1>2. guest \in Fixtures
  BY DEF BenchInv, BenchTypes
<1>3. BenchTypes'
  BY <1>1, <1>2 DEF BenchInv, BenchTypes, Fixtures
<1>4. ASSUME AtRest PROVE AtRest'
  BY <1>1, <1>4 DEF AtRest
<1>5. ASSUME InStep PROVE InStep'
  <2>1. Step' = Step /\ After(Step.zone, Step.codes)' = After(Step.zone, Step.codes)
    BY <1>1 DEF Step, After
  <2>2. PICK base \in [Zones -> Nat], k \in 0..Len(Step.codes) :
          /\ \A y \in Zones : expected[y] = Colour(base[y])
          /\ HasOf(guest, base, k)
          /\ guest.inputs = [i \in 1..(Len(Step.codes) - k) |->
                               [zone |-> Step.zone, code |-> Step.codes[i + k]]]
    BY <1>5 DEF InStep
  <2>3. HasOf(guest, base, k)' /\ HasOf(screen, base, k)' /\ k \in 0..k
    BY <1>1, <2>1, <2>2 DEF HasOf
  <2> QED BY <1>1, <1>5, <2>1, <2>2, <2>3 DEF InStep
<1> QED BY <1>1, <1>3, <1>4, <1>5 DEF BenchInv

\* Two numbers of inputs that colour a zone alike differ by a multiple of 256.
LEMMA SameColour ==
  ASSUME NEW b \in Nat, NEW s \in Nat, NEW t \in Nat, Colour(b + s) = Colour(Colour(b) + t)
  PROVE  (t - s) % 256 = 0
<1>1. b = 256 * (b \div 256) + (b % 256) /\ b \div 256 \in Nat /\ b % 256 \in Nat
  OBVIOUS
<1>2. ASSUME NEW q \in Nat, NEW r \in Nat PROVE (256 * q + r) % 256 = r % 256
  <2>1. r = 256 * (r \div 256) + (r % 256) /\ r \div 256 \in Nat /\ r % 256 \in 0..255
    OBVIOUS
  <2>2. 256 * q + r = 256 * (q + (r \div 256)) + (r % 256)
    BY <2>1
  <2>3. \A d \in Nat, e \in 0..255 : (256 * d + e) % 256 = e
    OBVIOUS
  <2>4. q + (r \div 256) \in Nat
    BY <2>1
  <2> QED BY <2>1, <2>2, <2>3, <2>4
<1>3. (b + s) % 256 = ((b % 256) + s) % 256
  <2>1. b + s = 256 * (b \div 256) + ((b % 256) + s)
    BY <1>1
  <2> QED BY <1>1, <1>2, <2>1
<1>4. ASSUME NEW x \in Nat, NEW y \in Nat, x % 256 = y % 256 PROVE (y - x) % 256 = 0
  <2>1. /\ x = 256 * (x \div 256) + (x % 256) /\ x \div 256 \in Nat
        /\ y = 256 * (y \div 256) + (y % 256) /\ y \div 256 \in Nat
        /\ x % 256 \in Nat
    OBVIOUS
  <2>2. y - x = 256 * ((y \div 256) - (x \div 256))
    BY <1>4, <2>1
  <2>3. \A d \in Int : (256 * d) % 256 = 0
    OBVIOUS
  <2>4. (y \div 256) - (x \div 256) \in Int
    BY <2>1
  <2> QED BY <2>2, <2>3, <2>4
<1>5. (b % 256) + s \in Nat /\ (b % 256) + t \in Nat
  BY <1>1
<1>6. (((b % 256) + t) - ((b % 256) + s)) % 256 = 0
  <2>1. (b + s) % 256 = ((b % 256) + t) % 256
    BY DEF Colour
  <2> QED BY <1>3, <1>4, <1>5, <2>1
<1>7. ((b % 256) + t) - ((b % 256) + s) = t - s
  BY <1>1
<1> QED BY <1>6, <1>7

\* A frame that hits has all of the step's inputs.
LEMMA HitIsWhole ==
  ASSUME BenchTypes, plan # <<>>, NEW base \in [Zones -> Nat], NEW j \in 0..Len(Step.codes),
         \A y \in Zones : expected[y] = Colour(base[y]), HasOf(screen, base, j),
         Colour(screen.total[Step.zone]) = After(Step.zone, Step.codes)
  PROVE  j = Len(Step.codes)
<1> DEFINE z == Step.zone
           cs == Step.codes
           n == Len(cs)
<1>1. z \in Zones /\ cs \in Seq(Nat) /\ n \in Nat /\ Shown(cs)
  BY StepIs
<1>2. SumTo(cs, n) \in Nat /\ SumTo(cs, j) \in Nat
  BY <1>1, SumsAreNat
<1>3. screen.total[z] = base[z] + SumTo(cs, j)
  BY <1>1 DEF HasOf
<1>4. Colour(base[z] + SumTo(cs, j)) = Colour(Colour(base[z]) + SumTo(cs, n))
  <2>1. Colour(base[z] + SumTo(cs, j)) = After(z, cs) /\ expected[z] = Colour(base[z])
    BY <1>1, <1>3
  <2> QED BY <2>1 DEF After, Total
<1>5. base[z] \in Nat
  BY <1>1
<1>6. (SumTo(cs, n) - SumTo(cs, j)) % 256 = 0
  BY <1>2, <1>4, <1>5, SameColour
<1>7. ~(j \in 0..(n - 1))
  <2> HIDE DEF cs
  <2> QED BY <1>1, <1>6 DEF Shown
<1>8. \A m \in Nat : \A i \in 0..m : i \in 0..(m - 1) \/ i = m
  OBVIOUS
<1> QED BY <1>1, <1>7, <1>8

LEMMA PresentStep == ASSUME BenchInv, NEW covers \in BOOLEAN, PresentFrame(covers) PROVE BenchInv'
<1>1. /\ screen.shows /\ screen' = [screen EXCEPT !.shows = FALSE]
      /\ UNCHANGED <<guest, fired, invalid>>
  BY DEF PresentFrame
<1>2. /\ screen' \in [shows : BOOLEAN, total : [Zones -> Nat], handled : Nat] /\ ~screen'.shows
      /\ guest \in Fixtures
  BY <1>1 DEF BenchInv, BenchTypes
<1>3. CASE UNCHANGED <<measured, watch, plan, expected>>
  <2>1. BenchTypes'
    BY <1>1, <1>2, <1>3 DEF BenchInv, BenchTypes
  <2>2. AtRest => AtRest'
    BY <1>1, <1>2, <1>3 DEF AtRest
  <2>3. ASSUME InStep PROVE InStep'
    <3>1. Step' = Step /\ After(Step.zone, Step.codes)' = After(Step.zone, Step.codes)
      BY <1>3 DEF Step, After
    <3>2. PICK base \in [Zones -> Nat], k \in 0..Len(Step.codes) :
            /\ \A y \in Zones : expected[y] = Colour(base[y])
            /\ HasOf(guest, base, k)
            /\ guest.inputs = [i \in 1..(Len(Step.codes) - k) |->
                                 [zone |-> Step.zone, code |-> Step.codes[i + k]]]
      BY <2>3 DEF InStep
    <3>3. HasOf(guest, base, k)'
      BY <1>1, <3>1, <3>2 DEF HasOf
    <3>4. screen'.shows => \E j \in 0..k : HasOf(screen, base, j)'
      BY <1>2
    <3>5. /\ \A y \in Zones : expected'[y] = Colour(base[y])
          /\ plan' # <<>> /\ watch' = [zone |-> Step.zone, want |-> After(Step.zone, Step.codes)]'
      BY <1>3, <2>3, <3>1, <3>2 DEF InStep
    <3>6. guest'.inputs = [i \in 1..(Len(Step.codes) - k) |->
                            [zone |-> Step.zone, code |-> Step.codes[i + k]]]
      BY <1>1, <3>2
    <3> QED BY <3>1, <3>2, <3>3, <3>4, <3>5, <3>6 DEF InStep
  <2> QED BY <1>1, <1>3, <2>1, <2>2, <2>3 DEF BenchInv
<1>4. CASE /\ covers /\ watch # Unwatched /\ Matches(Colour(screen.total[watch.zone]))
           /\ measured' = screen.handled /\ watch' = Unwatched /\ plan' = Tail(plan)
           /\ expected' = [expected EXCEPT ![watch.zone] = watch.want]
  <2> DEFINE z == Step.zone
             cs == Step.codes
             n == Len(Step.codes)
  <2>1. BenchTypes' /\ AtRest'
    <3>1. InStep
      BY <1>4 DEF BenchInv
    <3>2. /\ plan # <<>> /\ watch.zone = z /\ watch.want = After(z, cs)
          /\ z \in Zones /\ cs \in Seq(Nat) /\ n \in Nat
      BY <3>1, StepIs DEF BenchInv, InStep
    <3>3. PICK base \in [Zones -> Nat], k \in 0..n :
            /\ \A y \in Zones : expected[y] = Colour(base[y])
            /\ HasOf(guest, base, k)
            /\ guest.inputs = [i \in 1..(n - k) |-> [zone |-> z, code |-> cs[i + k]]]
            /\ \E j \in 0..k : HasOf(screen, base, j)
      BY <1>1, <3>1 DEF InStep
    <3>4. PICK j \in 0..k : HasOf(screen, base, j)
      BY <3>3
    <3>5. Colour(screen.total[z]) = After(z, cs)
      BY <1>4, <3>2 DEF Matches
    <3>6. j = n /\ k = n
      <4>1. j \in 0..n
        BY <3>2, <3>3, <3>4
      <4>2. j = n
        BY <3>2, <3>3, <3>4, <3>5, <4>1, HitIsWhole DEF BenchInv
      <4> QED BY <3>2, <3>3, <3>4, <4>2
    <3>7. fired \in Nat /\ fired - n + n = fired
      BY <3>2 DEF BenchInv, BenchTypes
    <3>8. guest'.inputs = <<>> /\ guest'.handled = fired' /\ measured' = fired'
      <4>1. guest.inputs \in Seq([zone : Zones, code : Nat]) /\ DOMAIN guest.inputs = {}
        BY <1>2, <3>2, <3>3, <3>6 DEF Fixtures
      <4>2. guest.inputs = <<>>
        BY <4>1, FirstOfSeq
      <4> QED BY <1>1, <1>4, <3>3, <3>4, <3>6, <3>7, <4>2 DEF HasOf
    <3>9. SumTo(cs, n) \in Nat
      BY <3>2, SumsAreNat
    <3>10. ASSUME NEW y \in Zones PROVE expected'[y] = Colour(guest'.total[y]) /\ expected'[y] \in 0..255
      <4>1. base[y] \in Nat /\ guest'.total = [base EXCEPT ![z] = @ + SumTo(cs, n)]
        BY <1>1, <3>3, <3>6 DEF HasOf
      <4>2. expected \in [Zones -> 0..255] /\ expected[y] = base[y] % 256
        BY <3>3 DEF BenchInv, BenchTypes, Colour
      <4>3. CASE y = z
        <5>1. /\ expected'[y] = ((base[y] % 256) + SumTo(cs, n)) % 256
              /\ guest'.total[y] = base[y] + SumTo(cs, n)
          BY <1>4, <3>2, <4>1, <4>2, <4>3 DEF After, Colour, Total
        <5>2. PICK b \in Nat, s \in Nat : b = base[y] /\ s = SumTo(cs, n)
          BY <3>9, <4>1
        <5>3. expected'[y] = ((b % 256) + s) % 256 /\ Colour(guest'.total[y]) = (b + s) % 256
          BY <5>1, <5>2 DEF Colour
        <5>4. ((b % 256) + s) % 256 = (b + s) % 256 /\ (b + s) % 256 \in 0..255
          OBVIOUS
        <5> QED BY <5>3, <5>4
      <4>4. CASE y # z
        BY <1>4, <3>2, <4>1, <4>2, <4>4 DEF Colour
      <4> QED BY <4>3, <4>4
    <3>11. expected' \in [Zones -> 0..255]
      <4>1. DOMAIN expected' = Zones /\ expected' = [y \in Zones |-> expected'[y]]
        BY <1>4 DEF BenchInv, BenchTypes
      <4> QED BY <3>10, <4>1
    <3>12. BenchTypes'
      BY <1>1, <1>2, <1>4, <3>2, <3>11, StepIs DEF BenchInv, BenchTypes
    <3> QED BY <1>2, <3>8, <3>10, <3>12 DEF AtRest
  <2> QED BY <1>1, <1>4, <2>1 DEF BenchInv
<1> QED BY <1>3, <1>4 DEF PresentFrame

\* The scenario's ten keys.
LEMMA TenKeysShow == ASSUME KeyCount = 10 PROVE Shown(Burst)
<1>1. \A i \in 1..10 : Burst[i] = 103 + i
  BY DEF Burst, BurstChar
<1>2. Len(Burst) = 10
  BY DEF Burst
<1>3. SumTo(Burst, 0) = 0 /\ \A k \in 0..9 : SumTo(Burst, k + 1) = SumTo(Burst, k) + (104 + k)
  <2>1. ASSUME NEW k \in 0..9 PROVE SumTo(Burst, k + 1) = SumTo(Burst, k) + (104 + k)
    <3>1. k \in Nat /\ k + 1 \in 1..10 /\ 103 + (k + 1) = 104 + k
      OBVIOUS
    <3> QED BY <1>1, <3>1, SumsAre
  <2> QED BY <2>1, SumsAre
<1>4. SumTo(Burst, 1) = 104 /\ SumTo(Burst, 2) = 209
  <2>1. /\ SumTo(Burst, 0 + 1) = SumTo(Burst, 0) + (104 + 0)
        /\ SumTo(Burst, 1 + 1) = SumTo(Burst, 1) + (104 + 1)
    BY <1>3
  <2> QED BY <2>1, <1>3
<1>5. SumTo(Burst, 3) = 315 /\ SumTo(Burst, 4) = 422
  <2>1. /\ SumTo(Burst, 2 + 1) = SumTo(Burst, 2) + (104 + 2)
        /\ SumTo(Burst, 3 + 1) = SumTo(Burst, 3) + (104 + 3)
    BY <1>3
  <2> QED BY <2>1, <1>4
<1>6. SumTo(Burst, 5) = 530 /\ SumTo(Burst, 6) = 639
  <2>1. /\ SumTo(Burst, 4 + 1) = SumTo(Burst, 4) + (104 + 4)
        /\ SumTo(Burst, 5 + 1) = SumTo(Burst, 5) + (104 + 5)
    BY <1>3
  <2> QED BY <2>1, <1>5
<1>7. SumTo(Burst, 7) = 749 /\ SumTo(Burst, 8) = 860
  <2>1. /\ SumTo(Burst, 6 + 1) = SumTo(Burst, 6) + (104 + 6)
        /\ SumTo(Burst, 7 + 1) = SumTo(Burst, 7) + (104 + 7)
    BY <1>3
  <2> QED BY <2>1, <1>6
<1>8. SumTo(Burst, 9) = 972 /\ SumTo(Burst, 10) = 1085
  <2>1. /\ SumTo(Burst, 8 + 1) = SumTo(Burst, 8) + (104 + 8)
        /\ SumTo(Burst, 9 + 1) = SumTo(Burst, 9) + (104 + 9)
    BY <1>3
  <2> QED BY <2>1, <1>7
<1>9. ASSUME NEW k \in 0..9 PROVE (1085 - SumTo(Burst, k)) % 256 # 0
  BY <1>3, <1>4, <1>5, <1>6, <1>7, <1>8
<1> QED BY <1>2, <1>8, <1>9 DEF Shown

\* For any numbers of clicks, keys and reps: a latency is the input's own, if the burst is
\* Shown.  That of the scenario is, and any of at most 22 keys; with 23 the last 16 add up to
\* a multiple of 256, and a frame painted before them hits.
THEOREM LatenciesAreOwn == ASSUME Shown(Burst) PROVE BenchSpec => []LatencyIsOwn
<1>1. BenchInit => UpToDate
  <2> SUFFICES ASSUME BenchInit PROVE UpToDate
    OBVIOUS
  <2>1. BenchTypes
    BY DEF BenchInit, BenchTypes, Fixtures, NoFrame
  <2>2. AtRest
    BY DEF BenchInit, AtRest, NoFrame, Colour
  <2> QED BY <2>1, <2>2 DEF BenchInit, UpToDate, BenchInv
<1>2. UpToDate /\ [BenchNext]_benchVars => UpToDate'
  <2> SUFFICES ASSUME UpToDate, [BenchNext]_benchVars PROVE UpToDate'
    OBVIOUS
  <2>1. CASE WatchExpires
    BY <2>1 DEF WatchExpires, UpToDate
  <2>2. ASSUME invalid' = invalid, BenchInv => BenchInv' PROVE UpToDate'
    BY <2>2 DEF UpToDate
  <2>3. CASE NextRep \/ AwaitPixel \/ HandleInput \/ PaintFrame
    BY <2>2, <2>3, RepStep, AwaitStep, HandleStep, PaintStep
       DEF NextRep, AwaitPixel, HandleInput, PaintFrame
  <2>4. ASSUME NEW covers \in BOOLEAN, PresentFrame(covers) PROVE UpToDate'
    BY <2>2, <2>4, PresentStep DEF PresentFrame
  <2>5. CASE UNCHANGED benchVars
    <3>1. UNCHANGED <<expected, plan, watch, guest, screen, fired, measured, invalid>>
      BY <2>5 DEF benchVars
    <3>2. BenchTypes <=> BenchTypes'
      BY <3>1 DEF BenchTypes
    <3>3. AtRest <=> AtRest'
      BY <3>1 DEF AtRest
    <3>4. Step' = Step /\ After(Step.zone, Step.codes)' = After(Step.zone, Step.codes)
      BY <3>1 DEF Step, After
    <3>5. ASSUME NEW base, NEW k PROVE /\ HasOf(guest, base, k) <=> HasOf(guest, base, k)'
                                       /\ HasOf(screen, base, k) <=> HasOf(screen, base, k)'
      BY <3>1, <3>4 DEF HasOf
    <3>6. ASSUME InStep PROVE InStep'
      <4>1. PICK base \in [Zones -> Nat], k \in 0..Len(Step.codes) :
              /\ \A y \in Zones : expected[y] = Colour(base[y])
              /\ HasOf(guest, base, k)
              /\ guest.inputs = [i \in 1..(Len(Step.codes) - k) |->
                                   [zone |-> Step.zone, code |-> Step.codes[i + k]]]
              /\ screen.shows => \E j \in 0..k : HasOf(screen, base, j)
        BY <3>6 DEF InStep
      <4>2. HasOf(guest, base, k)' /\ (screen'.shows => \E j \in 0..k : HasOf(screen, base, j)')
        BY <3>1, <3>5, <4>1
      <4> QED BY <3>1, <3>4, <3>6, <4>1, <4>2 DEF InStep
    <3> QED BY <3>1, <3>2, <3>3, <3>6 DEF UpToDate, BenchInv
  <2> QED BY <2>1, <2>3, <2>4, <2>5 DEF BenchNext
<1>3. UpToDate => LatencyIsOwn
  BY DEF UpToDate, BenchInv, AtRest, LatencyIsOwn
<1> QED BY <1>1, <1>2, <1>3, PTL DEF BenchSpec

\* The ten keys of the harness's scenarios are such a burst.
COROLLARY ScenariosAreMeasured == ASSUME KeyCount = 10 PROVE BenchSpec => []LatencyIsOwn
BY TenKeysShow, LatenciesAreOwn, PTL

-----------------------------------------------------------------------------
(* WasmScan: a module's bytes.                                             *)

\* A recursive function over 0..n is one, whatever its step g.
Recipe(S, a, g, n) == a \in S /\ g \in [Nat \X S -> S] /\ n \in Nat
Follows(f, S, a, g, n) ==
  f \in [0..n -> S] /\ f[0] = a /\ \A i \in 1..n : f[i] = g[<<i, f[i - 1]>>]

LEMMA Recursion ==
  ASSUME NEW S, NEW a, NEW g, NEW n, Recipe(S, a, g, n)
  PROVE  \E f : Follows(f, S, a, g, n)
<1> USE DEF Recipe
<1> DEFINE Good(f, k) == f[0] = a /\ \A i \in 1..k : f[i] = g[<<i, f[i - 1]>>]
           T == {k \in Nat : \E f \in [0..k -> S] : Good(f, k)}
<1>1. 0 \in T
  <2>1. [i \in 0..0 |-> a] \in [0..0 -> S] /\ Good([i \in 0..0 |-> a], 0)
    OBVIOUS
  <2> QED BY <2>1
<1>2. ASSUME NEW k \in T PROVE k + 1 \in T
  <2>1. PICK f \in [0..k -> S] : Good(f, k)
    OBVIOUS
  <2> DEFINE h == [i \in 0..(k + 1) |-> IF i = k + 1 THEN g[<<k + 1, f[k]>>] ELSE f[i]]
  <2>2. k \in Nat /\ f[k] \in S /\ <<k + 1, f[k]>> \in Nat \X S
    OBVIOUS
  <2>3. h \in [0..(k + 1) -> S]
    <3>1. ASSUME NEW i \in 0..(k + 1), i # k + 1 PROVE i \in 0..k
      BY <2>2, <3>1
    <3>2. g[<<k + 1, f[k]>>] \in S
      BY <2>2
    <3> QED BY <3>1, <3>2
  <2>4. ASSUME NEW i \in 1..(k + 1) PROVE h[i] = g[<<i, h[i - 1]>>]
    <3>1. CASE i = k + 1
      <4>1. i - 1 = k /\ k \in 0..(k + 1) /\ k # k + 1 /\ i \in 0..(k + 1)
        BY <2>2, <3>1
      <4> QED BY <3>1, <4>1
    <3>2. CASE i # k + 1
      <4>1. /\ i \in 1..k /\ i \in 0..(k + 1) /\ i - 1 \in 0..(k + 1) /\ i - 1 # k + 1
        BY <2>2, <3>2
      <4> QED BY <2>1, <3>2, <4>1
    <3> QED BY <3>1, <3>2
  <2>5. h[0] = a
    BY <2>1, <2>2
  <2> HIDE DEF h
  <2>6. Good(h, k + 1)
    BY <2>4, <2>5
  <2> QED BY <2>2, <2>3, <2>6
<1> HIDE DEF T
<1>3. T = Nat
  <2>1. T \in SUBSET Nat
    BY DEF T
  <2> QED BY <1>1, <1>2, <2>1, Counting
<1> QED BY <1>3 DEF T, Follows

LEMMA DigitsAre ==
  ASSUME NEW n \in Nat, NEW pad \in Nat
  PROVE  /\ Digits(n, pad)[0] = n
         /\ \A i \in 0..pad : Digits(n, pad)[i] \in Nat
         /\ \A i \in 1..pad : Digits(n, pad)[i] = Digits(n, pad)[i - 1] \div 128
<1> DEFINE g == [p \in Nat \X Nat |-> p[2] \div 128]
           Is(f) == f = [i \in 0..pad |-> IF i = 0 THEN n ELSE f[i - 1] \div 128]
           d == Digits(n, pad)
<1>1. g \in [Nat \X Nat -> Nat]
  <2>1. \A x \in Nat : x \div 128 \in Nat
    OBVIOUS
  <2> QED BY <2>1
<1>2. PICK f : Follows(f, Nat, n, g, pad)
  <2> HIDE DEF g
  <2>1. Recipe(Nat, n, g, pad)
    BY <1>1 DEF Recipe
  <2> QED BY <2>1, Recursion
<1>3. Is(f)
  <2>1. ASSUME NEW i \in 0..pad, i # 0 PROVE f[i] = f[i - 1] \div 128
    <3>1. i \in 1..pad /\ i - 1 \in 0..pad
      BY <2>1
    <3>2. <<i, f[i - 1]>> \in Nat \X Nat
      BY <1>2, <3>1 DEF Follows
    <3> QED BY <1>2, <3>1, <3>2 DEF Follows
  <2> QED BY <1>2, <2>1 DEF Follows
<1>4. Is(d)
  <2>1. d = CHOOSE h : Is(h)
    BY DEF Digits
  <2> HIDE DEF d, Is
  <2> QED BY <1>3, <2>1
<1>5. /\ DOMAIN d = 0..pad /\ d[0] = n
      /\ \A i \in 1..pad : d[i] = d[i - 1] \div 128
  <2> HIDE DEF d
  <2>1. \A i \in 0..pad : d[i] = IF i = 0 THEN n ELSE d[i - 1] \div 128
    BY <1>4
  <2>2. 0 \in 0..pad /\ \A i \in 1..pad : i \in 0..pad /\ i # 0
    OBVIOUS
  <2> QED BY <1>4, <2>1, <2>2
<1> HIDE DEF d
<1> DEFINE T == {i \in Nat : i <= pad => d[i] \in Nat}
<1>6. T = Nat
  <2>1. 0 \in T
    BY <1>5
  <2>2. ASSUME NEW i \in T PROVE i + 1 \in T
    <3>1. CASE i + 1 <= pad
      <4>1. i + 1 \in 1..pad /\ (i + 1) - 1 = i /\ d[i] \in Nat
        BY <3>1
      <4>2. d[i + 1] = d[i] \div 128
        BY <1>5, <4>1
      <4> QED BY <4>1, <4>2
    <3> QED BY <3>1
  <2>3. T \in SUBSET Nat
    OBVIOUS
  <2> HIDE DEF T
  <2> QED BY <2>1, <2>2, <2>3, Counting
<1>7. ASSUME NEW i \in 0..pad PROVE d[i] \in Nat
  <2>1. i \in T
    <3> HIDE DEF T
    <3> QED BY <1>6
  <2> QED BY <2>1
<1> HIDE DEF T
<1> QED BY <1>5, <1>7 DEF d

LEMMA LebIs ==
  ASSUME NEW n \in Nat, NEW pad \in Nat \ {0}
  PROVE  /\ Leb(n, pad) \in Seq(0..255) /\ Len(Leb(n, pad)) = pad
         /\ \A i \in 1..pad : /\ Leb(n, pad)[i] % 128 = Digits(n, pad)[i - 1] % 128
                              /\ Leb(n, pad)[i] < 128 <=> i = pad
<1>1. ASSUME NEW x \in Nat PROVE /\ x % 128 \in 0..127 /\ (x % 128) + 128 \in 128..255
                                 /\ (x % 128) % 128 = x % 128
                                 /\ ((x % 128) + 128) % 128 = x % 128
  OBVIOUS
<1>2. ASSUME NEW i \in 1..pad PROVE Digits(n, pad)[i - 1] \in Nat
  <2>1. i - 1 \in 0..pad
    OBVIOUS
  <2> QED BY <2>1, DigitsAre
<1> DEFINE l == Leb(n, pad)
<1>3. ASSUME NEW i \in 1..pad
      PROVE  /\ l[i] = (Digits(n, pad)[i - 1] % 128) + (IF i < pad THEN 128 ELSE 0)
             /\ l[i] \in 0..255 /\ l[i] % 128 = Digits(n, pad)[i - 1] % 128
             /\ l[i] < 128 <=> i = pad
  <2>1. l[i] = (Digits(n, pad)[i - 1] % 128) + (IF i < pad THEN 128 ELSE 0)
    BY DEF Leb
  <2> DEFINE x == Digits(n, pad)[i - 1]
  <2>2. x \in Nat
    BY <1>2
  <2> HIDE DEF x, l
  <2>3. CASE i < pad
    <3>1. l[i] = (x % 128) + 128
      BY <2>1, <2>3 DEF x
    <3> QED BY <1>1, <2>1, <2>2, <2>3, <3>1 DEF x
  <2>4. CASE ~(i < pad)
    <3>1. l[i] = x % 128 /\ i = pad
      <4>1. x % 128 \in Nat
        BY <1>1, <2>2
      <4> QED BY <2>1, <2>4, <4>1 DEF x
    <3> QED BY <1>1, <2>1, <2>2, <2>4, <3>1 DEF x
  <2> QED BY <2>3, <2>4
<1>4. DOMAIN l = 1..pad
  BY DEF Leb
<1>5. l \in Seq(0..255) /\ Len(l) = pad
  <2>1. l \in [1..pad -> 0..255]
    <3>1. l = [i \in 1..pad |-> l[i]]
      BY DEF Leb
    <3> HIDE DEF l
    <3> QED BY <1>3, <3>1
  <2> HIDE DEF l
  <2> QED BY <1>4, <2>1
<1> QED BY <1>3, <1>5

\* The walk's copy has the number n, in pad bytes, at i.
LebAt(i, n, pad) == \A k \in 1..pad : /\ (i + k) - 1 \in DOMAIN bytes
                                     /\ bytes[(i + k) - 1] = Leb(n, pad)[k]

LEMMA NumbersAreRead ==
  ASSUME bytes \in Seq(0..255), NEW i \in Nat \ {0}, NEW n \in Nat, NEW pad \in Nat \ {0},
         Fits(n, pad), LebAt(i, n, pad)
  PROVE  LebEnd(i) = (i + pad) - 1 /\ U32(i) = n
<1> DEFINE e == (i + pad) - 1
           d == Digits(n, pad)
<1>1. e \in Nat /\ i <= e /\ e \in DOMAIN bytes
  <2>1. pad \in 1..pad /\ e = (i + pad) - 1
    OBVIOUS
  <2>2. e \in DOMAIN bytes
    BY <2>1 DEF LebAt
  <2> QED BY <2>2
<1>2. ASSUME NEW j \in i..e
      PROVE  /\ Byte(j) < 128 <=> j = e
             /\ Byte(j) \in Nat /\ Byte(j) % 128 = d[j - i] % 128
  <2> DEFINE k == (j - i) + 1
  <2>1. k \in 1..pad /\ (i + k) - 1 = j /\ k - 1 = j - i /\ (k = pad <=> j = e)
    OBVIOUS
  <2> HIDE DEF k, d
  <2>2. j \in DOMAIN bytes /\ bytes[j] = Leb(n, pad)[k]
    BY <2>1 DEF LebAt
  <2>3. /\ Leb(n, pad)[k] % 128 = Digits(n, pad)[k - 1] % 128
        /\ Leb(n, pad)[k] < 128 <=> k = pad
    BY <2>1, LebIs
  <2>4. Byte(j) = bytes[j] /\ bytes[j] \in 0..255
    BY <2>2 DEF Byte
  <2>5. Byte(j) \in Nat /\ Byte(j) = Leb(n, pad)[k]
    <3>1. \A x \in 0..255 : x \in Nat
      OBVIOUS
    <3>2. Byte(j) \in 0..255
      BY <2>4, Zenon
    <3>3. Byte(j) = Leb(n, pad)[k]
      BY <2>2, <2>4, Zenon
    <3> QED BY <3>1, <3>2, <3>3
  <2>6. Byte(j) % 128 = d[j - i] % 128
    BY <2>1, <2>3, <2>5 DEF d
  <2>7. Byte(j) < 128 <=> j = e
    <3> HIDE DEF e
    <3> QED BY <2>1, <2>3, <2>5
  <2> QED BY <2>5, <2>6, <2>7
<1>3. LebEnd(i) = e
  <2> DEFINE S == i..(Len(bytes) + 1) \cup {i}
             P(j) == Byte(j) < 128 /\ \A k \in i..(j - 1) : Byte(k) >= 128
  <2>1. e \in S
    BY <1>1
  <2>2. P(e)
    <3>1. \A k \in i..(e - 1) : k \in i..e /\ k # e
      BY <1>1
    <3>2. e \in i..e
      BY <1>1
    <3> QED BY <1>2, <3>1, <3>2
  <2>3. ASSUME NEW j \in S, P(j) PROVE j = e
    <3>1. j \in Nat /\ i <= j
      OBVIOUS
    <3>2. CASE j < e
      <4>1. j \in i..e /\ j # e
        BY <1>1, <3>1, <3>2
      <4> QED BY <1>2, <2>3, <4>1
    <3>3. CASE e < j
      <4>1. e \in i..(j - 1) /\ e \in i..e
        BY <1>1, <3>1, <3>3
      <4>2. Byte(e) >= 128 /\ Byte(e) < 128 /\ Byte(e) \in Nat
        BY <1>2, <2>3, <4>1
      <4> QED BY <4>2
    <3> QED BY <1>1, <3>1, <3>2, <3>3
  <2>4. LebEnd(i) = CHOOSE j \in S : P(j)
    BY DEF LebEnd
  <2> HIDE DEF e, S, P
  <2>5. (CHOOSE j \in S : P(j)) \in S /\ P(CHOOSE j \in S : P(j))
    BY <2>1, <2>2
  <2> QED BY <2>3, <2>4, <2>5
<1>4. U32(i) = n
  <2> DEFINE Is(f) == f = [j \in i..e |-> (Byte(j) % 128)
                                        + (IF j = e THEN 0 ELSE 128 * f[j + 1])]
             v == [j \in i..e |-> d[j - i]]
  <2>1. d[0] = n /\ d[pad] = 0 /\ \A k \in 0..pad : d[k] \in Nat
    BY DigitsAre DEF Fits
  <2>2. \A k \in 1..pad : d[k] = d[k - 1] \div 128
    BY DigitsAre
  <2>3. ASSUME NEW j \in i..e
        PROVE  /\ d[j - i] = (Byte(j) % 128) + (IF j = e THEN 0 ELSE 128 * d[(j + 1) - i])
               /\ d[j - i] \in Nat
    <3> DEFINE k == (j - i) + 1
    <3>1. /\ k \in 1..pad /\ k - 1 \in 0..pad /\ k - 1 = j - i /\ k = (j + 1) - i
          /\ j = e => k = pad
      OBVIOUS
    <3> HIDE DEF k, d, e
    <3>2. d[k] = d[k - 1] \div 128 /\ d[k - 1] \in Nat
      BY <2>1, <2>2, <3>1
    <3>3. d[k - 1] = (d[k - 1] % 128) + 128 * d[k]
      <4>1. \A x \in Nat : x = (x % 128) + 128 * (x \div 128)
        OBVIOUS
      <4> QED BY <3>2, <4>1
    <3>4. Byte(j) % 128 = d[k - 1] % 128
      BY <1>2, <3>1
    <3>5. CASE j = e
      <4>1. d[k] = 0
        BY <2>1, <3>1, <3>5
      <4>2. d[k - 1] % 128 \in Nat
        BY <3>2
      <4>3. d[k - 1] = d[k - 1] % 128
        BY <3>3, <4>1, <4>2
      <4>4. d[k - 1] = (d[k - 1] % 128) + 0
        BY <4>2, <4>3
      <4> QED BY <3>1, <3>2, <3>4, <3>5, <4>4
    <3>6. CASE j # e
      <4>1. d[k - 1] = (Byte(j) % 128) + 128 * d[k]
        BY <3>3, <3>4
      <4>2. d[j - i] = (Byte(j) % 128) + 128 * d[(j + 1) - i]
        BY <3>1, <4>1
      <4> QED BY <3>1, <3>2, <3>6, <4>2
    <3> QED BY <3>5, <3>6
  <2>4. Is(v)
    <3>1. ASSUME NEW j \in i..e
          PROVE v[j] = (Byte(j) % 128) + (IF j = e THEN 0 ELSE 128 * v[j + 1])
      <4>1. v[j] = d[j - i]
        OBVIOUS
      <4>2. CASE j = e
        <5> HIDE DEF v, e, d
        <5> QED BY <2>3, <4>1, <4>2
      <4>3. CASE j # e
        <5>1. j + 1 \in i..e
          BY <4>3
        <5>2. v[j + 1] = d[(j + 1) - i]
          BY <5>1
        <5> HIDE DEF v, e, d
        <5> QED BY <2>3, <4>1, <4>3, <5>2
      <4> QED BY <4>2, <4>3
    <3> HIDE DEF e, d
    <3> QED BY <3>1
  <2> DEFINE u == CHOOSE f : Is(f)
  <2>5. Is(u)
    <3> HIDE DEF Is, v
    <3> QED BY <2>4
  <2>6. U32(i) = u[i]
    <3>1. U32(i) = LET value[j \in i..LebEnd(i)] ==
                         (Byte(j) % 128) + (IF j = LebEnd(i) THEN 0 ELSE 128 * value[j + 1])
                   IN value[i]
      BY DEF U32
    <3> HIDE DEF e
    <3> QED BY <1>3, <3>1
  <2> HIDE DEF u
  <2> DEFINE T == {k \in Nat : k < pad => u[e - k] = d[(e - k) - i]}
  <2>7. T = Nat
    <3>1. \A j \in i..e : u[j] = (Byte(j) % 128) + (IF j = e THEN 0 ELSE 128 * u[j + 1])
      <4> HIDE DEF e
      <4> QED BY <2>5
    <3>2. 0 \in T
      <4>1. e \in i..e /\ e - 0 = e
        BY <1>1
      <4> HIDE DEF e, d
      <4> QED BY <2>3, <3>1, <4>1
    <3>3. ASSUME NEW k \in T PROVE k + 1 \in T
      <4>1. CASE k + 1 < pad
        <5> DEFINE j == e - (k + 1)
        <5>1. /\ k < pad /\ j \in i..e /\ j # e /\ j + 1 = e - k /\ (j + 1) - i = (e - k) - i
              /\ k \in Nat
          <6>1. k \in Nat /\ k + 1 < pad
            BY <4>1
          <6>2. e = (i + pad) - 1 /\ i \in Nat /\ pad \in Nat
            BY <1>1
          <6> HIDE DEF e, d, T, v, u
          <6>3. /\ k < pad /\ j + 1 = e - k /\ (j + 1) - i = (e - k) - i
                /\ i <= j /\ j < e /\ j \in Nat
            BY <6>1, <6>2
          <6>4. j \in i..e /\ j # e
            BY <6>2, <6>3
          <6> QED BY <6>1, <6>3, <6>4
        <5> HIDE DEF j, e, d
        <5>2. u[j + 1] = d[(j + 1) - i]
          BY <5>1
        <5>3. u[j] = d[j - i]
          BY <2>3, <3>1, <5>1, <5>2
        <5> QED BY <5>1, <5>3 DEF j
      <4> QED BY <4>1
    <3>4. T \in SUBSET Nat
      OBVIOUS
    <3> HIDE DEF T
    <3> QED BY <3>2, <3>3, <3>4, Counting
  <2>8. u[i] = d[0]
    <3>1. pad - 1 \in T
      <4> HIDE DEF T
      <4> QED BY <2>7
    <3>2. e - (pad - 1) = i /\ pad - 1 < pad /\ i - i = 0
      OBVIOUS
    <3> HIDE DEF e, d
    <3>3. u[e - (pad - 1)] = d[(e - (pad - 1)) - i]
      BY <3>1, <3>2
    <3> QED BY <3>2, <3>3
  <2> QED BY <2>1, <2>6, <2>8
<1> QED BY <1>3, <1>4

LEMMA Concatenation ==
  ASSUME NEW S, NEW a \in Seq(S), NEW b \in Seq(S)
  PROVE  /\ a \o b \in Seq(S) /\ Len(a \o b) = Len(a) + Len(b)
         /\ \A k \in 1..Len(a) : (a \o b)[k] = a[k]
         /\ \A k \in 1..Len(b) : (a \o b)[Len(a) + k] = b[k]
OBVIOUS

LEMMA LebIsBytes == \A n \in Nat, pad \in Nat \ {0} :
                      Leb(n, pad) \in Seq(0..255) /\ Len(Leb(n, pad)) = pad
BY LebIs

LEMMA SectionIs ==
  ASSUME NEW s \in Section
  PROVE  /\ Payload(s) \in Seq(0..255) /\ SectionBytes(s) \in Seq(0..255)
         /\ Len(SectionBytes(s)) = (1 + s.pad) + Len(Payload(s))
         /\ SectionBytes(s)[1] = s.id
         /\ \A k \in 1..s.pad : SectionBytes(s)[1 + k] = Leb(Len(Payload(s)), s.pad)[k]
         /\ s.id = 4 => \A k \in 1..s.pad :
              /\ (1 + s.pad) + k <= Len(SectionBytes(s))
              /\ SectionBytes(s)[(1 + s.pad) + k] = Leb(s.tables, s.pad)[k]
<1>1. s.id \in 0..255 /\ s.pad \in Nat \ {0} /\ s.tables \in Nat /\ s.rest \in Seq(0..255)
  BY DEF Section
<1>2. Leb(s.tables, s.pad) \in Seq(0..255) /\ Len(Leb(s.tables, s.pad)) = s.pad
  BY <1>1, LebIs
<1>3. Payload(s) \in Seq(0..255)
  BY <1>1, <1>2 DEF Payload
<1> DEFINE p == Payload(s)
           l == Leb(Len(p), s.pad)
           b == SectionBytes(s)
<1>4. l \in Seq(0..255) /\ Len(l) = s.pad
  <2>1. Len(p) \in Nat /\ s.pad \in Nat \ {0}
    BY <1>1, <1>3
  <2> HIDE DEF p
  <2> QED BY <2>1, LebIsBytes, Zenon
<1>5. b = (<<s.id>> \o l) \o p
  BY DEF SectionBytes
<1>6. s.id = 4 => p = Leb(s.tables, s.pad) \o s.rest
  BY DEF Payload
<1> HIDE DEF p, l, b
<1>7. <<s.id>> \o l \in Seq(0..255) /\ Len(<<s.id>> \o l) = 1 + s.pad
  <2>1. <<s.id>> \in Seq(0..255) /\ Len(<<s.id>>) = 1
    BY <1>1
  <2> QED BY <1>1, <1>4, <2>1
<1>8. b \in Seq(0..255) /\ Len(b) = (1 + s.pad) + Len(p) /\ p \in Seq(0..255)
  BY <1>1, <1>3, <1>5, <1>7 DEF p
<1>9. b[1] = s.id
  <2>1. (<<s.id>> \o l)[1] = s.id
    BY <1>1, <1>4
  <2>2. 1 <= 1 + s.pad
    BY <1>1
  <2> QED BY <1>3, <1>5, <1>7, <2>1, <2>2 DEF p
<1>10. ASSUME NEW k \in 1..s.pad PROVE b[1 + k] = l[k]
  <2>1. 1 + k \in 2..(1 + s.pad) /\ (1 + k) - 1 = k
    BY <1>1
  <2>2. (<<s.id>> \o l)[1 + k] = l[k]
    BY <1>1, <1>4, <2>1
  <2>3. b[1 + k] = (<<s.id>> \o l)[1 + k]
    BY <1>5, <1>7, <1>8, <2>1
  <2> QED BY <2>2, <2>3
<1>11. ASSUME s.id = 4, NEW k \in 1..s.pad
       PROVE  /\ (1 + s.pad) + k <= Len(b)
              /\ b[(1 + s.pad) + k] = Leb(s.tables, s.pad)[k]
  <2> DEFINE t == Leb(s.tables, s.pad)
             h == <<s.id>> \o l
             n == s.pad
  <2>1. t \in Seq(0..255) /\ Len(t) = n /\ p = t \o s.rest
    BY <1>2, <1>6, <1>11
  <2>2. h \in Seq(0..255) /\ Len(h) = 1 + n /\ b = h \o p
    BY <1>5, <1>7
  <2>3. k \in 1..n /\ n \in Nat
    BY <1>1
  <2> HIDE DEF t, h, n
  <2>4. Len(p) = Len(t) + Len(s.rest) /\ \A x \in 1..Len(t) : p[x] = t[x]
    <3>1. t \in Seq(0..255) /\ s.rest \in Seq(0..255)
      BY <1>1, <2>1
    <3>2. /\ Len(t \o s.rest) = Len(t) + Len(s.rest)
          /\ \A x \in 1..Len(t) : (t \o s.rest)[x] = t[x]
      BY <3>1, Concatenation
    <3> QED BY <2>1, <3>2, Zenon
  <2>5. Len(b) = Len(h) + Len(p) /\ \A x \in 1..Len(p) : b[Len(h) + x] = p[x]
    <3>1. /\ Len(h \o p) = Len(h) + Len(p)
          /\ \A x \in 1..Len(p) : (h \o p)[Len(h) + x] = p[x]
      <4>1. h \in Seq(0..255) /\ p \in Seq(0..255)
        BY <1>8, <2>2
      <4> QED BY <4>1, Concatenation
    <3> QED BY <2>2, <3>1, Zenon
  <2>6. k \in 1..Len(t) /\ k \in 1..Len(p) /\ Len(s.rest) \in Nat
    <3>1. Len(s.rest) \in Nat
      BY <1>1
    <3> QED BY <2>1, <2>3, <2>4, <3>1
  <2>7. b[(1 + n) + k] = t[k] /\ (1 + n) + k <= Len(b)
    BY <2>2, <2>3, <2>4, <2>5, <2>6
  <2> QED BY <2>7 DEF t, n
<1> QED BY <1>8, <1>9, <1>10, <1>11 DEF p, l, b

LEMMA PrefixesAre ==
  ASSUME NEW m, m.sections \in Seq(Section)
  PROVE  /\ Prefixes(m)[0] = <<>>
         /\ \A i \in 0..Len(m.sections) : Prefixes(m)[i] \in Seq(0..255)
         /\ \A i \in 1..Len(m.sections) :
              Prefixes(m)[i] = Prefixes(m)[i - 1] \o SectionBytes(m.sections[i])
<1> DEFINE S == Seq(0..255)
           secs == m.sections
           N == Len(secs)
           g == [q \in Nat \X S |-> IF q[1] \in 1..N THEN q[2] \o SectionBytes(secs[q[1]]) ELSE q[2]]
           Is(f) == f = [i \in 0..N |-> IF i = 0 THEN <<>>
                                        ELSE f[i - 1] \o SectionBytes(secs[i])]
           d == Prefixes(m)
<1>1. N \in Nat /\ <<>> \in S /\ \A i \in 1..N : SectionBytes(secs[i]) \in S
  BY SectionIs
<1>2. g \in [Nat \X S -> S]
  <2>1. \A a, b \in S : a \o b \in S
    OBVIOUS
  <2> HIDE DEF S, N, secs
  <2> QED BY <1>1, <2>1
<1>3. PICK f : Follows(f, S, <<>>, g, N)
  <2> HIDE DEF g, S, N
  <2>1. Recipe(S, <<>>, g, N)
    BY <1>1, <1>2 DEF Recipe
  <2> QED BY <2>1, Recursion
<1>4. Is(f)
  <2>1. ASSUME NEW i \in 0..N, i # 0 PROVE f[i] = f[i - 1] \o SectionBytes(secs[i])
    <3>1. i \in 1..N /\ i - 1 \in 0..N /\ i \in Nat
      BY <1>1, <2>1
    <3> HIDE DEF S, N, secs, g
    <3>2. f[i - 1] \in S /\ f[i] = g[<<i, f[i - 1]>>]
      BY <1>3, <3>1 DEF Follows
    <3>3. <<i, f[i - 1]>> \in Nat \X S
      BY <3>1, <3>2
    <3> QED BY <3>1, <3>2, <3>3 DEF g
  <2> HIDE DEF S, N, secs, g
  <2> QED BY <1>3, <2>1 DEF Follows
<1>5. Is(d)
  <2>1. d = CHOOSE h : Is(h)
    BY DEF Prefixes
  <2> HIDE DEF d, Is
  <2> QED BY <1>4, <2>1
<1> HIDE DEF S, d, secs, N
<1>6. d[0] = <<>> /\ \A i \in 1..N : d[i] = d[i - 1] \o SectionBytes(secs[i])
  <2>1. \A i \in 0..N : d[i] = IF i = 0 THEN <<>> ELSE d[i - 1] \o SectionBytes(secs[i])
    BY <1>5
  <2>2. 0 \in 0..N /\ \A i \in 1..N : i \in 0..N /\ i # 0
    BY <1>1
  <2> QED BY <2>1, <2>2
<1> DEFINE T == {i \in Nat : i <= N => d[i] \in S}
<1>7. T = Nat
  <2>1. 0 \in T
    BY <1>1, <1>6
  <2>2. ASSUME NEW i \in T PROVE i + 1 \in T
    <3>1. CASE i + 1 <= N
      <4>1. i + 1 \in 1..N /\ (i + 1) - 1 = i /\ d[i] \in S
        BY <1>1, <3>1
      <4>2. d[i + 1] = d[i] \o SectionBytes(secs[i + 1])
        BY <1>6, <4>1
      <4>3. SectionBytes(secs[i + 1]) \in S
        BY <1>1, <4>1
      <4>4. d[i + 1] \in S
        BY <4>1, <4>2, <4>3 DEF S
      <4> QED BY <4>1, <4>4
    <3> QED BY <3>1
  <2>3. T \in SUBSET Nat
    OBVIOUS
  <2> HIDE DEF T
  <2> QED BY <2>1, <2>2, <2>3, Counting
<1>8. ASSUME NEW i \in 0..N PROVE d[i] \in S
  <2>1. i \in T
    <3> HIDE DEF T
    <3> QED BY <1>1, <1>7
  <2> QED BY <1>1, <2>1
<1> QED BY <1>6, <1>8 DEF d, S, N, secs

LEMMA WholeIs ==
  ASSUME NEW m, m.sections \in Seq(Section)
  PROVE  /\ Whole(m) \in Seq(0..255)
         /\ \A i \in 0..Len(m.sections) :
              /\ Len(Prefixes(m)[i]) \in Nat /\ Len(Prefixes(m)[i]) <= Len(Whole(m))
              /\ \A k \in 1..Len(Prefixes(m)[i]) : Whole(m)[k] = Prefixes(m)[i][k]
<1> DEFINE N == Len(m.sections)
           p == Prefixes(m)
           w == Whole(m)
           Heads(i) == Len(p[i]) <= Len(w) /\ \A k \in 1..Len(p[i]) : w[k] = p[i][k]
<1>1. /\ N \in Nat /\ \A i \in 0..N : p[i] \in Seq(0..255)
      /\ \A i \in 1..N : SectionBytes(m.sections[i]) \in Seq(0..255)
                       /\ p[i] = p[i - 1] \o SectionBytes(m.sections[i])
  <2>1. ASSUME NEW i \in 1..N PROVE SectionBytes(m.sections[i]) \in Seq(0..255)
    <3>1. m.sections[i] \in Section
      OBVIOUS
    <3> QED BY <3>1, SectionIs
  <2>2. /\ \A i \in 0..N : p[i] \in Seq(0..255)
        /\ \A i \in 1..N : p[i] = p[i - 1] \o SectionBytes(m.sections[i])
    BY PrefixesAre
  <2>3. N \in Nat
    OBVIOUS
  <2> HIDE DEF p, N
  <2> QED BY <2>1, <2>2, <2>3
<1>2. w = p[N] /\ N \in 0..N
  BY <1>1 DEF Whole
<1> HIDE DEF N, p, w
<1>3. w \in Seq(0..255)
  BY <1>1, <1>2
<1> DEFINE T == {k \in Nat : k <= N => Heads(N - k)}
<1>4. T = Nat
  <2>1. 0 \in T
    <3>1. Heads(N)
      <4>1. Len(w) \in Nat
        BY <1>3
      <4> QED BY <1>2, <4>1
    <3>2. N - 0 = N
      BY <1>1
    <3> HIDE DEF Heads
    <3> QED BY <3>1, <3>2
  <2>2. ASSUME NEW k \in T PROVE k + 1 \in T
    <3>1. CASE k + 1 <= N
      <4> DEFINE i == N - k
                 c == SectionBytes(m.sections[i])
      <4>1. i \in 1..N /\ i - 1 \in 0..N /\ i \in 0..N /\ N - (k + 1) = i - 1 /\ k \in Nat
        BY <1>1, <3>1
      <4>2. Heads(i)
        <5>1. k <= N => Heads(N - k)
          OBVIOUS
        <5>2. k <= N
          BY <1>1, <3>1, <4>1
        <5> HIDE DEF Heads, T
        <5> QED BY <5>1, <5>2
      <4> HIDE DEF i, c, Heads
      <4>3. p[i - 1] \in Seq(0..255) /\ c \in Seq(0..255) /\ p[i] = p[i - 1] \o c
        BY <1>1, <4>1 DEF c
      <4>4. /\ Len(p[i]) = Len(p[i - 1]) + Len(c) /\ Len(p[i - 1]) \in Nat /\ Len(c) \in Nat
            /\ \A x \in 1..Len(p[i - 1]) : p[i][x] = p[i - 1][x]
        BY <4>3, Concatenation
      <4>5. Heads(i - 1)
        <5>1. Len(w) \in Nat
          BY <1>3
        <5>2. Len(p[i]) <= Len(w) /\ \A x \in 1..Len(p[i]) : w[x] = p[i][x]
          BY <4>2 DEF Heads
        <5>3. \A x \in 1..Len(p[i - 1]) : x \in 1..Len(p[i])
          BY <4>4
        <5> QED BY <4>4, <5>1, <5>2, <5>3 DEF Heads
      <4> QED BY <4>1, <4>5
    <3>2. CASE ~(k + 1 <= N)
      BY <3>2
    <3> QED BY <3>1, <3>2
  <2>3. T \in SUBSET Nat
    OBVIOUS
  <2> HIDE DEF T
  <2> QED BY <2>1, <2>2, <2>3, Counting
<1>5. ASSUME NEW i \in 0..N PROVE Heads(i) /\ Len(p[i]) \in Nat
  <2>1. N - i \in T
    <3> HIDE DEF T
    <3> QED BY <1>1, <1>4
  <2>2. N - i <= N /\ N - (N - i) = i
    BY <1>1
  <2>3. Heads(i)
    <3> HIDE DEF Heads
    <3>1. Heads(N - (N - i))
      BY <2>1, <2>2
    <3> QED BY <2>2, <3>1
  <2> QED BY <1>1, <2>3
<1> QED BY <1>3, <1>5 DEF N, p, w

\* Where a section of a module begins, the walk reads what it says.
LEMMA SectionsAreRead ==
  ASSUME NEW m, ValidModule(m), bytes = Whole(m), NEW i \in 1..Len(m.sections),
         cursor = Len(Prefixes(m)[i - 1]) + 1
  PROVE  LET s == m.sections[i]
             payload == LebEnd(cursor + 1) + 1
         IN /\ cursor <= Len(bytes) /\ Byte(cursor) = s.id
            /\ payload + U32(cursor + 1) = Len(Prefixes(m)[i]) + 1
            /\ s.id = 4 => U32(payload) = s.tables
<1> DEFINE s == m.sections[i]
           c == SectionBytes(s)
           n == Len(Prefixes(m)[i - 1])
           z == Len(Prefixes(m)[i])
           l == Len(Payload(s))
           pad == s.pad
<1>1. m.sections \in Seq(Section) /\ s \in Section /\ Fits(l, pad) /\ (s.id = 4 => Fits(s.tables, pad))
  BY DEF ValidModule
<1>2. pad \in Nat \ {0} /\ s.id \in 0..255 /\ s.tables \in Nat
  BY <1>1 DEF Section
<1>3. /\ l \in Nat /\ c \in Seq(0..255) /\ Len(c) = (1 + pad) + l /\ c[1] = s.id
      /\ \A k \in 1..pad : c[1 + k] = Leb(l, pad)[k]
      /\ s.id = 4 => \A k \in 1..pad : /\ (1 + pad) + k <= Len(c)
                                       /\ c[(1 + pad) + k] = Leb(s.tables, pad)[k]
  <2>1. s \in Section
    BY <1>1
  <2> HIDE DEF s
  <2>2. Payload(s) \in Seq(0..255)
    BY <2>1, SectionIs
  <2>3. l \in Nat
    BY <2>2
  <2> QED BY <2>1, <2>3, SectionIs
<1>4. /\ n \in Nat /\ z = n + Len(c)
      /\ \A k \in 1..Len(c) : n + k \in DOMAIN bytes /\ bytes[n + k] = c[k]
  <2> DEFINE a == Prefixes(m)[i - 1]
             b == Prefixes(m)[i]
  <2>1. i - 1 \in 0..Len(m.sections) /\ i \in 0..Len(m.sections)
    BY <1>1
  <2>2. a \in Seq(0..255) /\ b = a \o c
    BY <1>1, <2>1, PrefixesAre
  <2>3. bytes \in Seq(0..255) /\ Len(b) <= Len(bytes) /\ \A k \in 1..Len(b) : bytes[k] = b[k]
    BY <1>1, <2>1, WholeIs
  <2>4. n = Len(a) /\ z = Len(b)
    OBVIOUS
  <2> HIDE DEF a, b, c, n, z
  <2>5. Len(b) = Len(a) + Len(c) /\ \A k \in 1..Len(c) : b[Len(a) + k] = c[k]
    <3>1. a \in Seq(0..255) /\ c \in Seq(0..255)
      BY <1>3, <2>2
    <3>2. Len(a \o c) = Len(a) + Len(c) /\ \A k \in 1..Len(c) : (a \o c)[Len(a) + k] = c[k]
      BY <3>1, Concatenation
    <3> QED BY <2>2, <3>2, Zenon
  <2>6. ASSUME NEW k \in 1..Len(c) PROVE n + k \in DOMAIN bytes /\ bytes[n + k] = c[k]
    <3>1. Len(a) \in Nat /\ Len(c) \in Nat /\ Len(bytes) \in Nat
      BY <1>3, <2>2, <2>3
    <3>2. n + k \in 1..Len(b) /\ n + k \in 1..Len(bytes)
      BY <2>3, <2>4, <2>5, <3>1
    <3>3. DOMAIN bytes = 1..Len(bytes)
      BY <2>3
    <3> QED BY <2>3, <2>4, <2>5, <3>2, <3>3
  <2> QED BY <2>2, <2>4, <2>5, <2>6
<1>5. bytes \in Seq(0..255)
  BY <1>1, WholeIs
<1> HIDE DEF s, c, n, z, l, pad
<1>6. cursor = n + 1
  BY DEF n
<1>7. cursor \in DOMAIN bytes /\ Byte(cursor) = s.id
  <2>1. 1 \in 1..Len(c)
    BY <1>2, <1>3
  <2> QED BY <1>3, <1>4, <1>6, <2>1 DEF Byte
<1>8. LebEnd(cursor + 1) = (n + 1) + pad /\ U32(cursor + 1) = l
  <2>1. LebAt(n + 2, l, pad)
    <3>1. ASSUME NEW k \in 1..pad PROVE /\ ((n + 2) + k) - 1 \in DOMAIN bytes
                                        /\ bytes[((n + 2) + k) - 1] = Leb(l, pad)[k]
      <4>1. ((n + 2) + k) - 1 = n + (1 + k) /\ 1 + k \in 1..Len(c)
        BY <1>2, <1>3, <1>4
      <4> QED BY <1>3, <1>4, <4>1
    <3> QED BY <3>1 DEF LebAt
  <2>2. n + 2 \in Nat \ {0} /\ cursor + 1 = n + 2 /\ ((n + 2) + pad) - 1 = (n + 1) + pad
    BY <1>2, <1>4, <1>6
  <2>3. LebEnd(n + 2) = ((n + 2) + pad) - 1 /\ U32(n + 2) = l
    BY <1>1, <1>2, <1>3, <1>5, <2>1, <2>2, NumbersAreRead
  <2> QED BY <2>2, <2>3
<1>9. ASSUME s.id = 4 PROVE U32((n + 2) + pad) = s.tables
  <2>1. LebAt((n + 2) + pad, s.tables, pad)
    <3>1. ASSUME NEW k \in 1..pad PROVE /\ (((n + 2) + pad) + k) - 1 \in DOMAIN bytes
                                        /\ bytes[(((n + 2) + pad) + k) - 1] = Leb(s.tables, pad)[k]
      <4>1. (((n + 2) + pad) + k) - 1 = n + ((1 + pad) + k)
        BY <1>2, <1>4
      <4>2. (1 + pad) + k \in 1..Len(c)
        BY <1>2, <1>3, <1>9
      <4> QED BY <1>3, <1>4, <1>9, <4>1, <4>2
    <3> QED BY <3>1 DEF LebAt
  <2>2. (n + 2) + pad \in Nat \ {0}
    BY <1>2, <1>4
  <2> QED BY <1>1, <1>2, <1>5, <1>9, <2>1, <2>2, NumbersAreRead
<1>10. /\ cursor <= Len(bytes)
       /\ (LebEnd(cursor + 1) + 1) + U32(cursor + 1) = z + 1
       /\ LebEnd(cursor + 1) + 1 = (n + 2) + pad
  <2>1. cursor <= Len(bytes)
    BY <1>5, <1>7
  <2>2. z = n + ((1 + pad) + l) /\ n \in Nat /\ l \in Nat /\ pad \in Nat
    BY <1>2, <1>3, <1>4
  <2>3. LebEnd(cursor + 1) + 1 = (n + 2) + pad
    BY <1>8, <2>2
  <2>4. ((n + 2) + pad) + l = z + 1
    BY <2>2
  <2> QED BY <1>8, <2>1, <2>3, <2>4
<1> QED BY <1>7, <1>9, <1>10 DEF s, z

-----------------------------------------------------------------------------
(* WasmScan: the walk stands where a section begins, and no table section  *)
(* is behind it.                                                           *)

IsCall == \E kind, module, at, count, outcome :
            wasmCall = [kind |-> kind, module |-> module, at |-> at, count |-> count,
                        outcome |-> outcome]
Complete == wasmCall.kind # "none" /\ wasmCall.module.header = "v1" /\ ~Truncated(wasmCall.module)
StandsAt(m, i) == /\ cursor = Len(Prefixes(m)[i]) + 1
                  /\ \A j \in TableSections(m) : i < j
Walked == LET m == wasmCall.module IN
  /\ wasmCall.at \in {"scan", "counted"} => wasmCall.outcome = "none"
  /\ wasmCall.at = "scan" => bytes = Whole(m) /\ \E i \in 0..Len(m.sections) : StandsAt(m, i)
  /\ wasmCall.at = "counted" => wasmCall.count = TablesOf(m)
WalkInv == /\ IsCall /\ (wasmCall.kind # "none" => wasmCall.module \in Modules)
           /\ (Complete => Walked) /\ TablesAreCounted

LEMMA ScanCallStep == ASSUME WalkInv, NEW kind \in {"translate", "validate"}, NEW m \in Modules,
                         WasmCall(kind, m)
                  PROVE  WalkInv'
<1>1. PICK none : NoCall = [kind |-> "none", module |-> none, at |-> "idle", count |-> 0,
                            outcome |-> "none"]
  BY DEF NoCall
<1>2. CASE m.header = "v1"
  <2>1. /\ wasmCall' = [kind |-> kind, module |-> m, at |-> "scan", count |-> 0, outcome |-> "none"]
        /\ bytes' = FileBytes(m) /\ cursor' = 1
    <3>1. wasmCall' = [NoCall EXCEPT !.kind = kind, !.module = m, !.at = "scan"]
      BY <1>2 DEF WasmCall
    <3> QED BY <1>1, <3>1 DEF WasmCall
  <2>2. /\ wasmCall'.kind = kind /\ wasmCall'.module = m /\ wasmCall'.at = "scan"
        /\ wasmCall'.outcome = "none" /\ bytes' = FileBytes(m) /\ cursor' = 1
    BY <2>1
  <2>3. ValidModule(m)
    BY <1>2, WasmAssumption
  <2>4. ASSUME ~Truncated(m)
        PROVE  bytes' = Whole(m) /\ \E i \in 0..Len(m.sections) : StandsAt(m, i)'
    <3>1. m.sections \in Seq(Section) /\ m.cut = 0
      BY <2>3, <2>4 DEF ValidModule, Truncated
    <3>2. Whole(m) \in Seq(0..255)
      BY <3>1, WholeIs
    <3>3. bytes' = Whole(m)
      <4> DEFINE w == Whole(m)
      <4>1. bytes' = SubSeq(w, 1, Len(w))
        <5>1. Len(w) - m.cut = Len(w)
          BY <3>1, <3>2
        <5> QED BY <2>2, <5>1 DEF FileBytes
      <4> HIDE DEF w
      <4>2. SubSeq(w, 1, Len(w)) = w
        BY <3>2 DEF w
      <4> QED BY <4>1, <4>2 DEF w
    <3>4. 0 \in 0..Len(m.sections) /\ Len(m.sections) \in Nat
      BY <3>1
    <3>5. StandsAt(m, 0)'
      <4>1. Prefixes(m)[0] = <<>>
        BY <3>1, PrefixesAre
      <4>2. cursor' = Len(Prefixes(m)[0]) + 1
        BY <2>2, <4>1
      <4>3. \A j \in TableSections(m) : 0 < j
        BY <3>1 DEF TableSections
      <4> QED BY <4>2, <4>3 DEF StandsAt
    <3> QED BY <3>3, <3>4, <3>5
  <2>5. IsCall'
    BY <2>1 DEF IsCall
  <2>6. (Complete => Walked)'
    BY <2>2, <2>4 DEF Complete, Walked
  <2>7. TablesAreCounted'
    BY <2>2 DEF TablesAreCounted
  <2> QED BY <2>2, <2>5, <2>6, <2>7 DEF WalkInv
<1>3. CASE m.header # "v1"
  <2>1. /\ wasmCall'.module = m
        /\ \E at, count, outcome : wasmCall' = [kind |-> kind, module |-> m, at |-> at,
                                               count |-> count, outcome |-> outcome]
    <3>1. CASE m.header = "no wasm" /\ kind = "validate"
      BY <1>1, <1>3, <3>1 DEF WasmCall
    <3>2. CASE ~(m.header = "no wasm" /\ kind = "validate")
      BY <1>1, <1>3, <3>2 DEF WasmCall
    <3> QED BY <3>1, <3>2
  <2>2. IsCall'
    BY <2>1 DEF IsCall
  <2>3. ~Complete' /\ TablesAreCounted'
    BY <1>3, <2>1 DEF Complete, TablesAreCounted
  <2> QED BY <2>1, <2>2, <2>3 DEF WalkInv
<1> QED BY <1>2, <1>3

LEMMA ScanSectionStep == ASSUME WalkInv, ScanSection PROVE WalkInv'
<1> DEFINE payload == LebEnd(cursor + 1) + 1
<1>1. PICK kind, m, at, count, outcome :
        wasmCall = [kind |-> kind, module |-> m, at |-> at, count |-> count, outcome |-> outcome]
  BY DEF WalkInv, IsCall
<1>2. wasmCall.at = "scan" /\ bytes' = bytes
  BY DEF ScanSection
<1>3. /\ Byte(cursor) = 4 => wasmCall' = [wasmCall EXCEPT !.at = "counted", !.count = U32(payload)]
      /\ Byte(cursor) # 4 => wasmCall' = wasmCall /\ cursor' = payload + U32(cursor + 1)
  BY DEF ScanSection, Counted
<1>4. /\ wasmCall'.kind = wasmCall.kind /\ wasmCall'.module = m /\ wasmCall.module = m
      /\ wasmCall'.outcome = outcome
      /\ Byte(cursor) = 4 => wasmCall'.at = "counted" /\ wasmCall'.count = U32(payload)
      /\ IsCall' /\ wasmCall.outcome = outcome
  <2>1. CASE Byte(cursor) = 4
    <3>1. wasmCall' = [kind |-> kind, module |-> m, at |-> "counted", count |-> U32(payload),
                       outcome |-> outcome]
      BY <1>1, <1>3, <2>1
    <3> HIDE DEF payload
    <3>2. IsCall'
      BY <3>1 DEF IsCall
    <3> QED BY <1>1, <3>1, <3>2
  <2>2. CASE Byte(cursor) # 4
    <3> HIDE DEF payload
    <3>1. IsCall'
      BY <1>1, <1>3, <2>2 DEF IsCall
    <3> QED BY <1>1, <1>3, <2>2, <3>1
  <2> QED BY <2>1, <2>2
<1>5. ASSUME Complete
      PROVE  /\ wasmCall'.at \in {"scan", "counted"} /\ wasmCall'.outcome = "none"
             /\ wasmCall'.at = "scan" => \E i \in 0..Len(m.sections) : StandsAt(m, i)'
             /\ wasmCall'.at = "counted" => wasmCall'.count = TablesOf(m)
             /\ bytes = Whole(m)
  <2>1. /\ bytes = Whole(m) /\ wasmCall.outcome = "none"
        /\ m \in Modules /\ m.header = "v1" /\ \E i \in 0..Len(m.sections) : StandsAt(m, i)
    BY <1>2, <1>4, <1>5 DEF WalkInv, Walked, Complete
  <2>2. ValidModule(m) /\ m.sections \in Seq(Section)
    BY <2>1, WasmAssumption DEF ValidModule
  <2>3. PICK h \in 0..Len(m.sections) : StandsAt(m, h)
    BY <2>1
  <2>4. h # Len(m.sections)
    <3>1. Prefixes(m)[Len(m.sections)] = Whole(m)
      BY DEF Whole
    <3>2. Whole(m) \in Seq(0..255) /\ cursor <= Len(bytes)
      BY <2>2, WholeIs DEF ScanSection
    <3>3. Len(Whole(m)) \in Nat
      BY <3>2
    <3> QED BY <2>1, <2>3, <3>1, <3>2, <3>3 DEF StandsAt
  <2> DEFINE i == h + 1
  <2>5. i \in 1..Len(m.sections) /\ i - 1 = h /\ i \in 0..Len(m.sections) /\ h \in Nat
    BY <2>2, <2>4
  <2> HIDE DEF i
  <2>6. /\ Byte(cursor) = m.sections[i].id
        /\ payload + U32(cursor + 1) = Len(Prefixes(m)[i]) + 1
        /\ m.sections[i].id = 4 => U32(payload) = m.sections[i].tables
    <3>1. cursor = Len(Prefixes(m)[i - 1]) + 1
      BY <2>3, <2>5 DEF StandsAt
    <3> QED BY <2>1, <2>2, <2>5, <3>1, SectionsAreRead
  <2>7. CASE Byte(cursor) = 4
    <3>1. i \in TableSections(m)
      <4>1. i \in DOMAIN m.sections /\ m.sections[i].id = 4
        BY <2>2, <2>5, <2>6, <2>7
      <4> QED BY <4>1 DEF TableSections
    <3>2. TablesOf(m) = m.sections[i].tables
      <4>1. (CHOOSE j \in TableSections(m) : TRUE) = i
        BY <2>2, <3>1 DEF ValidModule
      <4> QED BY <3>1, <4>1 DEF TablesOf
    <3> QED BY <1>4, <2>1, <2>6, <2>7, <3>2
  <2>8. CASE Byte(cursor) # 4
    <3>1. wasmCall' = wasmCall /\ cursor' = Len(Prefixes(m)[i]) + 1
      BY <1>3, <2>6, <2>8
    <3>2. ASSUME NEW j \in TableSections(m) PROVE i < j
      <4>1. j \in Nat /\ h < j /\ j # i
        BY <2>2, <2>3, <2>6, <2>8 DEF TableSections, StandsAt
      <4> QED BY <2>5, <4>1 DEF i
    <3>3. StandsAt(m, i)'
      BY <3>1, <3>2 DEF StandsAt
    <3> QED BY <1>2, <2>1, <2>5, <3>1, <3>3
  <2> QED BY <2>7, <2>8
<1>6. Complete' => Complete
  BY <1>4 DEF Complete
<1>7. (Complete => Walked)'
  <2>1. ASSUME Complete' PROVE Walked'
    <3>1. Complete
      BY <1>6, <2>1
    <3> QED BY <1>2, <1>4, <1>5, <3>1 DEF Walked
  <2> QED BY <2>1
<1>8. TablesAreCounted'
  BY <1>4, <1>5, <1>6 DEF TablesAreCounted, Complete
<1> QED BY <1>4, <1>7, <1>8 DEF WalkInv

LEMMA TablesOfType == ASSUME NEW m, ValidModule(m) PROVE TablesOf(m) \in Nat
<1>1. ASSUME NEW i \in TableSections(m) PROVE m.sections[i].tables \in Nat
  <2>1. m.sections[i] \in Section
    BY DEF ValidModule, TableSections
  <2> QED BY <2>1 DEF Section
<1>2. TableSections(m) # {} => (CHOOSE i \in TableSections(m) : TRUE) \in TableSections(m)
  OBVIOUS
<1> QED BY <1>1, <1>2 DEF TablesOf

\* The other steps leave kind and module, and the walk's own state when it goes on.
LEMMA ScanLaterStep == ASSUME WalkInv, ScanEnds \/ ToBridge \/ BibWasm2js PROVE WalkInv'
<1>1. PICK kind, m, at, count, outcome :
        wasmCall = [kind |-> kind, module |-> m, at |-> at, count |-> count, outcome |-> outcome]
  BY DEF WalkInv, IsCall
<1>2. /\ wasmCall.kind = kind /\ wasmCall.module = m /\ wasmCall.at = at /\ wasmCall.count = count
      /\ wasmCall.outcome = outcome
  BY <1>1
<1>3. ASSUME NEW to, NEW n, NEW end,
             wasmCall' = [kind |-> kind, module |-> m, at |-> to, count |-> n, outcome |-> end],
             to \notin {"scan", "counted"},
             Complete => /\ to = "bridge" \/ end \in {"factory", "CompileError"} => TablesOf(m) < 2
                         /\ end = "refused" => TablesOf(m) >= 2
      PROVE  WalkInv'
  <2>1. /\ wasmCall'.kind = kind /\ wasmCall'.module = m /\ wasmCall'.at = to
        /\ wasmCall'.outcome = end
    BY <1>3
  <2>2. IsCall'
    BY <1>3 DEF IsCall
  <2>3. Complete' <=> Complete
    BY <1>2, <2>1 DEF Complete
  <2>4. Walked'
    BY <1>3, <2>1 DEF Walked
  <2>5. TablesAreCounted'
    BY <1>3, <2>1, <2>3 DEF TablesAreCounted, Complete
  <2> QED BY <1>2, <2>1, <2>2, <2>4, <2>5 DEF WalkInv
<1>4. ASSUME Complete PROVE m \in Modules /\ ValidModule(m) /\ TablesOf(m) \in Nat
  <2>1. m \in Modules /\ m.header = "v1"
    BY <1>2, <1>4 DEF WalkInv, Complete
  <2> QED BY <2>1, WasmAssumption, TablesOfType
<1>5. CASE ScanEnds
  <2>1. /\ wasmCall' = [kind |-> kind, module |-> m, at |-> "counted", count |-> 0, outcome |-> outcome]
        /\ at = "scan" /\ cursor > Len(bytes)
    BY <1>1, <1>2, <1>5 DEF ScanEnds, Counted
  <2>2. /\ wasmCall'.kind = kind /\ wasmCall'.module = m /\ wasmCall'.at = "counted"
        /\ wasmCall'.outcome = outcome /\ wasmCall'.count = 0
    BY <2>1
  <2>3. Complete' <=> Complete
    BY <1>2, <2>2 DEF Complete
  <2>4. ASSUME Complete PROVE outcome = "none" /\ TablesOf(m) = 0
    <3>1. outcome = "none" /\ bytes = Whole(m) /\ \E i \in 0..Len(m.sections) : StandsAt(m, i)
      BY <1>2, <2>1, <2>4 DEF WalkInv, Walked
    <3>2. PICK h \in 0..Len(m.sections) : StandsAt(m, h)
      BY <3>1
    <3>3. m.sections \in Seq(Section)
      BY <1>4, <2>4 DEF ValidModule
    <3>4. h = Len(m.sections)
      <4>1. CASE h # Len(m.sections)
        <5> DEFINE i == h + 1
        <5>1. i \in 1..Len(m.sections) /\ i - 1 = h
          BY <3>3, <4>1
        <5> HIDE DEF i
        <5>2. cursor = Len(Prefixes(m)[i - 1]) + 1
          BY <3>2, <5>1 DEF StandsAt
        <5>3. cursor <= Len(bytes)
          BY <1>4, <2>4, <3>1, <5>1, <5>2, SectionsAreRead
        <5>4. Whole(m) \in Seq(0..255) /\ Len(Prefixes(m)[h]) \in Nat
          BY <3>3, WholeIs
        <5>5. Len(bytes) \in Nat /\ cursor \in Nat
          BY <3>1, <5>1, <5>2, <5>4
        <5> QED BY <2>1, <5>3, <5>5
      <4> QED BY <4>1
    <3>5. TableSections(m) = {}
      BY <3>2, <3>3, <3>4 DEF StandsAt, TableSections
    <3> QED BY <3>1, <3>5 DEF TablesOf
  <2>5. IsCall'
    BY <2>1 DEF IsCall
  <2>6. (Complete => Walked)'
    BY <2>2, <2>3, <2>4 DEF Walked
  <2>7. TablesAreCounted'
    BY <2>2, <2>3, <2>4 DEF TablesAreCounted, Complete
  <2> QED BY <1>2, <2>2, <2>5, <2>6, <2>7 DEF WalkInv
<1>6. CASE ToBridge
  <2>1. at = "counted"
    BY <1>2, <1>6 DEF ToBridge
  <2>2. Complete => count = TablesOf(m) /\ outcome = "none"
    BY <1>2, <2>1 DEF WalkInv, Walked
  <2>3. CASE TooMany
    <3>1. PICK end : /\ wasmCall' = [kind |-> kind, module |-> m, at |-> "idle", count |-> count,
                                     outcome |-> end]
                     /\ end \in {"refused", "true"}
      BY <1>1, <1>6, <2>3 DEF ToBridge, WasmAnswers
    <3>2. Complete => TablesOf(m) >= 2
      BY <1>2, <1>4, <2>2, <2>3 DEF TooMany
    <3> QED BY <1>3, <3>1, <3>2
  <2>4. CASE ~TooMany
    <3>1. wasmCall' = [kind |-> kind, module |-> m, at |-> "bridge", count |-> count,
                       outcome |-> outcome]
      BY <1>1, <1>6, <2>4 DEF ToBridge
    <3>2. Complete => TablesOf(m) < 2
      BY <1>2, <1>4, <2>2, <2>4 DEF TooMany
    <3> QED BY <1>3, <2>2, <3>1, <3>2
  <2> QED BY <2>3, <2>4
<1>7. CASE BibWasm2js
  <2>1. at = "bridge"
    BY <1>2, <1>7 DEF BibWasm2js
  <2>2. PICK end : /\ wasmCall' = [kind |-> kind, module |-> m, at |-> "idle", count |-> count,
                                   outcome |-> end]
                   /\ end \in {"CompileError", "false", "true", "factory"}
    BY <1>1, <1>7 DEF BibWasm2js, WasmAnswers
  <2>3. Complete => TablesOf(m) < 2
    BY <1>2, <2>1 DEF WalkInv, TablesAreCounted, Complete
  <2> QED BY <1>3, <2>2, <2>3
<1> QED BY <1>5, <1>6, <1>7

\* A complete module is refused at once exactly if it defines two tables or more, and
\* goes to binaryen if not, for any sections, sizes and ways to pad their numbers.
THEOREM ScansCountTables == WasmSpec => []TablesAreCounted
<1>1. WasmInit => WalkInv
  <2> SUFFICES ASSUME WasmInit PROVE WalkInv
    OBVIOUS
  <2>1. PICK none : NoCall = [kind |-> "none", module |-> none, at |-> "idle", count |-> 0,
                              outcome |-> "none"]
    BY DEF NoCall
  <2>2. wasmCall = [kind |-> "none", module |-> none, at |-> "idle", count |-> 0,
                    outcome |-> "none"]
    BY <2>1 DEF WasmInit
  <2>3. IsCall
    BY <2>2 DEF IsCall
  <2> QED BY <2>2, <2>3 DEF WalkInv, Complete, TablesAreCounted
<1>2. WalkInv /\ [WasmNext]_wasmVars => WalkInv'
  <2> SUFFICES ASSUME WalkInv, [WasmNext]_wasmVars PROVE WalkInv'
    OBVIOUS
  <2>1. CASE UNCHANGED <<bytes, cursor, wasmCall>>
    BY <2>1 DEF WalkInv, IsCall, Complete, Walked, StandsAt, TablesAreCounted
  <2>2. CASE BinaryenLoads \/ UNCHANGED wasmVars
    BY <2>1, <2>2 DEF BinaryenLoads, wasmVars
  <2> QED BY <2>2, ScanCallStep, ScanSectionStep, ScanLaterStep DEF WasmNext
<1> QED BY <1>1, <1>2, PTL DEF WalkInv, WasmSpec

===============================================================================
