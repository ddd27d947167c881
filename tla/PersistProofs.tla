----------------------------- MODULE PersistProofs -----------------------------
(***************************************************************************)
(* For any tabs, sites and values: a page never writes an older snapshot   *)
(* over a newer one of its own, the newest one its engine sent is not      *)
(* dropped, and a session keeps what it did not visit.                     *)
(***************************************************************************)
EXTENDS Persist, TLAPS

Snapshots == [by : ViewerTabs, stamp : Nat, data : Stored]
Pages == [open : BOOLEAN, on : BOOLEAN, pending : Snapshots \cup {NoSnapshot}, timer : BOOLEAN,
          writing : SUBSET Snapshots, wrote : Nat]
Profiles == [running : BOOLEAN, basis : Snapshots \cup {NoSnapshot}, seed : Stored, opened : SUBSET Origins,
             areas : Stored, touched : SUBSET Origins, last : Stored \cup {NoSnapshot}, sent : Nat,
             unsent : BOOLEAN]

\* Every snapshot is a whole profile with a number.
PersistTypeOK ==
  /\ file \in Snapshots \cup {NoSnapshot} /\ stamp \in Nat
  /\ profiles \in [ViewerTabs -> Profiles] /\ pages \in [ViewerTabs -> Pages]
  /\ dumps \in [ViewerTabs -> Seq(Snapshots)]

\* On its way to the file nothing overtakes: wrote, writing, pending, then d, the dumps.
Ordered(p, d, n) ==
  /\ \A w, x \in p.writing : w = x
  /\ \A w \in p.writing : p.wrote < w.stamp /\ w.stamp <= n
  /\ p.wrote <= n
  /\ p.pending # NoSnapshot =>
       /\ p.wrote < p.pending.stamp /\ p.pending.stamp <= n /\ (p.timer \/ p.writing # {})
       /\ \A w \in p.writing : w.stamp < p.pending.stamp
  /\ \A i \in 1..Len(d) :
       /\ p.wrote < d[i].stamp /\ d[i].stamp <= n
       /\ \A w \in p.writing : w.stamp < d[i].stamp
       /\ p.pending # NoSnapshot => p.pending.stamp < d[i].stamp
       /\ \A j \in 1..Len(d) : i < j => d[i].stamp < d[j].stamp

\* The last of them all is the one the engine sent last.
Newest(p, d, sent) ==
  /\ d # <<>> => d[Len(d)].stamp = sent
  /\ d = <<>> /\ p.pending # NoSnapshot => p.pending.stamp = sent
  /\ d = <<>> /\ p.pending = NoSnapshot => \A w \in p.writing : w.stamp = sent
  /\ d = <<>> /\ p.pending = NoSnapshot /\ p.writing = {} => p.wrote = sent

\* The page's operations keep both.
LEMMA BeginKeeps ==
  ASSUME NEW p \in Pages, NEW d \in Seq(Snapshots), NEW n \in Nat, p.writing = {},
         Ordered([p EXCEPT !.timer = TRUE], d, n)
  PROVE  /\ Begin(p) \in Pages /\ Ordered(Begin(p), d, n) /\ Begin(p).wrote = p.wrote
         /\ Begin(p).open = p.open /\ Begin(p).on = p.on
         /\ \A sent \in Nat : Newest(p, d, sent) => Newest(Begin(p), d, sent)
<1>1. CASE p.pending = NoSnapshot
  BY <1>1 DEF Begin, Ordered, Pages
<1>2. CASE p.pending # NoSnapshot
  <2>1. /\ p.pending \in Snapshots
        /\ Begin(p) = [p EXCEPT !.writing = {p.pending}, !.pending = NoSnapshot]
    BY <1>2 DEF Begin, Pages
  <2>2. /\ Begin(p) \in Pages /\ Begin(p).wrote = p.wrote /\ Begin(p).open = p.open /\ Begin(p).on = p.on
        /\ Begin(p).pending = NoSnapshot /\ Begin(p).writing = {p.pending}
    BY <2>1, ZenonT(30) DEF Pages
  <2>3. /\ [p EXCEPT !.timer = TRUE].wrote = p.wrote /\ [p EXCEPT !.timer = TRUE].pending = p.pending
        /\ [p EXCEPT !.timer = TRUE].writing = {}
    BY DEF Pages
  <2>4. Ordered(Begin(p), d, n)
    BY <1>2, <2>2, <2>3 DEF Ordered
  <2>5. \A sent \in Nat : Newest(p, d, sent) => Newest(Begin(p), d, sent)
    BY <1>2, <2>2 DEF Newest
  <2> QED BY <2>2, <2>4, <2>5
<1> QED BY <1>1, <1>2

LEMMA QueuedKeeps ==
  ASSUME NEW p \in Pages, NEW d \in Seq(Snapshots), d # <<>>, NEW n \in Nat, Ordered(p, d, n)
  PROVE  /\ Queued(p, Head(d)) \in Pages /\ Ordered(Queued(p, Head(d)), Tail(d), n)
         /\ Queued(p, Head(d)).wrote = p.wrote /\ Queued(p, Head(d)).open = p.open
         /\ Queued(p, Head(d)).on = p.on
         /\ \A sent \in Nat : p.on /\ Newest(p, d, sent) => Newest(Queued(p, Head(d)), Tail(d), sent)
<1>1. /\ Head(d) = d[1] /\ d[1] \in Snapshots /\ Len(d) \in Nat /\ Len(d) > 0
      /\ Tail(d) \in Seq(Snapshots) /\ Len(Tail(d)) = Len(d) - 1 /\ \A i \in 1..(Len(d) - 1) : Tail(d)[i] = d[i + 1]
  OBVIOUS
<1>2. \A i \in 1..Len(Tail(d)) : Tail(d)[i] = d[i + 1] /\ i + 1 \in 1..Len(d) /\ 1 < i + 1
  BY <1>1
<1>3. CASE ~p.on
  BY <1>1, <1>2, <1>3 DEF Queued, Ordered
<1>4. CASE p.on
  <2>1. /\ Queued(p, Head(d)) \in Pages /\ Queued(p, Head(d)).wrote = p.wrote
        /\ Queued(p, Head(d)).open = p.open /\ Queued(p, Head(d)).on = p.on
        /\ Queued(p, Head(d)).writing = p.writing /\ Queued(p, Head(d)).pending = d[1] /\ Queued(p, Head(d)).timer
    BY <1>1, <1>4 DEF Queued, Pages
  <2>2. \A i \in 1..Len(Tail(d)) : d[1].stamp < Tail(d)[i].stamp
    BY <1>1, <1>2 DEF Ordered
  <2>3. Ordered(Queued(p, Head(d)), Tail(d), n)
    BY <1>1, <1>2, <2>1, <2>2 DEF Ordered
  <2>4. \A sent \in Nat : Newest(p, d, sent) => Newest(Queued(p, Head(d)), Tail(d), sent)
    <3>1. d[1] # NoSnapshot
      BY <1>1, SnapshotAssumption DEF Snapshots, Stored
    <3>2. Tail(d) = <<>> => Len(d) = 1
      BY <1>1
    <3>3. Tail(d) # <<>> => Tail(d)[Len(Tail(d))] = d[Len(d)]
      BY <1>1
    <3> QED BY <2>1, <3>1, <3>2, <3>3 DEF Newest
  <2> QED BY <2>1, <2>3, <2>4
<1> QED BY <1>3, <1>4

LEMMA WroteKeeps ==
  ASSUME NEW p \in Pages, NEW d \in Seq(Snapshots), NEW n \in Nat, Ordered(p, d, n), NEW s \in p.writing
  PROVE  /\ Landed(p, s) \in Pages /\ Landed(p, s).writing = {} /\ Landed(p, s).wrote = s.stamp
         /\ p.wrote < s.stamp /\ Landed(p, s).open = p.open /\ Landed(p, s).on = p.on
         /\ Ordered([Landed(p, s) EXCEPT !.timer = TRUE], d, n)
         /\ \A sent \in Nat : Newest(p, d, sent) => Newest(Landed(p, s), d, sent)
<1> DEFINE q == Landed(p, s)
<1>1. /\ q \in Pages /\ q.wrote = s.stamp /\ q.open = p.open /\ q.on = p.on /\ q.pending = p.pending
      /\ q.writing = p.writing \ {s} /\ s \in Snapshots
  BY DEF Landed, Pages, Snapshots
<1>2. q.writing = {} /\ p.wrote < s.stamp
  BY <1>1 DEF Ordered
<1>3. /\ [q EXCEPT !.timer = TRUE].wrote = s.stamp /\ [q EXCEPT !.timer = TRUE].pending = p.pending
      /\ [q EXCEPT !.timer = TRUE].writing = {} /\ [q EXCEPT !.timer = TRUE].timer
  BY <1>1, <1>2 DEF Pages
<1>4. Ordered([q EXCEPT !.timer = TRUE], d, n)
  BY <1>3 DEF Ordered
<1>5. \A sent \in Nat : Newest(p, d, sent) => Newest(q, d, sent)
  BY <1>1, <1>2 DEF Newest
<1> QED BY <1>1, <1>2, <1>4, <1>5

LEMMA RequeuedKeeps ==
  ASSUME NEW p \in Pages, NEW d \in Seq(Snapshots), NEW n \in Nat, Ordered(p, d, n), NEW s \in p.writing
  PROVE  /\ Requeued(p, s) \in Pages /\ Ordered(Requeued(p, s), d, n)
         /\ Requeued(p, s).wrote = p.wrote /\ Requeued(p, s).open = p.open /\ Requeued(p, s).on = p.on
         /\ \A sent \in Nat : Newest(p, d, sent) => Newest(Requeued(p, s), d, sent)
<1>1. s \in Snapshots /\ s # NoSnapshot
  BY SnapshotAssumption DEF Pages, Snapshots, Stored
<1>2. /\ Requeued(p, s) \in Pages /\ Requeued(p, s).wrote = p.wrote /\ Requeued(p, s).open = p.open
      /\ Requeued(p, s).on = p.on /\ Requeued(p, s).timer /\ Requeued(p, s).writing = p.writing \ {s}
      /\ Requeued(p, s).pending = IF p.pending = NoSnapshot THEN s ELSE p.pending
  BY <1>1 DEF Requeued, Pages
<1>3. Requeued(p, s).writing = {}
  BY <1>2 DEF Ordered
<1>4. Ordered(Requeued(p, s), d, n)
  BY <1>1, <1>2, <1>3 DEF Ordered
<1>5. \A sent \in Nat : Newest(p, d, sent) => Newest(Requeued(p, s), d, sent)
  BY <1>1, <1>2, <1>3 DEF Newest
<1> QED BY <1>2, <1>4, <1>5

LEMMA DumpKeeps ==
  ASSUME NEW p \in Pages, NEW d \in Seq(Snapshots), NEW n \in Nat, Ordered(p, d, n),
         NEW s \in Snapshots, s.stamp = n + 1
  PROVE  /\ Ordered(p, Append(d, s), n + 1) /\ Ordered(p, d, n + 1)
         /\ Newest(p, Append(d, s), n + 1)
<1>1. /\ Len(Append(d, s)) = Len(d) + 1 /\ Len(d) \in Nat /\ Append(d, s)[Len(d) + 1] = s
      /\ \A i \in 1..Len(d) : Append(d, s)[i] = d[i] /\ d[i] \in Snapshots
  OBVIOUS
<1>2. p.wrote \in Nat /\ \A w \in p.writing : w.stamp \in Nat
  BY DEF Pages, Snapshots
<1>3. p.pending # NoSnapshot => p.pending.stamp \in Nat
  BY DEF Pages, Snapshots
<1>4. \A i \in 1..Len(d) : d[i].stamp \in Nat /\ d[i].stamp < n + 1
  BY <1>1 DEF Snapshots, Ordered
<1>5. Ordered(p, d, n + 1)
  BY <1>2, <1>3, <1>4 DEF Ordered
<1>6. Ordered(p, Append(d, s), n + 1)
  <2>1. \A i \in 1..(Len(d) + 1) : i \in 1..Len(d) \/ i = Len(d) + 1
    BY <1>1
  <2> QED BY <1>1, <1>2, <1>3, <1>4, <1>5, <2>1 DEF Ordered
<1>7. Newest(p, Append(d, s), n + 1)
  <2>1. Append(d, s) # <<>>
    OBVIOUS
  <2> QED BY <1>1, <2>1 DEF Newest
<1> QED BY <1>5, <1>6, <1>7

-----------------------------------------------------------------------------
(* Types. *)

LEMMA SeededType == \A f \in Snapshots \cup {NoSnapshot} : Seeded(f) \in Profiles /\ Seeded(f).sent = 0
<1>1. Empty \in Stored
  BY DEF Empty, Stored
<1>2. \A f \in Snapshots \cup {NoSnapshot} : Contains(f) \in Stored
  BY <1>1 DEF Contains, Snapshots
<1> QED BY <1>1, <1>2 DEF Seeded, Profiles

LEMMA RestTypes ==
  /\ Unused \in Profiles /\ ~Unused.running
  /\ Gone \in Pages /\ ~Gone.open
  /\ \A on \in BOOLEAN : NewPage(on) \in Pages
<1>1. Seeded(NoSnapshot) \in Profiles
  BY SeededType
<1>2. Unused \in Profiles /\ ~Unused.running
  BY <1>1 DEF Unused, Profiles
<1>3. \A on \in BOOLEAN : NewPage(on) \in Pages
  BY DEF NewPage, Pages
<1>4. Gone \in Pages /\ ~Gone.open
  BY DEF Gone, NewPage, Pages
<1> QED BY <1>2, <1>3, <1>4

LEMMA SnapshotType == \A p \in Profiles : Snapshot(p) \in Stored
BY DEF Snapshot, Profiles, Stored

LEMMA EngineTypes ==
  ASSUME PersistTypeOK, NEW t \in ViewerTabs, NEW o \in Origins, NEW v \in Values \cup {Nothing},
         Visit(t, o) \/ Store(t, o, v)
  PROVE  /\ profiles' \in [ViewerTabs -> Profiles] /\ UNCHANGED <<file, pages, dumps, stamp>>
         /\ \A u \in ViewerTabs : profiles'[u].running = profiles[u].running /\ profiles'[u].sent = profiles[u].sent
<1> DEFINE p == profiles[t]
<1>1. p \in Profiles /\ p.areas \in Stored /\ p.seed \in Stored /\ p.areas[o] \in Values \cup {Nothing}
  BY DEF PersistTypeOK, Profiles, Stored
<1>2. CASE Visit(t, o)
  <2>1. [p.areas EXCEPT ![o] = p.seed[o]] \in Stored /\ [p.seed EXCEPT ![o] = Nothing] \in Stored
    BY <1>1 DEF Stored
  <2>2. profiles' = [profiles EXCEPT ![t].opened = @ \cup {o}, ![t].areas[o] = profiles[t].seed[o],
                                     ![t].seed[o] = Nothing]
    BY <1>2 DEF Visit
  <2>3. profiles' = [profiles EXCEPT ![t] = [p EXCEPT !.opened = @ \cup {o},
                       !.areas = [p.areas EXCEPT ![o] = p.seed[o]], !.seed = [p.seed EXCEPT ![o] = Nothing]]]
    BY <1>1, <2>2 DEF PersistTypeOK, Profiles
  <2>4. [p EXCEPT !.opened = @ \cup {o}, !.areas = [p.areas EXCEPT ![o] = p.seed[o]],
                  !.seed = [p.seed EXCEPT ![o] = Nothing]] \in Profiles
    BY <1>1, <2>1 DEF Profiles
  <2> QED BY <1>1, <1>2, <2>3, <2>4, SMTT(20) DEF Visit, PersistTypeOK, Profiles
<1>3. CASE Store(t, o, v)
  <2>1. [p.areas EXCEPT ![o] = v] \in Stored
    BY <1>1 DEF Stored
  <2>2. profiles' = [profiles EXCEPT ![t].areas[o] = v, ![t].touched = @ \cup {o}]
    BY <1>3 DEF Store
  <2>3. profiles' = [profiles EXCEPT ![t] = [p EXCEPT !.areas = [p.areas EXCEPT ![o] = v], !.touched = @ \cup {o}]]
    BY <1>1, <2>2 DEF PersistTypeOK, Profiles
  <2>4. [p EXCEPT !.areas = [p.areas EXCEPT ![o] = v], !.touched = @ \cup {o}] \in Profiles
    BY <1>1, <2>1 DEF Profiles
  <2> QED BY <1>1, <1>3, <2>3, <2>4 DEF Store, PersistTypeOK, Profiles
<1> QED BY <1>2, <1>3

-----------------------------------------------------------------------------
(* The invariant of one tab: a closed viewer has nothing left; what is on its way is in   *)
(* order; and as long as its engine runs, the last of it is what the engine sent last.    *)
TabInv(t) ==
  /\ ~pages[t].open => ~profiles[t].running /\ dumps[t] = <<>>
  /\ Ordered(pages[t], dumps[t], stamp)
  /\ profiles[t].running /\ pages[t].on => Newest(pages[t], dumps[t], profiles[t].sent)
PersistInv == PersistTypeOK /\ \A t \in ViewerTabs : TabInv(t)

LEMMA PersistInit0 == PersistInit => PersistInv
<1> SUFFICES ASSUME PersistInit PROVE PersistInv
  OBVIOUS
<1>1. PersistTypeOK
  BY RestTypes DEF PersistInit, PersistTypeOK
<1>2. \A t \in ViewerTabs : TabInv(t)
  <2>1. Gone.writing = {} /\ Gone.pending = NoSnapshot /\ Gone.wrote = 0 /\ ~Gone.open /\ ~Unused.running
    BY RestTypes DEF Gone, NewPage
  <2>2. Ordered(Gone, <<>>, 0)
    BY <2>1 DEF Ordered
  <2> SUFFICES ASSUME NEW t \in ViewerTabs PROVE TabInv(t)
    OBVIOUS
  <2>3. pages[t] = Gone /\ profiles[t] = Unused /\ dumps[t] = <<>> /\ stamp = 0
    BY DEF PersistInit
  <2> QED BY <2>1, <2>2, <2>3 DEF TabInv
<1> QED BY <1>1, <1>2 DEF PersistInv

\* A step leaves alone the tabs it does not act on, whether or not it numbers a snapshot.
LEMMA OthersKeep ==
  ASSUME PersistInv, NEW u \in ViewerTabs, stamp' \in {stamp, stamp + 1}, pages'[u] = pages[u],
         dumps'[u] = dumps[u], profiles'[u].running = profiles[u].running, profiles'[u].sent = profiles[u].sent
  PROVE  TabInv(u)'
<1>1. pages[u] \in Pages /\ dumps[u] \in Seq(Snapshots) /\ stamp \in Nat /\ TabInv(u)
  BY DEF PersistInv, PersistTypeOK
<1>2. Ordered(pages[u], dumps[u], stamp + 1)
  <2> DEFINE s == [by |-> u, stamp |-> stamp + 1, data |-> Empty]
  <2>1. s \in Snapshots /\ s.stamp = stamp + 1
    BY <1>1 DEF Snapshots, Stored, Empty
  <2> QED BY <1>1, <2>1, DumpKeeps DEF TabInv
<1>3. Ordered(pages[u], dumps[u], stamp')
  BY <1>1, <1>2 DEF TabInv
<1> QED BY <1>1, <1>3 DEF TabInv

\* What one step does, for the tab it acts on and for the others.
StepKeeps ==
  /\ PersistInv'
  /\ \A u \in ViewerTabs : pages[u].open /\ pages'[u].wrote # pages[u].wrote /\ pages'[u].open
                             => pages'[u].wrote > pages[u].wrote

\* A step that acts on one tab keeps the invariant if it does so there.
LEMMA OneTab ==
  ASSUME PersistInv, NEW t \in ViewerTabs, NEW page \in Pages, NEW profile \in Profiles,
         NEW queue \in Seq(Snapshots),
         pages' = [pages EXCEPT ![t] = page], profiles' = [profiles EXCEPT ![t] = profile],
         dumps' = [dumps EXCEPT ![t] = queue], file' \in Snapshots \cup {NoSnapshot},
         stamp' \in {stamp, stamp + 1},
         ~page.open => ~profile.running /\ queue = <<>>,
         Ordered(page, queue, stamp'),
         profile.running /\ page.on => Newest(page, queue, profile.sent),
         pages[t].open /\ page.open => page.wrote = pages[t].wrote \/ page.wrote > pages[t].wrote
  PROVE  StepKeeps
<1>1. PersistTypeOK'
  BY DEF PersistInv, PersistTypeOK
<1>2. pages'[t] = page /\ profiles'[t] = profile /\ dumps'[t] = queue
  BY DEF PersistInv, PersistTypeOK
<1>3. TabInv(t)'
  BY <1>2 DEF TabInv
<1>4. \A u \in ViewerTabs \ {t} : pages'[u] = pages[u] /\ profiles'[u] = profiles[u] /\ dumps'[u] = dumps[u]
  BY DEF PersistInv, PersistTypeOK
<1>5. \A u \in ViewerTabs \ {t} : TabInv(u)'
  BY <1>4, OthersKeep
<1>6. PersistInv'
  BY <1>1, <1>3, <1>5 DEF PersistInv
<1> QED BY <1>2, <1>4, <1>6 DEF StepKeeps

-----------------------------------------------------------------------------
(* One step per action. *)

LEMMA OpenStep ==
  ASSUME PersistInv, NEW t \in ViewerTabs, NEW how \in {"on", "off", "clear", "unreadable"}, Open(t, how)
  PROVE  StepKeeps
<1> DEFINE f == IF how = "on" THEN file ELSE NoSnapshot
           page == NewPage(how # "off")
<1>1. ~pages[t].open /\ dumps[t] = <<>> /\ stamp \in Nat /\ file \in Snapshots \cup {NoSnapshot}
  BY DEF Open, PersistInv, PersistTypeOK, TabInv
<1>2. /\ page \in Pages /\ page.open /\ page.wrote = 0 /\ page.writing = {} /\ page.pending = NoSnapshot
  BY RestTypes DEF NewPage
<1>3. Seeded(f) \in Profiles /\ Seeded(f).sent = 0
  BY <1>1, SeededType
<1>4. /\ pages' = [pages EXCEPT ![t] = page] /\ profiles' = [profiles EXCEPT ![t] = Seeded(f)]
      /\ stamp' = stamp /\ file' \in {file, NoSnapshot} /\ dumps' = dumps
  BY DEF Open
<1>5. dumps' = [dumps EXCEPT ![t] = <<>>] /\ <<>> \in Seq(Snapshots)
  BY <1>1, <1>4 DEF PersistInv, PersistTypeOK
<1>6. Ordered(page, <<>>, stamp') /\ Newest(page, <<>>, Seeded(f).sent)
  BY <1>1, <1>2, <1>3, <1>4 DEF Ordered, Newest
<1> HIDE DEF f, page
<1> QED BY <1>1, <1>2, <1>3, <1>4, <1>5, <1>6, OneTab

LEMMA EngineStep ==
  ASSUME PersistInv, NEW t \in ViewerTabs, NEW o \in Origins, NEW v \in Values \cup {Nothing},
         Visit(t, o) \/ Store(t, o, v)
  PROVE  StepKeeps
<1>1. /\ profiles' \in [ViewerTabs -> Profiles] /\ UNCHANGED <<file, pages, dumps, stamp>>
      /\ \A u \in ViewerTabs : profiles'[u].running = profiles[u].running /\ profiles'[u].sent = profiles[u].sent
  BY EngineTypes DEF PersistInv
<1>2. \A u \in ViewerTabs : TabInv(u)'
  BY <1>1, OthersKeep
<1>3. PersistTypeOK'
  BY <1>1 DEF PersistInv, PersistTypeOK
<1> QED BY <1>1, <1>2, <1>3 DEF PersistInv, StepKeeps

LEMMA DumpStep ==
  ASSUME PersistInv, NEW t \in ViewerTabs, Dump(t)
  PROVE  StepKeeps
<1> DEFINE p == profiles[t]
           profile == [p EXCEPT !.last = Snapshot(p), !.sent = stamp + 1, !.unsent = FALSE]
           s == [by |-> t, stamp |-> stamp + 1, data |-> Snapshot(p)]
<1>1. p \in Profiles /\ pages[t] \in Pages /\ dumps[t] \in Seq(Snapshots) /\ stamp \in Nat /\ TabInv(t)
  BY DEF PersistInv, PersistTypeOK
<1>2. Snapshot(p) \in Stored
  BY <1>1, SnapshotType
<1>3. s \in Snapshots /\ s.stamp = stamp + 1
  BY <1>1, <1>2 DEF Snapshots
<1>4. profile \in Profiles /\ profile.running = p.running /\ profile.sent = stamp + 1
  <2> DEFINE Sends(q, l, n) == [q EXCEPT !.last = l, !.sent = n, !.unsent = FALSE]
  <2>1. \A q \in Profiles, l \in Stored, n \in Nat :
          /\ Sends(q, l, n) \in Profiles
          /\ Sends(q, l, n).running = q.running /\ Sends(q, l, n).sent = n
    BY DEF Profiles
  <2>2. stamp + 1 \in Nat
    BY <1>1
  <2>3. profile = Sends(p, Snapshot(p), stamp + 1)
    OBVIOUS
  <2> HIDE DEF p, profile, Sends
  <2>4. p \in Profiles
    BY <1>1
  <2> QED BY <2>4, <1>2, <2>1, <2>2, <2>3, Zenon
<1>5. /\ stamp' = stamp + 1 /\ dumps' = [dumps EXCEPT ![t] = Append(dumps[t], s)] /\ UNCHANGED <<file, pages>>
      /\ p.running
  BY DEF Dump, MayDump
<1>6. profiles' = [profiles EXCEPT ![t] = profile]
  <2>1. profiles' = [profiles EXCEPT ![t].last = Snapshot(p), ![t].sent = stamp + 1, ![t].unsent = FALSE]
    BY <1>5 DEF Dump
  <2> QED BY <1>1, <2>1 DEF PersistInv, PersistTypeOK
<1>7. pages' = [pages EXCEPT ![t] = pages[t]] /\ file' \in Snapshots \cup {NoSnapshot}
  BY <1>5 DEF PersistInv, PersistTypeOK
<1>8. Append(dumps[t], s) \in Seq(Snapshots) /\ pages[t].open
  BY <1>1, <1>3, <1>5 DEF TabInv
<1>9. Ordered(pages[t], Append(dumps[t], s), stamp + 1) /\ Newest(pages[t], Append(dumps[t], s), stamp + 1)
  BY <1>1, <1>3, DumpKeeps DEF TabInv
<1> HIDE DEF p, profile, s
<1> QED BY <1>1, <1>4, <1>5, <1>6, <1>7, <1>8, <1>9, OneTab

LEMMA DumpLostStep ==
  ASSUME PersistInv, NEW t \in ViewerTabs, DumpLost(t)
  PROVE  StepKeeps
<1> DEFINE p == profiles[t]
           profile == [p EXCEPT !.last = Snapshot(p), !.unsent = TRUE]
<1>1. p \in Profiles /\ profiles \in [ViewerTabs -> Profiles] /\ Snapshot(p) \in Stored
  BY SnapshotType DEF PersistInv, PersistTypeOK
<1>2. profile \in Profiles /\ profile.running = p.running /\ profile.sent = p.sent
  <2> DEFINE Loses(q, l) == [q EXCEPT !.last = l, !.unsent = TRUE]
  <2>1. \A q \in Profiles, l \in Stored :
          Loses(q, l) \in Profiles /\ Loses(q, l).running = q.running /\ Loses(q, l).sent = q.sent
    BY DEF Profiles
  <2>2. profile = Loses(p, Snapshot(p))
    OBVIOUS
  <2> HIDE DEF p, profile, Loses
  <2> QED BY <1>1, <2>1, <2>2, Zenon
<1>3. UNCHANGED <<file, pages, dumps, stamp>> /\ profiles' = [profiles EXCEPT ![t] = profile]
  <2>1. profiles' = [profiles EXCEPT ![t].last = Snapshot(p), ![t].unsent = TRUE]
    BY DEF DumpLost
  <2>2. profiles' = [profiles EXCEPT ![t] = profile]
    BY <1>1, <2>1
  <2> QED BY <2>2 DEF DumpLost
<1> HIDE DEF p, profile
<1>4. \A u \in ViewerTabs : profiles'[u].running = profiles[u].running /\ profiles'[u].sent = profiles[u].sent
  BY <1>1, <1>2, <1>3 DEF p
<1>5. PersistTypeOK'
  BY <1>1, <1>2, <1>3 DEF PersistInv, PersistTypeOK
<1>6. \A u \in ViewerTabs : TabInv(u)'
  BY <1>3, <1>4, OthersKeep
<1> QED BY <1>3, <1>5, <1>6 DEF PersistInv, StepKeeps

LEMMA OnPersistStep ==
  ASSUME PersistInv, NEW t \in ViewerTabs, OnPersist(t)
  PROVE  StepKeeps
<1> DEFINE page == Queued(pages[t], Head(dumps[t]))
           queue == Tail(dumps[t])
<1>1. /\ profiles[t] \in Profiles /\ pages[t] \in Pages /\ dumps[t] \in Seq(Snapshots) /\ stamp \in Nat
      /\ TabInv(t) /\ dumps[t] # <<>>
  BY DEF PersistInv, PersistTypeOK, OnPersist
<1>2. /\ page \in Pages /\ Ordered(page, queue, stamp) /\ page.wrote = pages[t].wrote
      /\ page.open = pages[t].open /\ page.on = pages[t].on
      /\ \A sent \in Nat : pages[t].on /\ Newest(pages[t], dumps[t], sent) => Newest(page, queue, sent)
  BY <1>1, QueuedKeeps DEF TabInv
<1>3. queue \in Seq(Snapshots) /\ pages[t].open
  BY <1>1 DEF TabInv
<1>4. /\ dumps' = [dumps EXCEPT ![t] = queue] /\ pages' = [pages EXCEPT ![t] = page]
      /\ UNCHANGED <<file, profiles, stamp>>
  BY DEF OnPersist
<1>5. profiles' = [profiles EXCEPT ![t] = profiles[t]] /\ file' \in Snapshots \cup {NoSnapshot}
  BY <1>4 DEF PersistInv, PersistTypeOK
<1>6. profiles[t].running /\ page.on => Newest(page, queue, profiles[t].sent)
  BY <1>1, <1>2 DEF TabInv, Profiles
<1> HIDE DEF page, queue
<1> QED BY <1>1, <1>2, <1>3, <1>4, <1>5, <1>6, OneTab

LEMMA WriteTimerStep ==
  ASSUME PersistInv, NEW t \in ViewerTabs, WriteTimer(t)
  PROVE  StepKeeps
<1> DEFINE p == pages[t]
           q == [p EXCEPT !.timer = FALSE]
           page == Starts(q)
<1>1. /\ profiles[t] \in Profiles /\ p \in Pages /\ dumps[t] \in Seq(Snapshots) /\ stamp \in Nat /\ TabInv(t)
  BY DEF PersistInv, PersistTypeOK
<1>2. /\ q \in Pages /\ q.open = p.open /\ q.on = p.on /\ q.wrote = p.wrote /\ q.writing = p.writing
      /\ q.pending = p.pending
  BY <1>1 DEF Pages
<1>3. \A sent \in Nat : Newest(p, dumps[t], sent) => Newest(q, dumps[t], sent)
  BY <1>2 DEF Newest
<1>4. /\ page \in Pages /\ Ordered(page, dumps[t], stamp) /\ page.wrote = p.wrote
      /\ page.open = p.open /\ page.on = p.on
      /\ \A sent \in Nat : Newest(q, dumps[t], sent) => Newest(page, dumps[t], sent)
  <2>1. CASE p.writing # {}
    <3>1. page = q
      BY <1>2, <2>1 DEF Starts
    <3>2. Ordered(q, dumps[t], stamp)
      BY <1>1, <1>2, <2>1 DEF TabInv, Ordered
    <3> QED BY <1>2, <3>1, <3>2
  <2>2. CASE p.writing = {}
    <3>1. page = Begin(q)
      BY <1>2, <2>2 DEF Starts
    <3>2. Ordered([q EXCEPT !.timer = TRUE], dumps[t], stamp)
      <4> DEFINE r == [q EXCEPT !.timer = TRUE]
      <4>1. r.wrote = p.wrote /\ r.writing = {} /\ r.pending = p.pending /\ r.timer
        BY <1>2, <2>2 DEF Pages
      <4>2. Ordered(p, dumps[t], stamp)
        BY <1>1 DEF TabInv
      <4> HIDE DEF r
      <4>3. Ordered(r, dumps[t], stamp)
        BY <4>1, <4>2, <2>2 DEF Ordered
      <4> QED BY <4>3 DEF r
    <3> HIDE DEF q
    <3> QED BY <1>1, <1>2, <2>2, <3>1, <3>2, BeginKeeps
  <2> QED BY <2>1, <2>2
<1>5. pages' = [pages EXCEPT ![t] = page] /\ UNCHANGED <<file, profiles, dumps, stamp>>
  BY DEF WriteTimer
<1>6. /\ profiles' = [profiles EXCEPT ![t] = profiles[t]] /\ dumps' = [dumps EXCEPT ![t] = dumps[t]]
      /\ file' \in Snapshots \cup {NoSnapshot}
  BY <1>5 DEF PersistInv, PersistTypeOK
<1>7. profiles[t].running /\ page.on => Newest(page, dumps[t], profiles[t].sent)
  BY <1>1, <1>3, <1>4 DEF TabInv, Profiles
<1>8. ~page.open => ~profiles[t].running /\ dumps[t] = <<>>
  BY <1>1, <1>4 DEF TabInv
<1> HIDE DEF p, q, page
<1> QED BY <1>1, <1>4, <1>5, <1>6, <1>7, <1>8, OneTab DEF p

LEMMA WriteDoneStep ==
  ASSUME PersistInv, NEW t \in ViewerTabs, WriteDone(t)
  PROVE  StepKeeps
<1> DEFINE p == pages[t]
<1>1. PICK s \in p.writing : /\ Stores(t, s)
                             /\ pages' = [pages EXCEPT ![t] = Begin(Landed(p, s))]
                             /\ UNCHANGED <<dumps, stamp>>
  BY DEF WriteDone
<1> DEFINE q == Landed(p, s)
           page == Begin(q)
           profile == [profiles[t] EXCEPT !.basis = s]
<1>2. /\ profiles[t] \in Profiles /\ p \in Pages /\ dumps[t] \in Seq(Snapshots) /\ stamp \in Nat /\ TabInv(t)
  BY DEF PersistInv, PersistTypeOK
<1>3. s \in Snapshots
  BY <1>2 DEF Pages
<1>4. /\ q \in Pages /\ q.writing = {} /\ q.wrote = s.stamp /\ p.wrote < s.stamp
      /\ q.open = p.open /\ q.on = p.on
      /\ Ordered([q EXCEPT !.timer = TRUE], dumps[t], stamp)
      /\ \A sent \in Nat : Newest(p, dumps[t], sent) => Newest(q, dumps[t], sent)
  BY <1>2, WroteKeeps DEF TabInv
<1>5. /\ page \in Pages /\ Ordered(page, dumps[t], stamp) /\ page.wrote = s.stamp
      /\ page.open = p.open /\ page.on = p.on
      /\ \A sent \in Nat : Newest(q, dumps[t], sent) => Newest(page, dumps[t], sent)
  <2> HIDE DEF q
  <2> QED BY <1>2, <1>4, BeginKeeps
<1>6. profile \in Profiles /\ profile.running = profiles[t].running /\ profile.sent = profiles[t].sent
  BY <1>2, <1>3 DEF Profiles
<1>7. profiles' = [profiles EXCEPT ![t] = profile] /\ file' \in Snapshots \cup {NoSnapshot}
  BY <1>1, <1>3 DEF Stores, PersistInv, PersistTypeOK
<1>8. dumps' = [dumps EXCEPT ![t] = dumps[t]]
  BY <1>1 DEF PersistInv, PersistTypeOK
<1>9. profile.running /\ page.on => Newest(page, dumps[t], profile.sent)
  BY <1>2, <1>4, <1>5, <1>6 DEF TabInv, Profiles
<1>10. ~page.open => ~profile.running /\ dumps[t] = <<>>
  BY <1>2, <1>5, <1>6 DEF TabInv
<1>11. page.wrote > p.wrote /\ pages' = [pages EXCEPT ![t] = page] /\ stamp' = stamp
  BY <1>1, <1>4, <1>5
<1> HIDE DEF p, q, page, profile
<1> QED BY <1>2, <1>5, <1>6, <1>7, <1>8, <1>9, <1>10, <1>11, OneTab DEF p

LEMMA WriteFailsStep ==
  ASSUME PersistInv, NEW t \in ViewerTabs, WriteFails(t)
  PROVE  StepKeeps
<1>1. PICK s \in pages[t].writing : pages' = [pages EXCEPT ![t] = Requeued(pages[t], s)]
  BY DEF WriteFails
<1> DEFINE page == Requeued(pages[t], s)
<1>2. /\ profiles[t] \in Profiles /\ pages[t] \in Pages /\ dumps[t] \in Seq(Snapshots) /\ stamp \in Nat
      /\ TabInv(t)
  BY DEF PersistInv, PersistTypeOK
<1>3. /\ page \in Pages /\ Ordered(page, dumps[t], stamp) /\ page.wrote = pages[t].wrote
      /\ page.open = pages[t].open /\ page.on = pages[t].on
      /\ \A sent \in Nat : Newest(pages[t], dumps[t], sent) => Newest(page, dumps[t], sent)
  BY <1>2, RequeuedKeeps DEF TabInv
<1>4. /\ profiles' = [profiles EXCEPT ![t] = profiles[t]] /\ dumps' = [dumps EXCEPT ![t] = dumps[t]]
      /\ file' \in Snapshots \cup {NoSnapshot} /\ stamp' = stamp
  BY DEF WriteFails, PersistInv, PersistTypeOK
<1>5. profiles[t].running /\ page.on => Newest(page, dumps[t], profiles[t].sent)
  BY <1>2, <1>3 DEF TabInv, Profiles
<1>6. ~page.open => ~profiles[t].running /\ dumps[t] = <<>>
  BY <1>2, <1>3 DEF TabInv
<1> HIDE DEF page
<1> QED BY <1>1, <1>2, <1>3, <1>4, <1>5, <1>6, OneTab DEF page

LEMMA EndStep ==
  ASSUME PersistInv, NEW t \in ViewerTabs, EngineDies(t) \/ CloseViewer(t)
  PROVE  StepKeeps
<1>1. /\ profiles[t] \in Profiles /\ pages[t] \in Pages /\ dumps[t] \in Seq(Snapshots) /\ stamp \in Nat
      /\ TabInv(t)
  BY DEF PersistInv, PersistTypeOK
<1>2. CASE EngineDies(t)
  <2> DEFINE profile == [profiles[t] EXCEPT !.running = FALSE]
  <2>1. PICK queue \in {<<>>, dumps[t]} : dumps' = [dumps EXCEPT ![t] = queue]
    <3>1. dumps' = [dumps EXCEPT ![t] = <<>>] \/ dumps' = dumps
      BY <1>2 DEF EngineDies
    <3>2. dumps = [dumps EXCEPT ![t] = dumps[t]]
      BY DEF PersistInv, PersistTypeOK
    <3> QED BY <3>1, <3>2
  <2>2. queue \in Seq(Snapshots)
    <3>1. <<>> \in Seq(Snapshots)
      OBVIOUS
    <3>2. queue = <<>> \/ queue = dumps[t]
      BY <2>1
    <3> QED BY <1>1, <3>1, <3>2
  <2>6. profile \in Profiles /\ ~profile.running
    BY <1>1 DEF Profiles
  <2>3. Ordered(pages[t], queue, stamp)
    <3>1. CASE queue = dumps[t]
      BY <1>1, <3>1 DEF TabInv
    <3>2. CASE queue = <<>>
      BY <1>1, <3>2 DEF TabInv, Ordered
    <3> QED BY <3>1, <3>2
  <2>4. ~pages[t].open => queue = <<>>
    BY <1>1 DEF TabInv
  <2>5. /\ pages' = [pages EXCEPT ![t] = pages[t]] /\ profiles' = [profiles EXCEPT ![t] = profile]
        /\ file' \in Snapshots \cup {NoSnapshot} /\ stamp' = stamp
    BY <1>2 DEF EngineDies, PersistInv, PersistTypeOK
  <2> HIDE DEF profile
  <2> QED BY <1>1, <2>1, <2>2, <2>3, <2>4, <2>5, <2>6, OneTab
<1>3. CASE CloseViewer(t)
  <2>1. /\ pages' = [pages EXCEPT ![t] = Gone] /\ profiles' = [profiles EXCEPT ![t] = Unused]
        /\ dumps' = [dumps EXCEPT ![t] = <<>>] /\ stamp' = stamp /\ file' \in {file} \cup pages[t].writing
    BY <1>3 DEF CloseViewer
  <2>2. file' \in Snapshots \cup {NoSnapshot}
    BY <1>1, <2>1 DEF PersistInv, PersistTypeOK, Pages
  <2>3. Gone \in Pages /\ ~Gone.open /\ Unused \in Profiles /\ ~Unused.running
    BY RestTypes
  <2>4. Gone.wrote = 0 /\ Gone.writing = {} /\ Gone.pending = NoSnapshot
    BY <2>3 DEF Gone, NewPage
  <2>5. Ordered(Gone, <<>>, stamp) /\ <<>> \in Seq(Snapshots)
    BY <1>1, <2>4 DEF Ordered
  <2> QED BY <1>1, <2>1, <2>2, <2>3, <2>5, OneTab
<1> QED BY <1>2, <1>3

LEMMA PersistStep == PersistInv /\ [PersistNext]_persistVars => StepKeeps
<1> SUFFICES ASSUME PersistInv, [PersistNext]_persistVars PROVE StepKeeps
  OBVIOUS
<1>1. CASE UNCHANGED persistVars
  <2>1. PersistTypeOK'
    BY <1>1 DEF persistVars, PersistInv, PersistTypeOK
  <2>2. \A u \in ViewerTabs : TabInv(u)'
    BY <1>1, OthersKeep DEF persistVars
  <2> QED BY <1>1, <2>1, <2>2 DEF persistVars, PersistInv, StepKeeps
<1>2. CASE PersistNext
  <2>1. PICK t \in ViewerTabs :
          \/ Dump(t) \/ DumpLost(t) \/ OnPersist(t) \/ WriteTimer(t) \/ WriteDone(t) \/ WriteFails(t)
          \/ EngineDies(t) \/ CloseViewer(t)
          \/ \E how \in {"on", "off", "clear", "unreadable"} : Open(t, how)
          \/ \E o \in Origins : Visit(t, o) \/ \E v \in Values \cup {Nothing} : Store(t, o, v)
    BY <1>2 DEF PersistNext
  <2>2. (\E how \in {"on", "off", "clear", "unreadable"} : Open(t, how)) => StepKeeps
    BY OpenStep
  <2>3. (\E o \in Origins : Visit(t, o) \/ \E v \in Values \cup {Nothing} : Store(t, o, v)) => StepKeeps
    BY EngineStep
  <2> QED BY <2>1, <2>2, <2>3, DumpStep, DumpLostStep, OnPersistStep, WriteTimerStep, WriteDoneStep, WriteFailsStep, EndStep
<1> QED BY <1>1, <1>2

-----------------------------------------------------------------------------
LEMMA PersistInvariant == PersistSpec => []PersistInv
<1>1. PersistInit => PersistInv
  BY PersistInit0
<1>2. PersistInv /\ [PersistNext]_persistVars => PersistInv'
  BY PersistStep DEF StepKeeps
<1> QED BY <1>1, <1>2, PTL DEF PersistSpec

\* For any tabs, sites and values: a page that has come to rest has written the newest
\* snapshot its engine sent (persistWriteLoop drops none for good, not even after a failure).
THEOREM RestMeansWritten == PersistSpec => []NewestIsWritten
<1>1. PersistInv => NewestIsWritten
  <2> SUFFICES ASSUME PersistInv, NEW t \in ViewerTabs, Idle(t) PROVE pages[t].wrote = profiles[t].sent
    BY DEF NewestIsWritten
  <2>1. TabInv(t)
    BY DEF PersistInv
  <2>2. pages[t].pending = NoSnapshot
    BY <2>1 DEF TabInv, Ordered, Idle
  <2> QED BY <2>1, <2>2 DEF TabInv, Newest, Idle
<1> QED BY <1>1, PersistInvariant, PTL

\* For any tabs, sites and values: a page never puts an older snapshot over a newer one of
\* its own, however writes, failures and further dumps follow each other.
THEOREM NeverAnOlderOne == PersistSpec => WritesInOrder
<1> DEFINE Rises == \A t \in ViewerTabs : pages[t].open /\ pages'[t].wrote # pages[t].wrote /\ pages'[t].open
                                            => pages'[t].wrote > pages[t].wrote
<1>1. PersistInv /\ [PersistNext]_persistVars => [Rises]_persistVars
  BY PersistStep DEF StepKeeps
<1> QED BY <1>1, PersistInvariant, PTL DEF PersistSpec, WritesInOrder

-----------------------------------------------------------------------------
(* What a session did not visit is, in all that is on its way to the file, as in the file  *)
(* the session knows.                                                                      *)

OnTheWay(p, d) == p.writing \cup ({p.pending} \ {NoSnapshot}) \cup {d[i] : i \in DOMAIN d}
KeepsUnvisited(profile, data) ==
  \A o \in Origins \ profile.touched : data[o] = Contains(profile.basis)[o]
Unvisited(t, p, d, profile) ==
  /\ KeepsUnvisited(profile, Snapshot(profile))
  /\ \A s \in OnTheWay(p, d) : s.by = t /\ KeepsUnvisited(profile, s.data)
UnvisitedInv == \A t \in ViewerTabs : Unvisited(t, pages[t], dumps[t], profiles[t])

LEMMA UnvisitedTab ==
  ASSUME PersistInv, UnvisitedInv, NEW t \in ViewerTabs, NEW page, NEW queue, NEW profile,
         pages' = [pages EXCEPT ![t] = page], profiles' = [profiles EXCEPT ![t] = profile],
         dumps' = [dumps EXCEPT ![t] = queue], Unvisited(t, page, queue, profile)
  PROVE  UnvisitedInv'
<1> SUFFICES ASSUME NEW u \in ViewerTabs
             PROVE  Unvisited(u, pages'[u], dumps'[u], profiles'[u])
  BY DEF UnvisitedInv
<1>1. CASE u = t
  <2>1. pages'[u] = page /\ dumps'[u] = queue /\ profiles'[u] = profile
    BY <1>1 DEF PersistInv, PersistTypeOK
  <2> QED BY <1>1, <2>1
<1>2. CASE u # t
  <2>1. pages'[u] = pages[u] /\ dumps'[u] = dumps[u] /\ profiles'[u] = profiles[u]
    BY <1>2 DEF PersistInv, PersistTypeOK
  <2> QED BY <2>1 DEF UnvisitedInv
<1> QED BY <1>1, <1>2

\* A profile that starts holds what it was seeded with, and nothing is on its way.
LEMMA SeededUnvisited ==
  ASSUME NEW t \in ViewerTabs, NEW f \in Snapshots \cup {NoSnapshot}, NEW on \in BOOLEAN
  PROVE  Unvisited(t, NewPage(on), <<>>, Seeded(f)) /\ Unvisited(t, Gone, <<>>, Unused)
<1>1. ASSUME NEW g \in Snapshots \cup {NoSnapshot} PROVE KeepsUnvisited(Seeded(g), Snapshot(Seeded(g)))
  <2>1. Seeded(g).opened = {} /\ Seeded(g).seed = Contains(g) /\ Seeded(g).basis = g
    BY DEF Seeded
  <2> QED BY <2>1 DEF KeepsUnvisited, Snapshot
<1>2. KeepsUnvisited(Unused, Snapshot(Unused))
  <2>1. /\ Unused.opened = {} /\ Unused.seed = Contains(NoSnapshot) /\ Unused.basis = NoSnapshot
    BY DEF Unused, Seeded
  <2> QED BY <2>1 DEF KeepsUnvisited, Snapshot
<1>3. OnTheWay(NewPage(on), <<>>) = {} /\ OnTheWay(Gone, <<>>) = {}
  <2>1. NewPage(on).writing = {} /\ NewPage(on).pending = NoSnapshot
    BY DEF NewPage
  <2>2. Gone.writing = {} /\ Gone.pending = NoSnapshot
    BY DEF Gone, NewPage
  <2>3. DOMAIN <<>> = {}
    OBVIOUS
  <2> QED BY <2>1, <2>2, <2>3 DEF OnTheWay
<1> QED BY <1>1, <1>2, <1>3 DEF Unvisited

\* The page's operations add nothing to what is on its way.
LEMMA NothingAdded ==
  ASSUME NEW p \in Pages, NEW d \in Seq(Snapshots)
  PROVE  /\ OnTheWay(Begin(p), d) \subseteq OnTheWay(p, d)
         /\ OnTheWay(p, <<>>) \subseteq OnTheWay(p, d)
         /\ OnTheWay(Starts([p EXCEPT !.timer = FALSE]), d) \subseteq OnTheWay(p, d)
         /\ d # <<>> => OnTheWay(Queued(p, Head(d)), Tail(d)) \subseteq OnTheWay(p, d)
         /\ \A s \in p.writing : /\ OnTheWay(Landed(p, s), d) \subseteq OnTheWay(p, d)
                                 /\ Landed(p, s) \in Pages /\ s \in OnTheWay(p, d)
                                 /\ OnTheWay(Requeued(p, s), d) \subseteq OnTheWay(p, d)
<1>1. ASSUME NEW q \in Pages PROVE OnTheWay(Begin(q), d) \subseteq OnTheWay(q, d)
  <2>1. CASE q.pending = NoSnapshot
    BY <2>1 DEF Begin
  <2>2. CASE q.pending # NoSnapshot
    <3> DEFINE b == [q EXCEPT !.writing = @ \cup {q.pending}, !.pending = NoSnapshot]
    <3>1. b.writing = q.writing \cup {q.pending} /\ b.pending = NoSnapshot
      BY DEF Pages
    <3>2. Begin(q) = b
      BY <2>2 DEF Begin
    <3> HIDE DEF b
    <3> QED BY <2>2, <3>1, <3>2 DEF OnTheWay
  <2> QED BY <2>1, <2>2
<1>2. OnTheWay(p, <<>>) \subseteq OnTheWay(p, d)
  <2>1. DOMAIN <<>> = {}
    OBVIOUS
  <2> QED BY <2>1 DEF OnTheWay
<1>3. OnTheWay(Starts([p EXCEPT !.timer = FALSE]), d) \subseteq OnTheWay(p, d)
  <2> DEFINE q == [p EXCEPT !.timer = FALSE]
  <2>1. q \in Pages /\ q.writing = p.writing /\ q.pending = p.pending
    BY DEF Pages
  <2> HIDE DEF q
  <2>2. OnTheWay(q, d) = OnTheWay(p, d)
    BY <2>1 DEF OnTheWay
  <2>3. Starts(q) = q \/ Starts(q) = Begin(q)
    BY DEF Starts
  <2> QED BY <1>1, <2>1, <2>2, <2>3 DEF q
<1>4. ASSUME d # <<>> PROVE OnTheWay(Queued(p, Head(d)), Tail(d)) \subseteq OnTheWay(p, d)
  <2> DEFINE q == [p EXCEPT !.pending = Head(d), !.timer = TRUE]
  <2>1. /\ Head(d) = d[1] /\ 1 \in DOMAIN d
        /\ \A i \in DOMAIN Tail(d) : i + 1 \in DOMAIN d /\ Tail(d)[i] = d[i + 1]
    BY <1>4
  <2>2. q.writing = p.writing /\ q.pending = d[1]
    BY <2>1 DEF Pages
  <2>3. Queued(p, Head(d)) = p \/ Queued(p, Head(d)) = q
    BY DEF Queued
  <2> HIDE DEF q
  <2>4. {Tail(d)[i] : i \in DOMAIN Tail(d)} \subseteq {d[i] : i \in DOMAIN d} /\ d[1] \in {d[i] : i \in DOMAIN d}
    BY <2>1
  <2> QED BY <2>2, <2>3, <2>4 DEF OnTheWay
<1>5. ASSUME NEW s \in p.writing
      PROVE  /\ OnTheWay(Landed(p, s), d) \subseteq OnTheWay(p, d)
             /\ Landed(p, s) \in Pages /\ s \in OnTheWay(p, d)
             /\ OnTheWay(Requeued(p, s), d) \subseteq OnTheWay(p, d)
  <2>1. s \in Snapshots /\ s # NoSnapshot
    BY SnapshotAssumption DEF Pages, Snapshots, Stored
  <2>2. s.stamp \in Nat
    BY <2>1 DEF Snapshots
  <2>3. /\ Landed(p, s) \in Pages /\ Landed(p, s).writing = p.writing \ {s}
        /\ Landed(p, s).pending = p.pending
    BY <2>2 DEF Landed, Pages
  <2>4. /\ Requeued(p, s).writing = p.writing \ {s}
        /\ Requeued(p, s).pending = IF p.pending = NoSnapshot THEN s ELSE p.pending
    BY DEF Requeued, Pages
  <2> QED BY <2>1, <2>3, <2>4 DEF OnTheWay
<1> QED BY <1>1, <1>2, <1>3, <1>4, <1>5

\* An engine's step leaves every origin its guest does not change as it was.
LEMMA GuestUnvisited ==
  ASSUME PersistInv, NEW t \in ViewerTabs, NEW o \in Origins, NEW v \in Values \cup {Nothing},
         Visit(t, o) \/ Store(t, o, v), Unvisited(t, pages[t], dumps[t], profiles[t])
  PROVE  /\ Unvisited(t, pages[t], dumps[t], profiles'[t]) /\ UNCHANGED <<file, pages, dumps>>
         /\ profiles' = [profiles EXCEPT ![t] = profiles'[t]]
<1> DEFINE p == profiles[t]
           q == profiles'[t]
<1>1. /\ p \in Profiles /\ profiles \in [ViewerTabs -> Profiles] /\ p.areas \in Stored /\ p.seed \in Stored
      /\ p.opened \subseteq Origins
  BY DEF PersistInv, PersistTypeOK, Profiles
<1>2. UNCHANGED <<file, pages, dumps>>
  BY DEF Visit, Store
<1>3. CASE Visit(t, o)
  <2>1. profiles' = [profiles EXCEPT ![t].opened = @ \cup {o}, ![t].areas[o] = profiles[t].seed[o],
                                     ![t].seed[o] = Nothing] /\ o \notin p.opened
    BY <1>3 DEF Visit
  <2>2. /\ q.opened = p.opened \cup {o} /\ q.areas = [p.areas EXCEPT ![o] = p.seed[o]]
        /\ q.seed = [p.seed EXCEPT ![o] = Nothing] /\ q.touched = p.touched /\ q.basis = p.basis
        /\ profiles' = [profiles EXCEPT ![t] = q]
    BY <1>1, <2>1 DEF Profiles
  <2> HIDE DEF q
  <2>3. \A x \in Origins : Snapshot(q)[x] = Snapshot(p)[x]
    BY <1>1, <2>1, <2>2 DEF Snapshot, Stored
  <2>4. Unvisited(t, pages[t], dumps[t], q)
    BY <2>2, <2>3 DEF Unvisited, KeepsUnvisited
  <2> QED BY <1>2, <2>2, <2>4 DEF q
<1>4. CASE Store(t, o, v)
  <2>1. profiles' = [profiles EXCEPT ![t].areas[o] = v, ![t].touched = @ \cup {o}]
    BY <1>4 DEF Store
  <2>2. /\ q.opened = p.opened /\ q.areas = [p.areas EXCEPT ![o] = v]
        /\ q.seed = p.seed /\ q.touched = p.touched \cup {o} /\ q.basis = p.basis
        /\ profiles' = [profiles EXCEPT ![t] = q]
    BY <1>1, <2>1 DEF Profiles
  <2> HIDE DEF q
  <2>3. \A x \in Origins \ {o} : Snapshot(q)[x] = Snapshot(p)[x]
    BY <1>1, <2>2 DEF Snapshot, Stored
  <2>4. Unvisited(t, pages[t], dumps[t], q)
    BY <2>2, <2>3 DEF Unvisited, KeepsUnvisited
  <2> QED BY <1>2, <2>2, <2>4 DEF q
<1> QED BY <1>3, <1>4

\* A file that becomes one of t's snapshots keeps what t did not touch
Replaced(t) == \/ file' \in {file, NoSnapshot}
               \/ file'.by = t /\ KeepsUnvisited(profiles[t], file'.data)

LEMMA UnvisitedStep ==
  ASSUME PersistInv, UnvisitedInv, NEW t \in ViewerTabs,
         \/ Dump(t) \/ DumpLost(t) \/ OnPersist(t) \/ WriteTimer(t) \/ WriteDone(t) \/ WriteFails(t)
         \/ EngineDies(t) \/ CloseViewer(t)
         \/ \E how \in {"on", "off", "clear", "unreadable"} : Open(t, how)
         \/ \E o \in Origins : Visit(t, o) \/ \E v \in Values \cup {Nothing} : Store(t, o, v)
  PROVE  UnvisitedInv' /\ Replaced(t)
<1> DEFINE p == profiles[t]
           pg == pages[t]
           d == dumps[t]
<1>1. /\ p \in Profiles /\ pg \in Pages /\ d \in Seq(Snapshots) /\ stamp \in Nat /\ TabInv(t)
      /\ Unvisited(t, pg, d, p) /\ file \in Snapshots \cup {NoSnapshot}
  BY DEF PersistInv, PersistTypeOK, UnvisitedInv
<1>2. /\ profiles = [profiles EXCEPT ![t] = p] /\ dumps = [dumps EXCEPT ![t] = d]
      /\ pages = [pages EXCEPT ![t] = pg]
  BY DEF PersistInv, PersistTypeOK
<1>3. \A page, queue : OnTheWay(page, queue) \subseteq OnTheWay(pg, d) => Unvisited(t, page, queue, p)
  BY <1>1 DEF Unvisited
<1>4. CASE Dump(t)
  <2> DEFINE s == [by |-> t, stamp |-> stamp + 1, data |-> Snapshot(p)]
             q == [p EXCEPT !.last = Snapshot(p), !.sent = stamp + 1, !.unsent = FALSE]
             e == Append(d, s)
  <2>1. /\ profiles' = [profiles EXCEPT ![t] = q] /\ dumps' = [dumps EXCEPT ![t] = e] /\ pages' = pages
        /\ file' = file
    <3>1. /\ profiles' = [profiles EXCEPT ![t].last = Snapshot(profiles[t]), ![t].sent = stamp + 1,
                                        ![t].unsent = FALSE]
          /\ dumps' = [dumps EXCEPT ![t] = Append(@, s)] /\ UNCHANGED <<file, pages>>
      BY <1>4 DEF Dump
    <3>2. profiles' = [profiles EXCEPT ![t] = q]
      BY <3>1 DEF PersistInv, PersistTypeOK
    <3> QED BY <3>1, <3>2 DEF PersistInv, PersistTypeOK
  <2>2. /\ q.touched = p.touched /\ q.basis = p.basis /\ q.opened = p.opened /\ q.areas = p.areas /\ q.seed = p.seed
    BY <1>1 DEF Profiles
  <2>3. Snapshot(q) = Snapshot(p)
    BY <2>2 DEF Snapshot
  <2>4. s \in Snapshots /\ s.by = t /\ s.data = Snapshot(p)
    BY <1>1, SnapshotType DEF Snapshots
  <2> HIDE DEF s
  <2>5. OnTheWay(pg, e) \subseteq OnTheWay(pg, d) \cup {s}
    <3>1. \A i \in DOMAIN e : e[i] = s \/ (i \in DOMAIN d /\ e[i] = d[i])
      BY <1>1, <2>4
    <3> HIDE DEF e
    <3> QED BY <3>1 DEF OnTheWay
  <2> HIDE DEF q, e
  <2>6. Unvisited(t, pg, e, q)
    BY <1>1, <2>2, <2>3, <2>4, <2>5 DEF Unvisited, KeepsUnvisited
  <2> QED BY <1>2, <2>1, <2>6, UnvisitedTab DEF Replaced
<1>13. CASE DumpLost(t)
  <2> DEFINE q == [p EXCEPT !.last = Snapshot(p), !.unsent = TRUE]
  <2>1. profiles' = [profiles EXCEPT ![t].last = Snapshot(profiles[t]), ![t].unsent = TRUE]
        /\ UNCHANGED <<file, pages, dumps>>
    BY <1>13 DEF DumpLost
  <2>2. profiles' = [profiles EXCEPT ![t] = q]
    BY <2>1 DEF PersistInv, PersistTypeOK
  <2>3. /\ q.touched = p.touched /\ q.basis = p.basis /\ q.opened = p.opened /\ q.areas = p.areas /\ q.seed = p.seed
    BY <1>1 DEF Profiles
  <2> HIDE DEF q
  <2>4. Snapshot(q) = Snapshot(p)
    BY <2>3 DEF Snapshot
  <2>5. Unvisited(t, pg, d, q)
    BY <1>1, <2>3, <2>4 DEF Unvisited, KeepsUnvisited
  <2> QED BY <1>2, <2>1, <2>2, <2>5, UnvisitedTab DEF Replaced
<1>5. CASE OnPersist(t)
  <2>1. /\ d # <<>> /\ dumps' = [dumps EXCEPT ![t] = Tail(d)] /\ pages' = [pages EXCEPT ![t] = Queued(pg, Head(d))]
        /\ profiles' = profiles /\ file' = file
    BY <1>5 DEF OnPersist, PersistInv, PersistTypeOK
  <2>2. Unvisited(t, Queued(pg, Head(d)), Tail(d), p)
    BY <1>1, <1>3, <2>1, NothingAdded
  <2> QED BY <1>2, <2>1, <2>2, UnvisitedTab DEF Replaced
<1>6. CASE WriteTimer(t)
  <2> DEFINE page == Starts([pg EXCEPT !.timer = FALSE])
  <2>1. pages' = [pages EXCEPT ![t] = page] /\ profiles' = profiles /\ dumps' = dumps /\ file' = file
    BY <1>6 DEF WriteTimer, PersistInv, PersistTypeOK
  <2>2. Unvisited(t, page, d, p)
    BY <1>1, <1>3, NothingAdded
  <2> HIDE DEF page
  <2> QED BY <1>2, <2>1, <2>2, UnvisitedTab DEF Replaced
<1>7. CASE WriteDone(t)
  <2>1. PICK s \in pg.writing : /\ Stores(t, s) /\ pages' = [pages EXCEPT ![t] = Begin(Landed(pg, s))]
                                /\ dumps' = dumps
    BY <1>7 DEF WriteDone, PersistInv, PersistTypeOK
  <2> DEFINE q == [p EXCEPT !.basis = s]
             page == Begin(Landed(pg, s))
  <2>2. file' = s /\ profiles' = [profiles EXCEPT ![t] = q]
    BY <2>1 DEF Stores, PersistInv, PersistTypeOK
  <2>3. s \in Snapshots /\ s # NoSnapshot
    BY <1>1, SnapshotAssumption DEF Pages, Snapshots, Stored
  <2>4. /\ q.touched = p.touched /\ q.basis = s /\ q.opened = p.opened /\ q.areas = p.areas /\ q.seed = p.seed
    BY <1>1 DEF Profiles
  <2>5. Snapshot(q) = Snapshot(p) /\ Contains(s) = s.data
    BY <2>3, <2>4 DEF Snapshot, Contains
  <2>6. s \in OnTheWay(pg, d) /\ OnTheWay(page, d) \subseteq OnTheWay(pg, d)
    <3>1. s \in OnTheWay(pg, d)
      BY <2>1 DEF OnTheWay
    <3>2. OnTheWay(Begin(Landed(pg, s)), d) \subseteq OnTheWay(pg, d)
      BY ONLY <1>1, <2>1, NothingAdded
    <3> QED BY <3>1, <3>2
  <2>7. s.by = t /\ KeepsUnvisited(p, s.data)
    BY <1>1, <2>6 DEF Unvisited
  <2> HIDE DEF q, page
  <2>8. Unvisited(t, page, d, q)
    BY <1>1, <2>4, <2>5, <2>6, <2>7 DEF Unvisited, KeepsUnvisited
  <2> QED BY <1>2, <2>1, <2>2, <2>7, <2>8, UnvisitedTab DEF Replaced, page
<1>8. CASE WriteFails(t)
  <2>1. PICK s \in pg.writing : pages' = [pages EXCEPT ![t] = Requeued(pg, s)]
    BY <1>8 DEF WriteFails, PersistInv, PersistTypeOK
  <2>2. profiles' = profiles /\ dumps' = dumps /\ file' = file
    BY <1>8 DEF WriteFails
  <2>3. Unvisited(t, Requeued(pg, s), d, p)
    BY <1>1, <1>3, NothingAdded
  <2> QED BY <1>2, <2>1, <2>2, <2>3, UnvisitedTab DEF Replaced
<1>9. CASE EngineDies(t)
  <2> DEFINE q == [p EXCEPT !.running = FALSE]
  <2>1. profiles' = [profiles EXCEPT ![t] = q] /\ pages' = pages /\ file' = file
    BY <1>9 DEF EngineDies, PersistInv, PersistTypeOK
  <2>2. PICK e \in {<<>>, d} : dumps' = [dumps EXCEPT ![t] = e]
    <3>1. dumps' = [dumps EXCEPT ![t] = <<>>] \/ dumps' = dumps
      BY <1>9 DEF EngineDies
    <3> QED BY <1>2, <3>1
  <2>3. /\ q.touched = p.touched /\ q.basis = p.basis /\ q.opened = p.opened /\ q.areas = p.areas /\ q.seed = p.seed
    BY <1>1 DEF Profiles
  <2>4. Snapshot(q) = Snapshot(p)
    BY <2>3 DEF Snapshot
  <2>5. OnTheWay(pg, e) \subseteq OnTheWay(pg, d)
    BY <1>1, <2>2, NothingAdded
  <2> HIDE DEF q
  <2>6. Unvisited(t, pg, e, q)
    BY <1>1, <2>3, <2>4, <2>5 DEF Unvisited, KeepsUnvisited
  <2> QED BY <1>2, <2>1, <2>2, <2>6, UnvisitedTab DEF Replaced
<1>10. CASE CloseViewer(t)
  <2>1. /\ pages' = [pages EXCEPT ![t] = Gone] /\ profiles' = [profiles EXCEPT ![t] = Unused]
        /\ dumps' = [dumps EXCEPT ![t] = <<>>] /\ file' \in {file} \cup pg.writing
    BY <1>10 DEF CloseViewer
  <2>2. UnvisitedInv'
    BY <2>1, SeededUnvisited, UnvisitedTab
  <2>3. \A s \in pg.writing : s.by = t /\ KeepsUnvisited(p, s.data)
    BY <1>1 DEF Unvisited, OnTheWay
  <2> QED BY <2>1, <2>2, <2>3 DEF Replaced
<1>11. ASSUME NEW how \in {"on", "off", "clear", "unreadable"}, Open(t, how) PROVE UnvisitedInv' /\ Replaced(t)
  <2> DEFINE f == IF how = "on" THEN file ELSE NoSnapshot
             on == how # "off"
  <2>1. /\ profiles' = [profiles EXCEPT ![t] = Seeded(f)] /\ pages' = [pages EXCEPT ![t] = NewPage(on)]
        /\ dumps' = dumps /\ file' \in {file, NoSnapshot} /\ ~pages[t].open
    BY <1>11 DEF Open
  <2>2. d = <<>>
    BY <1>1, <2>1 DEF TabInv
  <2>3. f \in Snapshots \cup {NoSnapshot} /\ on \in BOOLEAN
    BY <1>1
  <2> HIDE DEF f, on
  <2>4. Unvisited(t, NewPage(on), d, Seeded(f))
    BY <2>2, <2>3, SeededUnvisited
  <2> QED BY <1>2, <2>1, <2>4, UnvisitedTab DEF Replaced
<1>12. ASSUME NEW o \in Origins, NEW v \in Values \cup {Nothing}, Visit(t, o) \/ Store(t, o, v)
       PROVE  UnvisitedInv' /\ Replaced(t)
  <2>1. /\ Unvisited(t, pg, d, profiles'[t]) /\ UNCHANGED <<file, pages, dumps>>
        /\ profiles' = [profiles EXCEPT ![t] = profiles'[t]]
    BY <1>1, <1>12, GuestUnvisited
  <2> QED BY <1>2, <2>1, UnvisitedTab DEF Replaced
<1> QED BY <1>4, <1>13, <1>5, <1>6, <1>7, <1>8, <1>9, <1>10, <1>11, <1>12

\* UnvisitedSurvive (Persist), for any tabs, sites and values: a session that replaces the file it
\* was seeded from, or wrote last, leaves the sites its guest did not change as they were: the
\* dump merges the areas in use with the seed of the others (bibBuildPersistJSON).
THEOREM UnvisitedSitesSurvive == PersistSpec => UnvisitedSurvive
<1> DEFINE Survive == \A t \in ViewerTabs : Replaces(t) /\ file = profiles[t].basis
                        => \A o \in Origins \ profiles[t].touched : file'.data[o] = Contains(file)[o]
<1>1. PersistInit => UnvisitedInv
  <2> SUFFICES ASSUME PersistInit, NEW t \in ViewerTabs PROVE Unvisited(t, pages[t], dumps[t], profiles[t])
    BY DEF UnvisitedInv
  <2>1. pages[t] = Gone /\ profiles[t] = Unused /\ dumps[t] = <<>>
    BY DEF PersistInit
  <2> QED BY <2>1, SeededUnvisited
<1>2. PersistInv /\ UnvisitedInv /\ [PersistNext]_persistVars => UnvisitedInv' /\ [Survive]_persistVars
  <2> SUFFICES ASSUME PersistInv, UnvisitedInv, [PersistNext]_persistVars
               PROVE  UnvisitedInv' /\ [Survive]_persistVars
    OBVIOUS
  <2>1. CASE UNCHANGED persistVars
    BY <2>1 DEF persistVars, UnvisitedInv
  <2>2. CASE PersistNext
    <3>1. PICK t \in ViewerTabs : UnvisitedInv' /\ Replaced(t)
      BY <2>2, UnvisitedStep DEF PersistNext
    <3>2. ASSUME NEW u \in ViewerTabs, Replaces(u), file = profiles[u].basis,
                 NEW o \in Origins \ profiles[u].touched
          PROVE  file'.data[o] = Contains(file)[o]
      BY <3>1, <3>2 DEF Replaced, Replaces, KeepsUnvisited
    <3> QED BY <3>1, <3>2
  <2> QED BY <2>1, <2>2
<1> QED BY <1>1, <1>2, PersistInvariant, PTL DEF PersistSpec, UnvisitedSurvive
=============================================================================
