------------------------------ MODULE Persist -------------------------------
(***************************************************************************)
(* Engine-state persistence.  The engine dumps its profile (cookies and    *)
(* every origin's localStorage) as one snapshot whenever it changed        *)
(* (main.cpp bibMaybePersist); the page queues the newest snapshot and     *)
(* writes it to the one OPFS file all viewer tabs share (viewer.mjs        *)
(* persistWriteLoop); the next viewer seeds its engine from that file.     *)
(***************************************************************************)
EXTENDS Integers, Sequences, FiniteSets

CONSTANTS ViewerTabs,      \* tabs that may run a viewer
          Origins,         \* what the profile stores things for
          Values,          \* what a guest can store
          Large,           \* those that take a profile over 12 MB
          Nothing,         \* an origin nothing is stored for
          NoSnapshot,      \* null
          MaxProfileActs   \* bound: acts of the user and the guest, and faults

ASSUME NothingAssumption == Nothing \notin Values
\* null is no snapshot
ASSUME SnapshotAssumption ==
    NoSnapshot \notin [by : ViewerTabs, stamp : Nat, data : [Origins -> Values \cup {Nothing}]]

VARIABLES file,       \* bib-state-v1.json: the snapshot it holds
          profiles,   \* the engine of each tab: seed, areas, change detector
          pages,      \* the page of each tab: its queue, timer and write
          dumps,      \* snapshots on their way from a tab's engine to its page
          stamp,      \* snapshots taken so far: each carries its number
          profileActs

persistVars == <<file, profiles, pages, dumps, stamp, profileActs>>

Stored == [Origins -> Values \cup {Nothing}]
Empty == [o \in Origins |-> Nothing]
Contains(f) == IF f = NoSnapshot THEN Empty ELSE f.data

\* basis: the file as this tab last read or wrote it; touched: what its guest changed
Seeded(f) == [running |-> TRUE, basis |-> f, seed |-> Contains(f), opened |-> {}, areas |-> Empty,
              touched |-> {}, last |-> NoSnapshot, sent |-> 0, unsent |-> FALSE]
Unused == [Seeded(NoSnapshot) EXCEPT !.running = FALSE]
NewPage(on) == [open |-> TRUE, on |-> on, pending |-> NoSnapshot, timer |-> FALSE, writing |-> {}, wrote |-> 0]
Gone == [NewPage(FALSE) EXCEPT !.open = FALSE]

PersistInit ==
    /\ file = NoSnapshot
    /\ profiles = [t \in ViewerTabs |-> Unused] /\ pages = [t \in ViewerTabs |-> Gone]
    /\ dumps = [t \in ViewerTabs |-> <<>>] /\ stamp = 0 /\ profileActs = 0

ProfileAct == profileActs < MaxProfileActs /\ profileActs' = profileActs + 1

-----------------------------------------------------------------------------
(* The engine. *)

\* A viewer opens: persistSeedReady, then the engine's boot.  ?persist=0 turns all of it
\* off, ?persist=clear removes the file first, and a read that fails is a first run.
Open(t, how) ==
    /\ ProfileAct /\ ~pages[t].open
    /\ file' = IF how = "clear" THEN NoSnapshot ELSE file
    /\ profiles' = [profiles EXCEPT ![t] = Seeded(IF how = "on" THEN file ELSE NoSnapshot)]
    /\ pages' = [pages EXCEPT ![t] = NewPage(how # "off")]
    /\ UNCHANGED <<dumps, stamp>>

\* storageArea: the guest's first touch of an origin takes its part of the seed
Visit(t, o) ==
    /\ profiles[t].running /\ o \notin profiles[t].opened
    /\ profiles' = [profiles EXCEPT ![t].opened = @ \cup {o}, ![t].areas[o] = profiles[t].seed[o],
                                    ![t].seed[o] = Nothing]
    /\ UNCHANGED <<file, pages, dumps, stamp, profileActs>>
Store(t, o, v) ==
    /\ ProfileAct /\ profiles[t].running /\ o \in profiles[t].opened /\ profiles[t].areas[o] # v
    /\ profiles' = [profiles EXCEPT ![t].areas[o] = v, ![t].touched = @ \cup {o}]
    /\ UNCHANGED <<file, pages, dumps, stamp>>

\* A faulty variant: the areas in use are all there is.
SnapshotOpened(p) == [o \in Origins |-> IF o \in p.opened THEN p.areas[o] ELSE Nothing]

\* bibBuildPersistJSON: the areas in use, and the seed of the origins not opened yet
Snapshot(p) == [o \in Origins |-> IF o \in p.opened THEN p.areas[o] ELSE p.seed[o]]
\* The profile changed since the last dump, and is not over 12 MB
Oversized(d) == \E o \in Origins : d[o] \in Large
MayDump(p) == p.running /\ Snapshot(p) # p.last /\ ~Oversized(Snapshot(p))
\* bibMaybePersist, every five seconds or when the page is hidden
Dump(t) ==
    /\ MayDump(profiles[t])
    /\ stamp' = stamp + 1
    /\ profiles' = [profiles EXCEPT ![t].last = Snapshot(profiles[t]), ![t].sent = stamp', ![t].unsent = FALSE]
    /\ dumps' = [dumps EXCEPT ![t] = Append(@, [by |-> t, stamp |-> stamp', data |-> Snapshot(profiles[t])])]
    /\ UNCHANGED <<file, pages, profileActs>>
\* There is no memory for the copy: nothing is sent, and lastJSON says it was
DumpLost(t) ==
    /\ ProfileAct /\ MayDump(profiles[t])
    /\ profiles' = [profiles EXCEPT ![t].last = Snapshot(profiles[t]), ![t].unsent = TRUE]
    /\ UNCHANGED <<file, pages, dumps, stamp>>

-----------------------------------------------------------------------------
(* The page. *)

\* Nothing is kept under ?persist=0
Queued(p, s) == IF p.on THEN [p EXCEPT !.pending = s, !.timer = TRUE] ELSE p
\* onPersist: only the newest waits
OnPersist(t) ==
    /\ dumps[t] # <<>>
    /\ dumps' = [dumps EXCEPT ![t] = Tail(@)]
    /\ pages' = [pages EXCEPT ![t] = Queued(@, Head(dumps[t]))]
    /\ UNCHANGED <<file, profiles, stamp, profileActs>>

\* The newest snapshot is taken from the queue and written
Begin(p) == IF p.pending = NoSnapshot THEN p
            ELSE [p EXCEPT !.writing = @ \cup {p.pending}, !.pending = NoSnapshot]

\* A faulty variant: the loop starts whether or not a write is on its way.
StartsAnyway(p) == Begin(p)
\* persistWriteLoop: one at a time, as long as something waits
Starts(p) == IF p.writing # {} THEN p ELSE Begin(p)
WriteTimer(t) ==
    /\ pages[t].timer
    /\ pages' = [pages EXCEPT ![t] = Starts([@ EXCEPT !.timer = FALSE])]
    /\ UNCHANGED <<file, profiles, dumps, stamp, profileActs>>

\* close() replaces the file's contents
Stores(t, s) == file' = s /\ profiles' = [profiles EXCEPT ![t].basis = s]
Landed(p, s) == [p EXCEPT !.writing = @ \ {s}, !.wrote = s.stamp]
WriteDone(t) ==
    \E s \in pages[t].writing :
        /\ Stores(t, s)
        /\ pages' = [pages EXCEPT ![t] = Begin(Landed(@, s))]
        /\ UNCHANGED <<dumps, stamp, profileActs>>

\* A faulty variant: the failed snapshot replaces a newer one.
RequeuedOver(p, s) == [p EXCEPT !.writing = @ \ {s}, !.timer = TRUE, !.pending = s]
\* A faulty variant: the next try waits for the next dump.
RequeuedNoTimer(p, s) == [p EXCEPT !.writing = @ \ {s}, !.pending = IF p.pending = NoSnapshot THEN s ELSE @]

\* The snapshot waits again, unless a newer one does; the next try is on a timer
Requeued(p, s) == [p EXCEPT !.writing = @ \ {s}, !.timer = TRUE,
                            !.pending = IF p.pending = NoSnapshot THEN s ELSE @]
WriteFails(t) ==
    /\ ProfileAct
    /\ \E s \in pages[t].writing : pages' = [pages EXCEPT ![t] = Requeued(@, s)]
    /\ UNCHANGED <<file, profiles, dumps, stamp>>

-----------------------------------------------------------------------------
(* Endings. *)

\* The engine aborts or is killed: no new dump comes, those on their way may be lost, and
\* the page goes on writing what it has
EngineDies(t) ==
    /\ ProfileAct /\ profiles[t].running
    /\ profiles' = [profiles EXCEPT ![t].running = FALSE]
    /\ \E lost \in BOOLEAN : dumps' = IF lost THEN [dumps EXCEPT ![t] = <<>>] ELSE dumps
    /\ UNCHANGED <<file, pages, stamp>>

\* pagehide: the flush is posted to a worker terminated in the same task.  A write
\* whose close() was called may still complete.
CloseViewer(t) ==
    /\ ProfileAct /\ pages[t].open
    /\ file' \in {file} \cup pages[t].writing
    /\ profiles' = [profiles EXCEPT ![t] = Unused]
    /\ pages' = [pages EXCEPT ![t] = Gone]
    /\ dumps' = [dumps EXCEPT ![t] = <<>>]
    /\ UNCHANGED stamp

-----------------------------------------------------------------------------
PersistNext ==
    \E t \in ViewerTabs :
        \/ Dump(t) \/ DumpLost(t) \/ OnPersist(t) \/ WriteTimer(t) \/ WriteDone(t) \/ WriteFails(t)
        \/ EngineDies(t) \/ CloseViewer(t)
        \/ \E how \in {"on", "off", "clear", "unreadable"} : Open(t, how)
        \/ \E o \in Origins : Visit(t, o) \/ \E v \in Values \cup {Nothing} : Store(t, o, v)

\* Ticks, timers and OPFS promises come; no guest has to do anything.
PersistFairness == \A t \in ViewerTabs :
    /\ WF_persistVars(Dump(t)) /\ WF_persistVars(OnPersist(t))
    /\ WF_persistVars(WriteTimer(t)) /\ WF_persistVars(WriteDone(t))
PersistSpec == PersistInit /\ [][PersistNext]_persistVars /\ PersistFairness

-----------------------------------------------------------------------------
\* A page that has nothing left to do has written the newest snapshot its engine sent:
\* the engine will not send it again, so a dropped one would be lost.
Idle(t) == /\ pages[t].open /\ pages[t].on /\ profiles[t].running
           /\ dumps[t] = <<>> /\ ~pages[t].timer /\ pages[t].writing = {}
NewestIsWritten == \A t \in ViewerTabs : Idle(t) => pages[t].wrote = profiles[t].sent

\* A page never puts an older snapshot over a newer one of its own.
WritesInOrder ==
    [][\A t \in ViewerTabs : pages[t].open /\ pages'[t].wrote # pages[t].wrote /\ pages'[t].open
          => pages'[t].wrote > pages[t].wrote]_persistVars

\* A session keeps what earlier sessions stored for the sites it did not visit, when the
\* file it replaces is the one it was seeded from.
Replaces(t) == file' # file /\ file' # NoSnapshot /\ file'.by = t
UnvisitedSurvive ==
    [][\A t \in ViewerTabs : Replaces(t) /\ file = profiles[t].basis
          => \A o \in Origins \ profiles[t].touched : file'.data[o] = Contains(file)[o]]_persistVars

\* What the guest stored reaches the file: every open viewer comes to rest with nothing on its way,
\* and, if its engine lives, with the whole profile written.  A profile over 12 MB is not written,
\* and one that was not sent for want of memory waits for the next change.
CaughtUp(t) ==
    pages[t].open /\ pages[t].on =>
        /\ dumps[t] = <<>> /\ pages[t].pending = NoSnapshot /\ pages[t].writing = {}
        /\ profiles[t].running /\ ~profiles[t].unsent /\ ~Oversized(Snapshot(profiles[t])) =>
              pages[t].wrote = profiles[t].sent /\ profiles[t].last = Snapshot(profiles[t])
ProfileReachesFile == <>[](\A t \in ViewerTabs : CaughtUp(t))

\* Logins persist: no tab's write removes what it never touched.
LoginsPersist ==
    [][\A t \in ViewerTabs : Replaces(t)
          => \A o \in Origins \ profiles[t].touched : file'.data[o] = Contains(file)[o]]_persistVars
=============================================================================
