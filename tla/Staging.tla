------------------------------- MODULE Staging -------------------------------
(***************************************************************************)
(* Building the engine (scripts/build-engine.sh), staging a build into a   *)
(* checkout (scripts/stage-engine.mjs) and releasing it (release.mjs).     *)
(* Builds are one at a time, under a lock: sources are hashed, compiled as *)
(* they are by then, and stored as a snapshot stamped with the hash.       *)
(* Staging takes no lock: snapshots are pruned and bin/ is rebuilt while   *)
(* it copies; it retries once, and may be killed.  A snapshot is known by  *)
(* its number, newest last.  A release stages, says whether the engine is  *)
(* built from this checkout's sources, and packs what is staged.           *)
(***************************************************************************)
EXTENDS Integers, Sequences, FiniteSets

CONSTANTS Hashes,                     \* of engine sources, any checkout's
          Compiled,                   \* the bits that sources of a hash compile to
          Ours,                       \* the snapshots this checkout builds
          Retained,                   \* how many snapshots are kept
          MaxBuilds, MaxGuesses, MaxStagings   \* bounds: compiles, and snapshots; snapshots
                                               \* that some hash is guessed of; stagings

ASSUME StagingAssumption == Hashes # {} /\ MaxBuilds \in Nat /\ MaxGuesses \in Nat /\ MaxStagings \in Nat

VARIABLES built,     \* every snapshot ever stored: its link mode, its bits, the hashes stamped on
                     \* it, and those stamped although the bits were not built from them
          present,   \* those not pruned
          bin,       \* build/webcore/bin, by link mode: the compiles so far, the last one's bits
          build,     \* the build that holds the lock: its next step, what it stamps
          source,    \* engineSrcHash of this checkout
          out,       \* src/engine: the snapshot each file came from
          meta,      \* .staged-meta.json
          script,    \* the running script: its arguments, the snapshot it took, its next step
          shipped,   \* a release, until the next staging: the sources it says its engine is
                     \* built from, its engine
          stagings,
          killed     \* a script was killed, and none has written its record since

stagingVars == <<built, present, bin, build, source, out, meta, script, shipped, stagings, killed>>

None == -1
Raw == 0
NoMeta == [stamp |-> None, hashes |-> {}, pinned |-> FALSE]
NoEngine == [js |-> None, wasm |-> None, config |-> None]
NoBuild == [step |-> "idle", link |-> "plain", stamps |-> {}, guessed |-> {}]
NoRelease == [says |-> {}, engine |-> NoEngine]
Done == [step |-> "idle", ifStale |-> FALSE, from |-> None, src |-> None, retried |-> FALSE, release |-> FALSE]
StagingInit == /\ built = <<>> /\ present = {} /\ build = NoBuild
               /\ bin = [link \in {"plain", "proxy"} |-> [id |-> 0, bits |-> None]]
               /\ source = (CHOOSE h \in Hashes : TRUE)
               /\ out = NoEngine /\ shipped = NoRelease
               /\ meta = NoMeta /\ script = Done /\ stagings = 0 /\ killed = FALSE

-----------------------------------------------------------------------------
(* What the script reads. *)

Newest(S) == IF S = {} THEN None ELSE CHOOSE s \in S : \A t \in S : t <= s
Stageable == {s \in present : built[s].link = "plain"}
Matching == {s \in Stageable : source \in built[s].hashes}
\* --from mine
Mine == Stageable \cap Ours
BitsStaged == out.js # None /\ out.wasm # None
StagedStillMatches == source \in meta.hashes /\ BitsStaged /\ out.config # None
Exists(s) == IF s = Raw THEN bin["plain"].id > 0 ELSE s \in present
\* A file of bin/ is of the last compile, one of a snapshot is the snapshot's for ever
CopyOf(s) == IF s = Raw THEN None - bin["plain"].id ELSE s
SameInodes(s) == s # Raw /\ out.js = s /\ out.wasm = s /\ out.config # None
HashesOf(s) == IF s = Raw THEN {} ELSE built[s].hashes

-----------------------------------------------------------------------------
(* stageOnce. *)

\* It returns to the release that spawned it, if any; a status other than 0 ends that too
Returns == IF script.release THEN [Done EXCEPT !.step = "release"] ELSE Done
Exits == Done
\* The snapshot to stage, and its link mode's check; from = Raw stands for --from mine
Choice == IF script.from # None
          THEN IF script.from = Raw THEN Newest(Mine) ELSE Newest({script.from} \cap Stageable)
          ELSE IF Matching # {} THEN Newest(Matching)
          ELSE IF Stageable # {} THEN Newest(Stageable) ELSE Raw
Select ==
    /\ script.step = "select" /\ UNCHANGED <<built, present, bin, build, source, shipped, stagings, killed>>
    /\ IF \/ script.ifStale /\ meta.pinned /\ BitsStaged
          \/ script.from = None /\ Matching = {} /\ StagedStillMatches
       THEN script' = Returns /\ UNCHANGED <<out, meta>>
       ELSE IF Choice = None \/ ~Exists(Choice) THEN script' = Exits /\ UNCHANGED <<out, meta>>
       ELSE IF script.ifStale /\ SameInodes(Choice)
            THEN /\ script' = Returns /\ UNCHANGED out
                 /\ meta' = IF meta # NoMeta THEN meta
                            ELSE [stamp |-> Choice, hashes |-> HashesOf(Choice), pinned |-> FALSE]
       ELSE script' = [script EXCEPT !.src = Choice, !.step = "js"] /\ UNCHANGED <<out, meta>>

\* A faulty variant: the old file is left for the copy to overwrite.
RemovedNot(file) == out
\* rmSync
Removed(file) == [out EXCEPT ![file] = None]
\* A file is removed and linked anew; a snapshot pruned meanwhile throws, once to a retry
File(file, next) ==
    /\ script.step = file /\ UNCHANGED <<built, present, bin, build, source, meta, shipped, stagings, killed>>
    /\ IF Exists(script.src)
       THEN /\ out' = [out EXCEPT ![file] = CopyOf(script.src)]
            /\ script' = [script EXCEPT !.step = next]
       ELSE /\ out' = Removed(file)
            /\ script' = IF script.retried THEN Exits
                         ELSE [script EXCEPT !.step = "select", !.src = None, !.retried = TRUE]
\* The link-mode stamp is copied or synthesized
Config == /\ script.step = "config" /\ out' = [out EXCEPT !.config = Raw]
          /\ script' = [script EXCEPT !.step = "meta"]
          /\ UNCHANGED <<built, present, bin, build, source, meta, shipped, stagings, killed>>
\* .staged-meta.json; a snapshot pruned by now names no hashes
WriteMeta == /\ script.step = "meta" /\ script' = Returns
             /\ meta' = [stamp |-> script.src, pinned |-> script.from # None,
                         hashes |-> IF Exists(script.src) THEN HashesOf(script.src) ELSE {}]
             /\ killed' = FALSE
             /\ UNCHANGED <<built, present, bin, build, source, out, shipped, stagings>>

\* The script is run: by hand, with or without --from, by a pretest hook, or by a release
Run(ifStale, from, release) ==
    /\ script.step = "idle" /\ stagings < MaxStagings /\ stagings' = stagings + 1
    /\ script' = [Done EXCEPT !.step = "select", !.ifStale = ifStale, !.from = from, !.release = release]
    /\ shipped' = NoRelease
    /\ UNCHANGED <<built, present, bin, build, source, out, meta, killed>>
StagingKilled == /\ script.step # "idle" /\ script' = Done /\ killed' = TRUE
                 /\ UNCHANGED <<built, present, bin, build, source, out, meta, shipped, stagings>>

\* release.mjs after staging: it warns unless the record names this checkout's sources, and
\* packs; without an engine packExt throws
Release == /\ script.step = "release" /\ script' = Done
           /\ shipped' = IF out.wasm = None THEN shipped
                         ELSE [says |-> {source} \cap meta.hashes, engine |-> out]
           /\ UNCHANGED <<built, present, bin, build, source, out, meta, stagings, killed>>

-----------------------------------------------------------------------------
(* build-engine.sh, of any checkout.  The checkouts' sources change at any time. *)

\* A bound: the snapshots stamped with a hash their bits were not built from
MayGuess == Cardinality({s \in DOMAIN built : built[s].guessed # {}}) < MaxGuesses

\* The sources are hashed; the build ends there if a snapshot has the hash, without --force
Hashed(h, link, force) ==
    /\ build.step = "idle"
    /\ force \/ \A s \in present : built[s].link = link => h \notin built[s].hashes
    /\ build' = [NoBuild EXCEPT !.step = "compile", !.link = link, !.stamps = {h}]
    /\ UNCHANGED <<built, present, bin, source, out, meta, script, shipped, stagings, killed>>
\* They are compiled, as they are by now
Compile(h) ==
    /\ build.step = "compile" /\ bin["plain"].id + bin["proxy"].id < MaxBuilds
    /\ h \in build.stamps \/ MayGuess
    /\ bin' = [bin EXCEPT ![build.link] = [id |-> @.id + 1, bits |-> Compiled[h]]]
    /\ build' = [build EXCEPT !.step = "snapshot", !.guessed = build.stamps \ {h}]
    /\ UNCHANGED <<built, present, source, out, meta, script, shipped, stagings, killed>>
\* --snapshot-only: the hash of now is stamped on what an earlier build left in bin/
SnapshotOnly(h, link) ==
    /\ build.step = "idle" /\ bin[link].id > 0 /\ MayGuess
    /\ build' = [step |-> "snapshot", link |-> link, stamps |-> {h}, guessed |-> {h}]
    /\ UNCHANGED <<built, present, bin, source, out, meta, script, shipped, stagings, killed>>
\* A faulty variant: the glue is compared, not the engine's bits.
GlueUnchanged(latest) == latest > 0 /\ built[latest].link = build.link
\* cmp: the latest snapshot holds what bin/ does
Unchanged(latest) == /\ latest > 0 /\ built[latest].link = build.link
                     /\ built[latest].bits = bin[build.link].bits
\* also_source_hashes
Stamped(s) == [s EXCEPT !.hashes = s.hashes \cup build.stamps,
                        !.guessed = s.guessed \cup (build.guessed \ s.hashes)]
\* The same bits get one more hash, others a snapshot of their own; the oldest are pruned
StoreSnapshot ==
    /\ build.step = "snapshot" /\ build' = NoBuild
    /\ IF Unchanged(Len(built))
       THEN /\ built' = [built EXCEPT ![Len(built)] = Stamped(built[Len(built)])]
            /\ UNCHANGED present
       ELSE /\ Len(built) < MaxBuilds
            /\ built' = Append(built, [link |-> build.link, bits |-> bin[build.link].bits,
                                       hashes |-> build.stamps, guessed |-> build.guessed])
            /\ present' = {s \in present \cup {Len(built) + 1} : s + Retained > Len(built) + 1}
    /\ UNCHANGED <<bin, source, out, meta, script, shipped, stagings, killed>>
\* It fails or is killed, and the lock is free again
BuildFails == /\ build.step # "idle" /\ build' = NoBuild
              /\ UNCHANGED <<built, present, bin, source, out, meta, script, shipped, stagings, killed>>
Builds == \/ \E h \in Hashes, link \in {"plain", "proxy"} :
               \/ \E force \in BOOLEAN : Hashed(h, link, force)
               \/ SnapshotOnly(h, link)
          \/ \E h \in Hashes : Compile(h)
          \/ StoreSnapshot \/ BuildFails
SourcesChange == /\ source' \in Hashes \ {source}
                 /\ UNCHANGED <<built, present, bin, build, out, meta, script, shipped, stagings, killed>>

StagingNext == \/ Select \/ File("js", "wasm") \/ File("wasm", "config") \/ Config \/ WriteMeta
               \/ StagingKilled \/ Release \/ Builds \/ SourcesChange
               \/ \E ifStale \in BOOLEAN : Run(ifStale, None, FALSE)
               \/ \E from \in {Raw} \cup DOMAIN built : Run(FALSE, from, FALSE)
               \/ Run(FALSE, None, TRUE)
StagingSpec == StagingInit /\ [][StagingNext]_stagingVars

-----------------------------------------------------------------------------
\* Whatever was built, pruned, retried or refused on the way, a staged engine that is complete is
\* what its record says: files of one snapshot, with no source hash the snapshot does not have, so
\* that "staged copy still matches these sources" is believed rightly; or copies of bin/, which a
\* build may have rewritten half way, and which the record names no hash for.  Only a killed
\* script may lie, until one writes its record.
BitsAreAttributed ==
    script.step = "idle" /\ ~killed /\ BitsStaged /\ out.config # None =>
        IF meta.stamp = Raw THEN out.js < None /\ out.wasm < None /\ meta.hashes = {}
        ELSE /\ out.js = meta.stamp /\ out.wasm = meta.stamp
             /\ meta.hashes \subseteq HashesOf(out.wasm)

\* A release that does not warn of its engine packs a whole one, of one snapshot, and its bits are
\* what the sources it names compile to, whatever was built, deduplicated, pruned and staged
\* before it: unless the hash was stamped by a build whose sources were edited after they were
\* hashed, or by --snapshot-only, which the record does not tell apart.
ReleaseIsAttributed ==
    ~killed /\ shipped.says # {} =>
        /\ shipped.engine.config # None /\ shipped.engine.js = shipped.engine.wasm
        /\ shipped.says \subseteq HashesOf(shipped.engine.wasm)
        /\ \A h \in shipped.says \ built[shipped.engine.wasm].guessed :
              built[shipped.engine.wasm].bits = Compiled[h]
=============================================================================
