----------------------------- MODULE BuildTree -----------------------------
(***************************************************************************)
(* The build directory of a checkout, which four tools share: build_core.py*)
(* compiles a core for both architectures at the same time, in containers  *)
(* that run container_build.py; release_core.py signs what was built;      *)
(* prepare_bundle.py replaces it by the published core the plugin is       *)
(* pinned to; package.py makes the installation packages.                  *)
(*                                                                         *)
(* The maintainer runs one tool at a time, in any order.  Files are written*)
(* in place, so that a tool that is killed leaves one of them cut short.   *)
(* Commands fail.  A killed build takes its containers with it.            *)
(*                                                                         *)
(* A lock stands for a dependency lock together with the recipe: builds    *)
(* are reproducible, and one lock has one binary for each architecture.    *)
(* Digests are equal when contents are.                                    *)
(***************************************************************************)
EXTENDS Naturals, FiniteSets

CONSTANTS Lock,        \* dependency locks
          Identity,    \* versions with build numbers
          IdOf,        \* the identity of each lock
          Released,    \* locks with a published release
          Platform,    \* packages
          ArchesOf,    \* the architectures each package carries
          None,        \* no file
          Torn,        \* a file that was cut short
          MaxRuns,     \* bound on runs of the tools
          MaxFaults    \* bound on failed commands and kills

Arch == {"arm", "arm64"}

VARIABLES
  pin,       \* tools/bundled_core.json
  meta,      \* build/core-build.json
  core,      \* build/cores/<arch>
  rel,       \* build/core-release
  dist,      \* the packages and their SHA256SUMS
  shipped,   \* what publish_core.py last took from build/core-release
  op,        \* the tool at work
  worker,    \* the container of each architecture
  intact,    \* which results are complete, and untouched since
  refused,   \* of these, what a tool has refused to take
  runs, faults

vars == <<pin, meta, core, rel, dist, shipped, op, worker, intact, refused, runs, faults>>

-----------------------------------------------------------------------------
(* Files *)

\* tailscale.combined as the linker leaves it and as UPX leaves it.
Raw(l) == [lock |-> l, form |-> "raw"]
Packed(l) == [lock |-> l, form |-> "packed"]
Binary == [lock : Lock, form : {"raw", "packed"}] \cup {Torn}

\* build.json and descriptor.json.
Record == [lock : Lock, bin : Binary]

File(content) == content \cup {None, Torn}

CoreDir == [bin : File(Binary), rec : File(Record), desc : File(Record)]
NoCore == [bin |-> None, rec |-> None, desc |-> None]

\* The signed envelope binds a lock to a binary of each architecture and to the
\* archive that holds it.
Manifest == [lock : Lock, bins : [Arch -> Binary]]
DescriptorOf(m, a) == [lock |-> m.lock, bin |-> m.bins[a]]
Signed(l) == [lock |-> l, bins |-> [a \in Arch |-> Packed(l)]]

RelDir == [archive : [Arch -> File(Binary)], manifest : File(Manifest),
           sums : File([Arch -> File(Binary)]), metadata : File(Lock)]
NoRel == [archive |-> [a \in Arch |-> None], manifest |-> None, sums |-> None, metadata |-> None]

Package == [manifest : Manifest, cores : UNION {[as -> Record] : as \in SUBSET Arch}]
DistDir == [package : [Platform -> File(Package)], sums : File([Platform -> File(Package)])]

Whole(file) == file \notin {None, Torn}

ASSUME BuildTreeAssumption ==
  /\ IdOf \in [Lock -> Identity]
  /\ Released \subseteq Lock
  /\ \A l, k \in Released : IdOf[l] = IdOf[k] => l = k
  /\ IsFiniteSet(Platform) /\ ArchesOf \in [Platform -> SUBSET Arch]
  /\ None # Torn
  /\ \A l \in Lock : Whole(l) /\ Whole(Raw(l)) /\ Whole(Packed(l)) /\ Whole(Signed(l))
  /\ \A r \in Record : Whole(r)
  /\ MaxRuns \in Nat /\ MaxFaults \in Nat

-----------------------------------------------------------------------------
(* Tools *)

Phases == {"idle", "metadata", "compile", "archive", "sign", "describe", "sums", "finish",
           "remove", "move", "removeRel", "moveRel", "packages", "distSums"}

\* arches and platforms: what is still to be done in this phase; cores: the
\* binaries release_core validated.
Op == [pc : Phases, lock : Lock \cup {None}, arches : SUBSET Arch,
       cores : [Arch -> Binary] \cup {None}, platforms : SUBSET Platform]
Idle == [pc |-> "idle", lock |-> None, arches |-> {}, cores |-> None, platforms |-> {}]

\* The build of both architectures; cores and envelope that belong together;
\* a whole release directory.
Results == {"compiled", "signed", "released"}

TypeOK ==
  /\ pin \in Identity
  /\ meta \in File(Lock)
  /\ core \in [Arch -> CoreDir]
  /\ rel \in RelDir
  /\ dist \in DistDir
  /\ shipped \in [dir : RelDir, complete : BOOLEAN] \cup {None}
  /\ op \in Op
  /\ worker \in [Arch -> {"none", "enter", "link", "pack", "record", "done", "failed"}]
  /\ intact \subseteq Results /\ refused \subseteq Results
  /\ runs \in 0 .. MaxRuns /\ faults \in 0 .. MaxFaults

Init ==
  /\ pin \in Identity
  /\ meta = None
  /\ core = [a \in Arch |-> NoCore]
  /\ rel = NoRel
  /\ dist = [package |-> [p \in Platform |-> None], sums |-> None]
  /\ shipped = None
  /\ op = Idle
  /\ worker = [a \in Arch |-> "none"]
  /\ intact = {} /\ refused = {}
  /\ runs = 0 /\ faults = 0

At(where) == op.pc = where
Goes(where) == op' = [op EXCEPT !.pc = where]
Runs == At("idle") /\ runs < MaxRuns /\ runs' = runs + 1

\* The next architecture of a phase: arm comes first.
Turn(a) == a \in op.arches /\ (a = "arm64" => "arm" \notin op.arches)

-----------------------------------------------------------------------------
(* build_core.py and container_build.py *)

\* What precedes the metadata does not touch the directory.
Build(l, as) ==
  /\ Runs
  /\ op' = [Idle EXCEPT !.pc = "metadata", !.lock = l, !.arches = as]
  /\ UNCHANGED <<pin, meta, core, rel, dist, shipped, worker, intact, refused, faults>>

WriteMetadata ==
  /\ At("metadata")
  /\ meta' = op.lock
  /\ worker' = [a \in Arch |-> IF a \in op.arches THEN "enter" ELSE "none"]
  /\ intact' = intact \ {"compiled"}
  /\ Goes("compile")
  /\ UNCHANGED <<pin, core, rel, dist, shipped, refused, runs, faults>>

Steps(a, from, to) ==
  /\ worker[a] = from
  /\ worker' = [worker EXCEPT ![a] = to]
  /\ UNCHANGED <<pin, meta, rel, dist, shipped, op, refused, runs, faults>>

\* The container goes by the metadata, which must be for the source and the
\* compiler it was started with.
Enter(a) == Steps(a, "enter", IF meta = op.lock THEN "link" ELSE "failed")
            /\ UNCHANGED <<core, intact>>

\* What was signed is overwritten from here on.
Link(a) ==
  /\ Steps(a, "link", "pack")
  /\ core' = [core EXCEPT ![a].bin = Raw(meta)]
  /\ intact' = intact \ {"signed"}

Pack(a) ==
  /\ Steps(a, "pack", "record")
  /\ core' = [core EXCEPT ![a].bin = Packed(meta)]
  /\ UNCHANGED intact

\* Mutant: the digest of the record is taken before UPX.
WriteRecordEarly(a) ==
  /\ Steps(a, "record", "done")
  /\ core' = [core EXCEPT ![a].rec = [lock |-> meta, bin |-> Raw(meta)]]
  /\ UNCHANGED intact

WriteRecord(a) ==
  /\ Steps(a, "record", "done")
  /\ core' = [core EXCEPT ![a].rec = [lock |-> meta, bin |-> core[a].bin]]
  /\ UNCHANGED intact

\* Both containers are waited for, whether or not one has failed.
BuildEnds ==
  /\ At("compile")
  /\ \A a \in op.arches : worker[a] \in {"done", "failed"}
  /\ intact' = IF \A a \in Arch : worker[a] = "done" THEN intact \cup {"compiled"} ELSE intact
  /\ op' = Idle
  /\ worker' = [a \in Arch |-> "none"]
  /\ UNCHANGED <<pin, meta, core, rel, dist, shipped, refused, runs, faults>>

-----------------------------------------------------------------------------
(* release_core.py *)

\* Mutant: the binary is not compared with its record.
ValidatedProvenance(a) ==
  /\ Whole(core[a].bin) /\ Whole(core[a].rec)
  /\ core[a].rec.lock = meta

\* validate_metadata: build_core.py writes the metadata from its lock, so that only
\* a file that was cut short disagrees with it.
MetadataBound == Whole(meta)

\* validated_core: the record of the architecture was made under the lock of the
\* metadata, and for the binary that is there.
Validated(a) ==
  /\ Whole(core[a].bin) /\ Whole(core[a].rec)
  /\ core[a].rec = [lock |-> meta, bin |-> core[a].bin]

\* The archives of an earlier release are removed first.
Release ==
  /\ Runs
  /\ \/ /\ MetadataBound /\ \A a \in Arch : Validated(a)
        /\ op' = [Idle EXCEPT !.pc = "archive", !.lock = meta, !.arches = Arch,
                              !.cores = [a \in Arch |-> core[a].bin]]
        /\ rel' = [rel EXCEPT !.archive = NoRel.archive]
        /\ intact' = intact \ {"signed", "released"}
        /\ UNCHANGED refused
     \/ /\ ~(MetadataBound /\ \A a \in Arch : Validated(a))
        /\ refused' = intact \cap {"compiled"}
        /\ UNCHANGED <<op, rel, intact>>
  /\ UNCHANGED <<pin, meta, core, dist, shipped, worker, faults>>

WriteArchive(a) ==
  /\ At("archive") /\ Turn(a)
  /\ rel' = [rel EXCEPT !.archive[a] = core[a].bin]
  /\ op' = [op EXCEPT !.arches = @ \ {a}, !.pc = IF op.arches = {a} THEN "sign" ELSE @]
  /\ UNCHANGED <<pin, meta, core, dist, shipped, worker, intact, refused, runs, faults>>

Sign ==
  /\ At("sign")
  /\ rel' = [rel EXCEPT !.manifest = [lock |-> op.lock, bins |-> op.cores]]
  /\ op' = [op EXCEPT !.pc = "describe", !.arches = Arch]
  /\ UNCHANGED <<pin, meta, core, dist, shipped, worker, intact, refused, runs, faults>>

\* The verified descriptor is written beside the binary.
Describe(a) ==
  /\ At("describe") /\ Turn(a)
  /\ core' = [core EXCEPT ![a].desc = DescriptorOf(rel.manifest, a)]
  /\ op' = [op EXCEPT !.arches = @ \ {a}, !.pc = IF op.arches = {a} THEN "sums" ELSE @]
  /\ UNCHANGED <<pin, meta, rel, dist, shipped, worker, intact, refused, runs, faults>>

WriteSums ==
  /\ At("sums")
  /\ rel' = [rel EXCEPT !.sums = rel.archive]
  /\ Goes("finish")
  /\ UNCHANGED <<pin, meta, core, dist, shipped, worker, intact, refused, runs, faults>>

\* Mutant: metadata that is there is kept.
CopyMetadataOnce ==
  /\ At("finish")
  /\ rel' = [rel EXCEPT !.metadata = IF @ = None THEN meta ELSE @]
  /\ op' = Idle
  /\ intact' = intact \cup {"signed", "released"}
  /\ UNCHANGED <<pin, meta, core, dist, shipped, worker, refused, runs, faults>>

CopyMetadata ==
  /\ At("finish")
  /\ rel' = [rel EXCEPT !.metadata = meta]
  /\ op' = Idle
  /\ intact' = intact \cup {"signed", "released"}
  /\ UNCHANGED <<pin, meta, core, dist, shipped, worker, refused, runs, faults>>

\* publish_core.py takes the directory if the archives are those of the manifest,
\* and gh takes the two other files as they are.
Publish ==
  /\ Runs
  /\ Whole(rel.manifest) /\ rel.sums # None /\ rel.metadata # None
  /\ \A a \in Arch : rel.archive[a] = rel.manifest.bins[a]
  /\ shipped' = [dir |-> rel, complete |-> "released" \in intact]
  /\ UNCHANGED <<pin, meta, core, rel, dist, op, worker, intact, refused, faults>>

-----------------------------------------------------------------------------
(* prepare_bundle.py *)

\* bundle_identity compares version and build number, not the lock.
Pinned(l) == IdOf[l] = pin

\* The published core of the pinned identity is downloaded, verified and unpacked
\* beside; then the directories are replaced one after the other.
Prepare(l) ==
  /\ Runs
  /\ l \in Released /\ Pinned(l)
  /\ op' = [Idle EXCEPT !.pc = "remove", !.lock = l, !.arches = Arch]
  /\ intact' = {}
  /\ UNCHANGED <<pin, meta, core, rel, dist, shipped, worker, refused, faults>>

RemoveCore(a) ==
  /\ At("remove") /\ Turn(a)
  /\ core' = [core EXCEPT ![a] = NoCore]
  /\ Goes("move")
  /\ UNCHANGED <<pin, meta, rel, dist, shipped, worker, intact, refused, runs, faults>>

MoveCore(a) ==
  /\ At("move") /\ Turn(a)
  /\ core' = [core EXCEPT ![a] = [bin |-> Packed(op.lock), rec |-> None,
                                  desc |-> DescriptorOf(Signed(op.lock), a)]]
  /\ op' = [op EXCEPT !.arches = @ \ {a}, !.pc = IF op.arches = {a} THEN "removeRel" ELSE "remove"]
  /\ UNCHANGED <<pin, meta, rel, dist, shipped, worker, intact, refused, runs, faults>>

RemoveRel ==
  /\ At("removeRel")
  /\ rel' = NoRel
  /\ Goes("moveRel")
  /\ UNCHANGED <<pin, meta, core, dist, shipped, worker, intact, refused, runs, faults>>

MoveRel ==
  /\ At("moveRel")
  /\ rel' = [NoRel EXCEPT !.archive = Signed(op.lock).bins, !.sums = Signed(op.lock).bins,
                          !.manifest = Signed(op.lock)]
  /\ op' = Idle
  /\ intact' = {"signed"}
  /\ UNCHANGED <<pin, meta, core, dist, shipped, worker, refused, runs, faults>>

-----------------------------------------------------------------------------
(* package.py *)

\* Mutant: the binary is not compared with its descriptor.
AgreeDescriptor(a) ==
  LET c == core[a] IN
  /\ Whole(c.bin) /\ Whole(c.desc)
  /\ Pinned(c.desc.lock)
  /\ c.desc = DescriptorOf(rel.manifest, a)

\* Binary, descriptor, manifest and pin must agree on each architecture, and the
\* architectures on their recipe.
Agree(a) ==
  LET c == core[a] IN
  /\ Whole(c.bin) /\ Whole(c.desc)
  /\ Pinned(c.desc.lock)
  /\ c.desc.bin = c.bin
  /\ c.desc = DescriptorOf(rel.manifest, a)

Packable ==
  /\ Whole(rel.manifest)
  /\ \A a \in Arch : Agree(a)
  /\ core["arm"].desc.lock = core["arm64"].desc.lock

BuildPackages ==
  /\ Runs
  /\ \/ Packable /\ op' = [Idle EXCEPT !.pc = "packages", !.platforms = Platform] /\ UNCHANGED refused
     \/ /\ ~Packable
        /\ refused' = IF Whole(rel.manifest) /\ Pinned(rel.manifest.lock)
                      THEN intact \cap {"signed"} ELSE {}
        /\ UNCHANGED op
  /\ UNCHANGED <<pin, meta, core, rel, dist, shipped, worker, intact, faults>>

WritePackage(p) ==
  /\ At("packages") /\ p \in op.platforms
  /\ dist' = [dist EXCEPT !.package[p] =
       [manifest |-> rel.manifest,
        cores |-> [a \in ArchesOf[p] |-> [lock |-> core[a].desc.lock, bin |-> core[a].bin]]]]
  /\ op' = [op EXCEPT !.platforms = @ \ {p}, !.pc = IF op.platforms = {p} THEN "distSums" ELSE @]
  /\ UNCHANGED <<pin, meta, core, rel, shipped, worker, intact, refused, runs, faults>>

WriteDistSums ==
  /\ At("distSums")
  /\ dist' = [dist EXCEPT !.sums = dist.package]
  /\ op' = Idle
  /\ UNCHANGED <<pin, meta, core, rel, shipped, worker, intact, refused, runs, faults>>

-----------------------------------------------------------------------------
(* Around the tools *)

\* The plugin is to carry another core.
EditPin ==
  /\ At("idle")
  /\ pin' \in Identity \ {pin}
  /\ UNCHANGED <<meta, core, rel, dist, shipped, op, worker, intact, refused, runs, faults>>

Faulty == faults < MaxFaults /\ faults' = faults + 1

\* The compiler or UPX fails; the linker may leave part of its output.
Break(a) ==
  /\ worker[a] \in {"enter", "link", "pack", "record"}
  /\ Faulty
  /\ worker' = [worker EXCEPT ![a] = "failed"]
  /\ \/ UNCHANGED <<core, intact>>
     \/ /\ worker[a] = "link"
        /\ core' = [core EXCEPT ![a].bin = Torn] /\ intact' = intact \ {"signed"}
  /\ UNCHANGED <<pin, meta, rel, dist, shipped, op, refused, runs>>

\* A tool is killed: what it is writing is left as it was or cut short, and a
\* directory it is removing loses one of its files.
Kill ==
  /\ ~At("idle")
  /\ Faulty
  /\ op' = Idle
  /\ worker' = [a \in Arch |-> "none"]
  /\ intact' = intact \ (CASE At("metadata") -> {"compiled"} [] At("compile") -> {"signed"}
                             [] OTHER -> {})
  /\ meta' \in {meta} \cup IF At("metadata") THEN {Torn} ELSE {}
  /\ core' \in {core}
       \cup {[core EXCEPT ![a].bin = Torn] : a \in {b \in Arch : worker[b] = "link"}}
       \cup {[core EXCEPT ![a].rec = Torn] : a \in {b \in Arch : worker[b] = "record"}}
       \cup {[core EXCEPT ![a].desc = Torn] : a \in {b \in Arch : At("describe") /\ Turn(b)}}
       \cup {[core EXCEPT ![a].bin = None] : a \in {b \in Arch : At("remove") /\ Turn(b)}}
       \cup {[core EXCEPT ![a].rec = None] : a \in {b \in Arch : At("remove") /\ Turn(b)}}
       \cup {[core EXCEPT ![a].desc = None] : a \in {b \in Arch : At("remove") /\ Turn(b)}}
  /\ rel' \in {rel}
       \cup {[rel EXCEPT !.archive[a] = Torn] : a \in {b \in Arch : At("archive") /\ Turn(b)}}
       \cup (IF At("sign") THEN {[rel EXCEPT !.manifest = Torn]} ELSE {})
       \cup (IF At("sums") THEN {[rel EXCEPT !.sums = Torn]} ELSE {})
       \cup (IF At("finish") THEN {[rel EXCEPT !.metadata = Torn]} ELSE {})
       \cup (IF At("removeRel") THEN {[rel EXCEPT !.manifest = None],
                                      [rel EXCEPT !.archive["arm"] = None]} ELSE {})
  /\ dist' \in {dist}
       \cup {[dist EXCEPT !.package[p] = Torn] : p \in IF At("packages") THEN op.platforms ELSE {}}
       \cup (IF At("distSums") THEN {[dist EXCEPT !.sums = Torn]} ELSE {})
  /\ UNCHANGED <<pin, shipped, refused, runs>>

Container(a) == Enter(a) \/ Link(a) \/ Pack(a) \/ WriteRecord(a) \/ Break(a)

Next ==
  \/ \E l \in Lock : \E as \in SUBSET Arch \ {{}} : Build(l, as)
  \/ WriteMetadata \/ BuildEnds
  \/ \E a \in Arch : Container(a) \/ WriteArchive(a) \/ Describe(a) \/ RemoveCore(a) \/ MoveCore(a)
  \/ Release \/ Sign \/ WriteSums \/ CopyMetadata \/ Publish
  \/ \E l \in Lock : Prepare(l)
  \/ RemoveRel \/ MoveRel
  \/ BuildPackages \/ WriteDistSums
  \/ \E p \in Platform : WritePackage(p)
  \/ EditPin \/ Kill

Spec == Init /\ [][Next]_vars

-----------------------------------------------------------------------------
(* Properties *)

\* Whatever is signed is the finished result of a build of both architectures
\* under the lock it is signed with, whatever builds broke off before
\* (release_core.py:44-56, container_build.py:44-48).
SignedIsBuilt == Whole(rel.manifest) => rel.manifest = Signed(rel.manifest.lock)

\* Every package carries finished cores of one recipe and the envelope that signs
\* them, and a list of checksums covers packages of one core
\* (package.py:54-70, prepare_bundle.py:57-67).
PackagesAgree ==
  /\ \A p \in Platform : LET k == dist.package[p] IN
       Whole(k) => /\ k.manifest = Signed(k.manifest.lock)
                   /\ \A a \in ArchesOf[p] : k.cores[a] = DescriptorOf(k.manifest, a)
  /\ Whole(dist.sums) => \A p, q \in Platform : dist.sums[p].manifest = dist.sums[q].manifest

\* What is published is the finished result of a build in the archives it names,
\* and after a release that was carried through the checksums and the lock beside
\* it are its own; only after one that was killed they may be older
\* (publish_core.py:98-111, release_core.py:91-97).
ShippedIsWhole ==
  shipped # None =>
    LET d == shipped.dir IN
    /\ d.manifest = Signed(d.manifest.lock) /\ d.archive = d.manifest.bins
    /\ shipped.complete => d.sums = d.archive /\ d.metadata = d.manifest.lock

\* Signing refuses only when the build was not carried through or was touched
\* since, and packaging only when preparing or signing was: nothing an earlier
\* tool left behind stands in the way (release_core.py:44-56, package.py:54-70).
RefusedForCause == refused = {}
=============================================================================
