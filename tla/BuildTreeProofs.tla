-------------------------- MODULE BuildTreeProofs --------------------------
(***************************************************************************)
(* Proofs about BuildTree, for every set of locks, packages and runs and   *)
(* every number of faults: only finished results are signed, packaged and  *)
(* published, and refusals have a cause.                                   *)
(*                                                                         *)
(* All tools write the same files, and only one of them is at work: the    *)
(* invariant says of each phase what its tool has established so far       *)
(* (Working, Signing, Preparing, Packaging), and of each result what it    *)
(* keeps of the files until somebody touches them (Kept).                  *)
(*                                                                         *)
(* At the end what a tool leaves that is not killed (ToolsCarryThrough),   *)
(* and that each step of a tool leaves fewer of them (EveryToolEnds).      *)
(***************************************************************************)
EXTENDS BuildTree, FiniteSetTheorems, TLAPS

\* The record, and the descriptor, of a finished core.
Finished(l) == [lock |-> l, bin |-> Packed(l)]

SigningPhases == {"archive", "sign", "describe", "sums", "finish"}
PreparingPhases == {"remove", "move", "removeRel", "moveRel"}
PackagingPhases == {"packages", "distSums"}

\* A record is only written of a finished core.
Recorded ==
  \A a \in Arch : Whole(core[a].rec) => core[a].rec = Finished(core[a].rec.lock)

\* What the containers of a build rely on.
Working ==
  /\ op.pc \in {"metadata", "compile"} => op.lock \in Lock
  /\ At("compile") => "compiled" \notin intact
  /\ \A a \in Arch :
       /\ worker[a] # "none" => At("compile")
       /\ worker[a] \in {"link", "pack", "record", "done"} => meta = op.lock
       /\ worker[a] = "pack" => "signed" \notin intact
       /\ worker[a] \in {"record", "done"} => core[a].bin = Packed(op.lock)
       /\ worker[a] = "done" => core[a].rec = Finished(op.lock)

\* What release_core has validated is still there when it is signed and described.
Signing ==
  op.pc \in SigningPhases =>
    /\ op.lock \in Lock /\ meta = op.lock /\ op.cores = Signed(op.lock).bins
    /\ intact \subseteq {"compiled"}
    /\ op.pc \in {"describe", "sums", "finish"} => rel.manifest = Signed(op.lock)
    /\ op.pc = "finish" => rel.sums = rel.archive
    /\ \A a \in Arch :
         /\ core[a].bin = Packed(op.lock)
         /\ op.pc \in {"sums", "finish"} \/ (op.pc = "describe" /\ a \notin op.arches)
            => core[a].desc = Finished(op.lock)

Preparing ==
  op.pc \in PreparingPhases =>
    /\ op.lock \in Lock /\ intact = {}
    /\ \A a \in Arch :
         op.pc \in {"removeRel", "moveRel"} \/ a \notin op.arches =>
           core[a].bin = Packed(op.lock) /\ core[a].desc = Finished(op.lock)

\* What package.py has validated is what it packs.
Packaging ==
  op.pc \in PackagingPhases =>
    /\ Whole(rel.manifest)
    /\ \A a \in Arch : /\ core[a].desc = DescriptorOf(rel.manifest, a)
                       /\ core[a].bin = core[a].desc.bin
    /\ \A p \in Platform :
         At("distSums") \/ p \notin op.platforms => dist.package[p].manifest = rel.manifest

\* What the files of an untouched result are.
Kept ==
  /\ "compiled" \in intact =>
       meta \in Lock /\ \A a \in Arch : core[a].bin = Packed(meta) /\ core[a].rec = Finished(meta)
  /\ "signed" \in intact =>
       /\ rel.manifest.lock \in Lock /\ rel.manifest = Signed(rel.manifest.lock)
       /\ \A a \in Arch : /\ core[a].bin = Packed(rel.manifest.lock)
                          /\ core[a].desc = Finished(rel.manifest.lock)
  /\ "released" \in intact => rel.sums = rel.archive /\ rel.metadata = rel.manifest.lock

IInv ==
  /\ TypeOK
  /\ Recorded /\ Working /\ Signing /\ Preparing /\ Packaging /\ Kept
  /\ SignedIsBuilt /\ PackagesAgree /\ ShippedIsWhole /\ RefusedForCause

-----------------------------------------------------------------------------
(* Files *)

LEMMA Contents ==
  ASSUME NEW l \in Lock
  PROVE  /\ Raw(l) \in Binary /\ Packed(l) \in Binary /\ Finished(l) \in Record
         /\ Signed(l) \in Manifest /\ Signed(l).lock = l
         /\ \A a \in Arch : Signed(l).bins[a] = Packed(l) /\ DescriptorOf(Signed(l), a) = Finished(l)
         /\ Whole(l) /\ Whole(Raw(l)) /\ Whole(Packed(l)) /\ Whole(Signed(l)) /\ Whole(Finished(l))
<1>1. /\ Raw(l) \in Binary /\ Packed(l) \in Binary /\ Finished(l) \in Record
      /\ Signed(l) \in Manifest
  BY DEF Raw, Packed, Binary, Finished, Record, Signed, Manifest
<1>2. /\ Signed(l).lock = l
      /\ \A a \in Arch : Signed(l).bins[a] = Packed(l) /\ DescriptorOf(Signed(l), a) = Finished(l)
  BY DEF Signed, DescriptorOf, Finished
<1>3. Whole(l) /\ Whole(Raw(l)) /\ Whole(Packed(l)) /\ Whole(Signed(l)) /\ Whole(Finished(l))
  BY <1>1, BuildTreeAssumption
<1>4. QED
  BY <1>1, <1>2, <1>3


\* A tool that only looks, or nothing at all.
LEMMA NothingMoves ==
  ASSUME IInv, runs' \in 0 .. MaxRuns, faults' \in 0 .. MaxFaults, pin' \in Identity,
         UNCHANGED <<meta, core, rel, dist, shipped, op, worker, intact, refused>>
  PROVE  IInv'
<1>1. TypeOK'
  BY DEF IInv, TypeOK
<1>2. Recorded' /\ Working' /\ Signing' /\ Preparing' /\ Packaging' /\ Kept'
  BY DEF IInv, Recorded, Working, Signing, Preparing, Packaging, Kept, At
<1>3. SignedIsBuilt' /\ PackagesAgree' /\ ShippedIsWhole' /\ RefusedForCause'
  BY DEF IInv, SignedIsBuilt, PackagesAgree, ShippedIsWhole, RefusedForCause
<1>4. QED
  BY <1>1, <1>2, <1>3 DEF IInv

-----------------------------------------------------------------------------
(* build_core.py and container_build.py *)

LEMMA BuildKeeps ==
  ASSUME IInv, NEW l \in Lock, NEW as \in SUBSET Arch, Build(l, as) PROVE IInv'
<1>1. /\ TypeOK /\ Recorded /\ Working /\ Signing /\ Preparing /\ Packaging /\ Kept
      /\ SignedIsBuilt /\ PackagesAgree /\ ShippedIsWhole /\ RefusedForCause
  BY DEF IInv
<1>2. op' = [pc |-> "metadata", lock |-> l, arches |-> as, cores |-> None, platforms |-> {}]
  BY DEF Build, Idle
<1>3. /\ UNCHANGED <<pin, meta, core, rel, dist, shipped, worker, intact, refused, faults>>
      /\ runs' \in 0 .. MaxRuns /\ op.pc = "idle"
  BY <1>1, BuildTreeAssumption DEF Build, Runs, At, TypeOK
<1>4. TypeOK'
  BY <1>1, <1>2, <1>3 DEF TypeOK, Op, Phases
<1>5. Working'
  BY <1>1, <1>2, <1>3 DEF Working, At
<1>6. Signing'
  BY <1>1, <1>2, <1>3 DEF Signing, SigningPhases
<1>7. Preparing'
  BY <1>1, <1>2, <1>3 DEF Preparing, PreparingPhases
<1>8. Packaging'
  BY <1>1, <1>2, <1>3 DEF Packaging, PackagingPhases, At
<1>9. Recorded' /\ Kept' /\ SignedIsBuilt' /\ PackagesAgree' /\ ShippedIsWhole' /\
      RefusedForCause'
  BY <1>1, <1>2, <1>3 DEF Recorded, Kept, SignedIsBuilt, PackagesAgree, ShippedIsWhole,
     RefusedForCause
<1>10. QED
  BY <1>4, <1>5, <1>6, <1>7, <1>8, <1>9 DEF IInv

LEMMA WriteMetadataKeeps ==
  ASSUME IInv, WriteMetadata PROVE IInv'
<1>1. /\ TypeOK /\ Recorded /\ Working /\ Signing /\ Preparing /\ Packaging /\ Kept
      /\ SignedIsBuilt /\ PackagesAgree /\ ShippedIsWhole /\ RefusedForCause
  BY DEF IInv
<1>2. /\ UNCHANGED <<pin, core, rel, dist, shipped, refused, runs, faults>>
      /\ op.pc = "metadata" /\ op' = [op EXCEPT !.pc = "compile"]
      /\ meta' = op.lock /\ intact' = intact \ {"compiled"}
      /\ \A a \in Arch : worker'[a] \in {"none", "enter"}
      /\ worker' \in [Arch -> {"none", "enter"}]
  BY DEF WriteMetadata, At, Goes
<1>3. /\ op'.pc = "compile" /\ op'.lock = op.lock /\ op' \in Op /\ op.lock \in Lock
  BY <1>1, <1>2 DEF TypeOK, Op, Phases, Working
<1>4. TypeOK'
  BY <1>1, <1>2, <1>3 DEF TypeOK, File, Results
<1>5. Working'
  BY <1>1, <1>2, <1>3 DEF Working, At
<1>6. Signing'
  BY <1>1, <1>2, <1>3 DEF Signing, SigningPhases
<1>7. Preparing'
  BY <1>1, <1>2, <1>3 DEF Preparing, PreparingPhases
<1>8. Packaging'
  BY <1>1, <1>2, <1>3 DEF Packaging, PackagingPhases, At
<1>9. Kept'
  BY <1>1, <1>2, <1>3 DEF Kept
<1>10. Recorded' /\ SignedIsBuilt' /\ PackagesAgree' /\ ShippedIsWhole' /\ RefusedForCause'
  BY <1>1, <1>2, <1>3 DEF Recorded, SignedIsBuilt, PackagesAgree, ShippedIsWhole, RefusedForCause
<1>11. QED
  BY <1>4, <1>5, <1>6, <1>7, <1>8, <1>9, <1>10 DEF IInv

LEMMA EnterKeeps ==
  ASSUME IInv, NEW a \in Arch, Enter(a) PROVE IInv'
<1>1. /\ TypeOK /\ Recorded /\ Working /\ Signing /\ Preparing /\ Packaging /\ Kept
      /\ SignedIsBuilt /\ PackagesAgree /\ ShippedIsWhole /\ RefusedForCause
  BY DEF IInv
<1>2. /\ worker' = [worker EXCEPT ![a] = IF meta = op.lock THEN "link" ELSE "failed"]
      /\ worker[a] = "enter"
      /\ UNCHANGED <<pin, meta, core, rel, dist, shipped, op, intact, refused, runs, faults>>
  BY DEF Enter, Steps
<1>3. /\ worker' \in [Arch -> {"none", "enter", "link", "pack", "record", "done", "failed"}]
      /\ worker'[a] = IF meta = op.lock THEN "link" ELSE "failed"
      /\ \A b \in Arch : b # a => worker'[b] = worker[b]
  BY <1>1, <1>2 DEF TypeOK
<1>4. TypeOK'
  BY <1>1, <1>2, <1>3 DEF TypeOK, Op, Phases
<1>5. Working'
  BY <1>1, <1>2, <1>3 DEF Working, At
<1>6. Recorded' /\ Signing' /\ Preparing' /\ Packaging' /\ Kept' /\ SignedIsBuilt' /\
      PackagesAgree' /\ ShippedIsWhole' /\ RefusedForCause'
  BY <1>1, <1>2, <1>3 DEF Recorded, Signing, SigningPhases, Preparing, PreparingPhases,
     Packaging, PackagingPhases, At, Kept, SignedIsBuilt, PackagesAgree, ShippedIsWhole,
     RefusedForCause
<1>7. QED
  BY <1>4, <1>5, <1>6 DEF IInv

LEMMA LinkKeeps ==
  ASSUME IInv, NEW a \in Arch, Link(a) PROVE IInv'
<1>1. /\ TypeOK /\ Recorded /\ Working /\ Signing /\ Preparing /\ Packaging /\ Kept
      /\ SignedIsBuilt /\ PackagesAgree /\ ShippedIsWhole /\ RefusedForCause
  BY DEF IInv
<1>2. /\ UNCHANGED <<pin, meta, rel, dist, shipped, op, refused, runs, faults>>
      /\ worker[a] = "link" /\ worker' = [worker EXCEPT ![a] = "pack"]
      /\ core' = [core EXCEPT ![a].bin = Raw(meta)]
      /\ intact' = intact \ {"signed"}
  BY DEF Link, Steps
<1>3. /\ worker' \in [Arch -> {"none", "enter", "link", "pack", "record", "done", "failed"}]
      /\ worker'[a] = "pack" /\ \A b \in Arch : b # a => worker'[b] = worker[b]
  BY <1>1, <1>2 DEF TypeOK
<1>4. /\ meta = op.lock /\ op.pc = "compile" /\ op.lock \in Lock /\ "compiled" \notin intact
  BY <1>1, <1>2 DEF Working, At
<1>5. /\ \A b \in Arch : b # a => core'[b] = core[b]
      /\ core'[a].bin = Raw(meta)
      /\ core'[a].rec = core[a].rec /\ core'[a].desc = core[a].desc
  BY <1>1, <1>2 DEF TypeOK, CoreDir
<1>6. Raw(meta) \in Binary
  BY <1>4, Contents
<1>7. core' \in [Arch -> CoreDir]
  BY <1>1, <1>2, <1>4, <1>5, <1>6, Contents DEF TypeOK, CoreDir, File
<1>8. TypeOK'
  BY <1>1, <1>2, <1>3, <1>4, <1>5, <1>6, <1>7 DEF TypeOK, Op, Phases
<1>9. Recorded'
  BY <1>1, <1>2, <1>3, <1>4, <1>5, <1>6, <1>7 DEF Recorded
<1>10. Working'
  BY <1>1, <1>2, <1>3, <1>4, <1>5, <1>6, <1>7 DEF Working, At
<1>11. Signing'
  BY <1>1, <1>2, <1>3, <1>4, <1>5, <1>6, <1>7 DEF Signing, SigningPhases
<1>12. Preparing'
  BY <1>1, <1>2, <1>3, <1>4, <1>5, <1>6, <1>7 DEF Preparing, PreparingPhases
<1>13. Packaging'
  BY <1>1, <1>2, <1>3, <1>4, <1>5, <1>6, <1>7 DEF Packaging, PackagingPhases, At
<1>14. Kept'
  BY <1>1, <1>2, <1>3, <1>4, <1>5, <1>6, <1>7 DEF Kept
<1>15. SignedIsBuilt' /\ PackagesAgree' /\ ShippedIsWhole' /\ RefusedForCause'
  BY <1>1, <1>2, <1>3, <1>4, <1>5, <1>6, <1>7 DEF SignedIsBuilt, PackagesAgree, ShippedIsWhole,
     RefusedForCause
<1>16. QED
  BY <1>8, <1>9, <1>10, <1>11, <1>12, <1>13, <1>14, <1>15 DEF IInv

LEMMA PackKeeps ==
  ASSUME IInv, NEW a \in Arch, Pack(a) PROVE IInv'
<1>1. /\ TypeOK /\ Recorded /\ Working /\ Signing /\ Preparing /\ Packaging /\ Kept
      /\ SignedIsBuilt /\ PackagesAgree /\ ShippedIsWhole /\ RefusedForCause
  BY DEF IInv
<1>2. /\ UNCHANGED <<pin, meta, rel, dist, shipped, op, refused, runs, faults>>
      /\ worker[a] = "pack" /\ worker' = [worker EXCEPT ![a] = "record"]
      /\ core' = [core EXCEPT ![a].bin = Packed(meta)]
      /\ intact' = intact
  BY DEF Pack, Steps
<1>3. /\ worker' \in [Arch -> {"none", "enter", "link", "pack", "record", "done", "failed"}]
      /\ worker'[a] = "record" /\ \A b \in Arch : b # a => worker'[b] = worker[b]
  BY <1>1, <1>2 DEF TypeOK
<1>4. /\ meta = op.lock /\ op.pc = "compile" /\ op.lock \in Lock /\ "compiled" \notin intact
  BY <1>1, <1>2 DEF Working, At
<1>5. /\ \A b \in Arch : b # a => core'[b] = core[b]
      /\ core'[a].bin = Packed(meta)
      /\ core'[a].rec = core[a].rec /\ core'[a].desc = core[a].desc
  BY <1>1, <1>2 DEF TypeOK, CoreDir
<1>6. Packed(meta) \in Binary /\ "signed" \notin intact
  BY <1>1, <1>2, <1>4, Contents DEF Working
<1>7. core' \in [Arch -> CoreDir]
  BY <1>1, <1>2, <1>4, <1>5, <1>6, Contents DEF TypeOK, CoreDir, File
<1>8. TypeOK'
  BY <1>1, <1>2, <1>3, <1>4, <1>5, <1>6, <1>7 DEF TypeOK, Op, Phases
<1>9. Recorded'
  BY <1>1, <1>2, <1>3, <1>4, <1>5, <1>6, <1>7 DEF Recorded
<1>10. Working'
  BY <1>1, <1>2, <1>3, <1>4, <1>5, <1>6, <1>7 DEF Working, At
<1>11. Signing'
  BY <1>1, <1>2, <1>3, <1>4, <1>5, <1>6, <1>7 DEF Signing, SigningPhases
<1>12. Preparing'
  BY <1>1, <1>2, <1>3, <1>4, <1>5, <1>6, <1>7 DEF Preparing, PreparingPhases
<1>13. Packaging'
  BY <1>1, <1>2, <1>3, <1>4, <1>5, <1>6, <1>7 DEF Packaging, PackagingPhases, At
<1>14. Kept'
  BY <1>1, <1>2, <1>3, <1>4, <1>5, <1>6, <1>7 DEF Kept
<1>15. SignedIsBuilt' /\ PackagesAgree' /\ ShippedIsWhole' /\ RefusedForCause'
  BY <1>1, <1>2, <1>3, <1>4, <1>5, <1>6, <1>7 DEF SignedIsBuilt, PackagesAgree, ShippedIsWhole,
     RefusedForCause
<1>16. QED
  BY <1>8, <1>9, <1>10, <1>11, <1>12, <1>13, <1>14, <1>15 DEF IInv

LEMMA WriteRecordKeeps ==
  ASSUME IInv, NEW a \in Arch, WriteRecord(a) PROVE IInv'
<1>1. /\ TypeOK /\ Recorded /\ Working /\ Signing /\ Preparing /\ Packaging /\ Kept
      /\ SignedIsBuilt /\ PackagesAgree /\ ShippedIsWhole /\ RefusedForCause
  BY DEF IInv
<1>2. /\ UNCHANGED <<pin, meta, rel, dist, shipped, op, refused, runs, faults>>
      /\ worker[a] = "record" /\ worker' = [worker EXCEPT ![a] = "done"]
      /\ core' = [core EXCEPT ![a].rec = [lock |-> meta, bin |-> core[a].bin]]
      /\ intact' = intact
  BY DEF WriteRecord, Steps
<1>3. /\ worker' \in [Arch -> {"none", "enter", "link", "pack", "record", "done", "failed"}]
      /\ worker'[a] = "done" /\ \A b \in Arch : b # a => worker'[b] = worker[b]
  BY <1>1, <1>2 DEF TypeOK
<1>4. /\ meta = op.lock /\ op.pc = "compile" /\ op.lock \in Lock /\ "compiled" \notin intact
  BY <1>1, <1>2 DEF Working, At
<1>5. /\ \A b \in Arch : b # a => core'[b] = core[b]
      /\ core'[a].rec = [lock |-> meta, bin |-> core[a].bin]
      /\ core'[a].bin = core[a].bin /\ core'[a].desc = core[a].desc
  BY <1>1, <1>2 DEF TypeOK, CoreDir
<1>6. [lock |-> meta, bin |-> core[a].bin] = Finished(meta) /\ Finished(meta) \in Record
  BY <1>1, <1>2, <1>4, Contents DEF Working, Finished
<1>7. core' \in [Arch -> CoreDir]
  BY <1>1, <1>2, <1>4, <1>5, <1>6, Contents DEF TypeOK, CoreDir, File
<1>8. TypeOK'
  BY <1>1, <1>2, <1>3, <1>4, <1>5, <1>6, <1>7 DEF TypeOK, Op, Phases
<1>9. Recorded'
  BY <1>1, <1>2, <1>3, <1>4, <1>5, <1>6, <1>7 DEF Recorded
<1>10. Working'
  BY <1>1, <1>2, <1>3, <1>4, <1>5, <1>6, <1>7 DEF Working, At
<1>11. Signing'
  BY <1>1, <1>2, <1>3, <1>4, <1>5, <1>6, <1>7 DEF Signing, SigningPhases
<1>12. Preparing'
  BY <1>1, <1>2, <1>3, <1>4, <1>5, <1>6, <1>7 DEF Preparing, PreparingPhases
<1>13. Packaging'
  BY <1>1, <1>2, <1>3, <1>4, <1>5, <1>6, <1>7 DEF Packaging, PackagingPhases, At
<1>14. Kept'
  BY <1>1, <1>2, <1>3, <1>4, <1>5, <1>6, <1>7 DEF Kept
<1>15. SignedIsBuilt' /\ PackagesAgree' /\ ShippedIsWhole' /\ RefusedForCause'
  BY <1>1, <1>2, <1>3, <1>4, <1>5, <1>6, <1>7 DEF SignedIsBuilt, PackagesAgree, ShippedIsWhole,
     RefusedForCause
<1>16. QED
  BY <1>8, <1>9, <1>10, <1>11, <1>12, <1>13, <1>14, <1>15 DEF IInv

LEMMA BuildEndsKeeps ==
  ASSUME IInv, BuildEnds PROVE IInv'
<1>1. /\ TypeOK /\ Recorded /\ Working /\ Signing /\ Preparing /\ Packaging /\ Kept
      /\ SignedIsBuilt /\ PackagesAgree /\ ShippedIsWhole /\ RefusedForCause
  BY DEF IInv
<1>2. /\ UNCHANGED <<pin, meta, core, rel, dist, shipped, refused, runs, faults>>
      /\ op.pc = "compile" /\ op' = Idle /\ \A a \in Arch : worker'[a] = "none"
      /\ worker' \in [Arch -> {"none"}]
      /\ \/ intact' = intact
         \/ (\A a \in Arch : worker[a] = "done") /\ intact' = intact \cup {"compiled"}
  BY DEF BuildEnds, At
<1>3. op'.pc = "idle" /\ op' \in Op
  BY <1>2 DEF Idle, Op, Phases
<1>4. (\A a \in Arch : worker[a] = "done") =>
        meta \in Lock /\ \A a \in Arch : core[a].bin = Packed(meta) /\ core[a].rec = Finished(meta)
  BY <1>1, <1>2 DEF Working, Arch
<1>5. TypeOK'
  BY <1>1, <1>2, <1>3 DEF TypeOK, Results
<1>6. Working'
  BY <1>1, <1>2, <1>3, <1>4 DEF Working, At
<1>7. Signing'
  BY <1>1, <1>2, <1>3, <1>4 DEF Signing, SigningPhases
<1>8. Preparing'
  BY <1>1, <1>2, <1>3, <1>4 DEF Preparing, PreparingPhases
<1>9. Packaging'
  BY <1>1, <1>2, <1>3, <1>4 DEF Packaging, PackagingPhases, At
<1>10. Kept'
  BY <1>1, <1>2, <1>3, <1>4 DEF Kept
<1>11. Recorded' /\ SignedIsBuilt' /\ PackagesAgree' /\ ShippedIsWhole' /\ RefusedForCause'
  BY <1>1, <1>2, <1>3, <1>4 DEF Recorded, SignedIsBuilt, PackagesAgree, ShippedIsWhole,
     RefusedForCause
<1>12. QED
  BY <1>5, <1>6, <1>7, <1>8, <1>9, <1>10, <1>11 DEF IInv

-----------------------------------------------------------------------------
(* release_core.py *)

LEMMA ValidatedFits ==
  ASSUME IInv, MetadataBound, \A a \in Arch : Validated(a)
  PROVE  meta \in Lock /\ \A a \in Arch : core[a].bin = Packed(meta)
<1>1. meta \in Lock
  BY DEF IInv, TypeOK, File, MetadataBound, Whole
<1>2. ASSUME NEW a \in Arch PROVE core[a].bin = Packed(meta)
  <2>1. Whole(core[a].rec) /\ core[a].rec = [lock |-> meta, bin |-> core[a].bin]
    BY DEF Validated
  <2>2. core[a].rec = Finished(core[a].rec.lock)
    BY <2>1 DEF IInv, Recorded
  <2>3. QED
    BY <2>1, <2>2 DEF Finished
<1>3. QED
  BY <1>1, <1>2

LEMMA ReleaseKeeps ==
  ASSUME IInv, Release PROVE IInv'
<1>1. /\ TypeOK /\ Recorded /\ Working /\ Signing /\ Preparing /\ Packaging /\ Kept
      /\ SignedIsBuilt /\ PackagesAgree /\ ShippedIsWhole /\ RefusedForCause
  BY DEF IInv
<1>2. /\ UNCHANGED <<pin, meta, core, dist, shipped, worker, faults>>
      /\ runs' \in 0 .. MaxRuns /\ op.pc = "idle"
  BY <1>1, BuildTreeAssumption DEF Release, Runs, At, TypeOK
<1>3. CASE MetadataBound /\ \A a \in Arch : Validated(a)
  <2>1. meta \in Lock /\ \A a \in Arch : core[a].bin = Packed(meta)
    BY <1>3, ValidatedFits
  <2>2. PICK o : o = [Idle EXCEPT !.pc = "archive", !.lock = meta, !.arches = Arch,
                                  !.cores = [a \in Arch |-> core[a].bin]]
    OBVIOUS
  <2>3. /\ op' = o /\ rel' = [rel EXCEPT !.archive = NoRel.archive]
        /\ intact' = intact \ {"signed", "released"} /\ refused' = refused
    <3>1. \/ /\ op' = [Idle EXCEPT !.pc = "archive", !.lock = meta, !.arches = Arch,
                                   !.cores = [a \in Arch |-> core[a].bin]]
             /\ rel' = [rel EXCEPT !.archive = NoRel.archive]
             /\ intact' = intact \ {"signed", "released"} /\ refused' = refused
          \/ ~(MetadataBound /\ \A a \in Arch : Validated(a))
      BY DEF Release
    <3>2. QED
      BY <1>3, <2>2, <3>1
  <2>4. [a \in Arch |-> core[a].bin] = Signed(meta).bins
    BY <2>1 DEF Signed
  <2>5. o = [pc |-> "archive", lock |-> meta, arches |-> Arch, cores |-> Signed(meta).bins,
             platforms |-> {}]
    BY <2>2, <2>4 DEF Idle
  <2>6. Signed(meta).bins \in [Arch -> Binary]
    BY <2>1, Contents DEF Manifest
  <2>7. o \in Op
    BY <2>1, <2>5, <2>6 DEF Op, Phases
  <2>8. rel' \in RelDir /\ rel'.manifest = rel.manifest
    BY <1>1, <2>3 DEF TypeOK, RelDir, NoRel, File
  <2>9. TypeOK'
    BY <1>1, <1>2, <2>3, <2>7, <2>8 DEF TypeOK
  <2>10. Signing'
    BY <1>1, <1>2, <2>1, <2>3, <2>5 DEF Signing, TypeOK, Results
  <2>11. Working' /\ Preparing' /\ Packaging'
    BY <1>1, <1>2, <2>3, <2>5 DEF Working, Preparing, Packaging, At, PreparingPhases,
       PackagingPhases
  <2>12. Kept' /\ SignedIsBuilt'
    BY <1>1, <1>2, <2>3, <2>8 DEF Kept, SignedIsBuilt
  <2>13. Recorded' /\ PackagesAgree' /\ ShippedIsWhole' /\ RefusedForCause'
    BY <1>1, <1>2, <2>3 DEF Recorded, PackagesAgree, ShippedIsWhole, RefusedForCause
  <2>14. QED
    BY <2>9, <2>10, <2>11, <2>12, <2>13 DEF IInv
<1>4. CASE ~(MetadataBound /\ \A a \in Arch : Validated(a))
  <2>1. refused' = intact \cap {"compiled"} /\ UNCHANGED <<op, rel, intact>>
    BY <1>4 DEF Release
  <2>2. "compiled" \notin intact
    <3>1. ASSUME "compiled" \in intact PROVE FALSE
      <4>1. meta \in Lock /\ \A a \in Arch : core[a].bin = Packed(meta) /\ core[a].rec = Finished(meta)
        BY <1>1, <3>1 DEF Kept
      <4>2. MetadataBound /\ \A a \in Arch : Validated(a)
        BY <4>1, Contents DEF MetadataBound, Validated, Finished
      <4>3. QED
        BY <1>4, <4>2
    <3>2. QED
      BY <3>1
  <2>3. refused' = refused
    BY <1>1, <2>1, <2>2 DEF RefusedForCause
  <2>4. pin' \in Identity /\ faults' \in 0 .. MaxFaults
    BY <1>1, <1>2 DEF TypeOK
  <2>5. QED
    BY <1>2, <2>1, <2>3, <2>4, NothingMoves
<1>5. QED
  BY <1>3, <1>4

LEMMA WriteArchiveKeeps ==
  ASSUME IInv, NEW a \in Arch, WriteArchive(a) PROVE IInv'
<1>1. /\ TypeOK /\ Recorded /\ Working /\ Signing /\ Preparing /\ Packaging /\ Kept
      /\ SignedIsBuilt /\ PackagesAgree /\ ShippedIsWhole /\ RefusedForCause
  BY DEF IInv
<1>2. /\ UNCHANGED <<pin, meta, core, dist, shipped, worker, intact, refused, runs, faults>>
      /\ rel' = [rel EXCEPT !.archive[a] = core[a].bin] /\ op.pc = "archive"
      /\ op' = [op EXCEPT !.arches = op.arches \ {a},
                          !.pc = IF op.arches = {a} THEN "sign" ELSE op.pc]
  BY DEF WriteArchive, At
<1>3. /\ op' \in Op /\ op'.pc \in {"archive", "sign"}
      /\ op'.lock = op.lock /\ op'.cores = op.cores
  BY <1>1, <1>2 DEF TypeOK, Op, Phases
<1>4. rel' \in RelDir /\ rel'.manifest = rel.manifest
  BY <1>1, <1>2 DEF TypeOK, RelDir, CoreDir
<1>5. intact \subseteq {"compiled"}
  BY <1>1, <1>2 DEF Signing, SigningPhases
<1>6. TypeOK'
  BY <1>1, <1>2, <1>3, <1>4 DEF TypeOK
<1>7. Working'
  BY <1>1, <1>2, <1>3, <1>4, <1>5 DEF Working, At
<1>8. Signing'
  BY <1>1, <1>2, <1>3, <1>4, <1>5 DEF Signing, SigningPhases
<1>9. Preparing'
  BY <1>1, <1>2, <1>3, <1>4, <1>5 DEF Preparing, PreparingPhases
<1>10. Packaging'
  BY <1>1, <1>2, <1>3, <1>4, <1>5 DEF Packaging, PackagingPhases, At
<1>11. Kept'
  BY <1>1, <1>2, <1>3, <1>4, <1>5 DEF Kept
<1>12. SignedIsBuilt'
  BY <1>1, <1>2, <1>3, <1>4, <1>5 DEF SignedIsBuilt
<1>13. Recorded' /\ PackagesAgree' /\ ShippedIsWhole' /\ RefusedForCause'
  BY <1>1, <1>2, <1>3, <1>4, <1>5 DEF Recorded, PackagesAgree, ShippedIsWhole, RefusedForCause
<1>14. QED
  BY <1>6, <1>7, <1>8, <1>9, <1>10, <1>11, <1>12, <1>13 DEF IInv

LEMMA SignKeeps ==
  ASSUME IInv, Sign PROVE IInv'
<1>1. /\ TypeOK /\ Recorded /\ Working /\ Signing /\ Preparing /\ Packaging /\ Kept
      /\ SignedIsBuilt /\ PackagesAgree /\ ShippedIsWhole /\ RefusedForCause
  BY DEF IInv
<1>2. /\ UNCHANGED <<pin, meta, core, dist, shipped, worker, intact, refused, runs, faults>>
      /\ rel' = [rel EXCEPT !.manifest = [lock |-> op.lock, bins |-> op.cores]] /\ op.pc = "sign"
      /\ op' = [op EXCEPT !.pc = "describe", !.arches = Arch]
  BY DEF Sign, At
<1>3. /\ op' \in Op /\ op'.pc = "describe" /\ op'.arches = Arch
      /\ op'.lock = op.lock /\ op'.cores = op.cores
  BY <1>1, <1>2 DEF TypeOK, Op, Phases
<1>4. intact \subseteq {"compiled"} /\ op.lock \in Lock /\ op.cores = Signed(op.lock).bins
  BY <1>1, <1>2 DEF Signing, SigningPhases
<1>5. [lock |-> op.lock, bins |-> op.cores] = Signed(op.lock)
  BY <1>4 DEF Signed
<1>6. rel' \in RelDir /\ rel'.manifest = Signed(op.lock) /\ Signed(op.lock).lock = op.lock
  BY <1>1, <1>2, <1>4, <1>5, Contents DEF TypeOK, RelDir, File
<1>7. TypeOK'
  BY <1>1, <1>2, <1>3, <1>6 DEF TypeOK
<1>8. Working'
  BY <1>1, <1>2, <1>3, <1>4, <1>5, <1>6 DEF Working, At
<1>9. Signing'
  BY <1>1, <1>2, <1>3, <1>4, <1>5, <1>6 DEF Signing, SigningPhases
<1>10. Preparing'
  BY <1>1, <1>2, <1>3, <1>4, <1>5, <1>6 DEF Preparing, PreparingPhases
<1>11. Packaging'
  BY <1>1, <1>2, <1>3, <1>4, <1>5, <1>6 DEF Packaging, PackagingPhases, At
<1>12. Kept'
  BY <1>1, <1>2, <1>3, <1>4, <1>5, <1>6 DEF Kept
<1>13. SignedIsBuilt'
  BY <1>1, <1>2, <1>3, <1>4, <1>5, <1>6 DEF SignedIsBuilt
<1>14. Recorded' /\ PackagesAgree' /\ ShippedIsWhole' /\ RefusedForCause'
  BY <1>1, <1>2, <1>3, <1>4, <1>5, <1>6 DEF Recorded, PackagesAgree, ShippedIsWhole,
     RefusedForCause
<1>15. QED
  BY <1>7, <1>8, <1>9, <1>10, <1>11, <1>12, <1>13, <1>14 DEF IInv

LEMMA DescribeKeeps ==
  ASSUME IInv, NEW a \in Arch, Describe(a) PROVE IInv'
<1>1. /\ TypeOK /\ Recorded /\ Working /\ Signing /\ Preparing /\ Packaging /\ Kept
      /\ SignedIsBuilt /\ PackagesAgree /\ ShippedIsWhole /\ RefusedForCause
  BY DEF IInv
<1>2. /\ UNCHANGED <<pin, meta, rel, dist, shipped, worker, intact, refused, runs, faults>>
      /\ core' = [core EXCEPT ![a].desc = DescriptorOf(rel.manifest, a)] /\ op.pc = "describe"
      /\ op' = [op EXCEPT !.arches = op.arches \ {a},
                          !.pc = IF op.arches = {a} THEN "sums" ELSE op.pc]
  BY DEF Describe, At
<1>3. /\ op' \in Op /\ op'.lock = op.lock /\ op'.cores = op.cores /\ op'.arches = op.arches \ {a}
      /\ (op'.pc = "sums" /\ op.arches = {a}) \/ op'.pc = "describe"
  BY <1>1, <1>2 DEF TypeOK, Op, Phases
<1>4. intact \subseteq {"compiled"} /\ op.lock \in Lock /\ rel.manifest = Signed(op.lock)
  BY <1>1, <1>2 DEF Signing, SigningPhases
<1>5. DescriptorOf(rel.manifest, a) = Finished(op.lock) /\ Finished(op.lock) \in Record
  BY <1>4, Contents
<1>6. /\ core' \in [Arch -> CoreDir] /\ core'[a].desc = Finished(op.lock)
      /\ core'[a].bin = core[a].bin /\ core'[a].rec = core[a].rec
      /\ \A b \in Arch : b # a => core'[b] = core[b]
  BY <1>1, <1>2, <1>5 DEF TypeOK, CoreDir, File
<1>7. TypeOK'
  BY <1>1, <1>2, <1>3, <1>6 DEF TypeOK
<1>8. Recorded'
  BY <1>1, <1>2, <1>3, <1>4, <1>5, <1>6 DEF Recorded
<1>9. Working'
  BY <1>1, <1>2, <1>3, <1>4, <1>5, <1>6 DEF Working, At
<1>10. Signing'
  BY <1>1, <1>2, <1>3, <1>4, <1>5, <1>6 DEF Signing, SigningPhases
<1>11. Preparing'
  BY <1>1, <1>2, <1>3, <1>4, <1>5, <1>6 DEF Preparing, PreparingPhases
<1>12. Packaging'
  BY <1>1, <1>2, <1>3, <1>4, <1>5, <1>6 DEF Packaging, PackagingPhases, At
<1>13. Kept'
  BY <1>1, <1>2, <1>3, <1>4, <1>5, <1>6 DEF Kept
<1>14. SignedIsBuilt' /\ PackagesAgree' /\ ShippedIsWhole' /\ RefusedForCause'
  BY <1>1, <1>2, <1>3, <1>4, <1>5, <1>6 DEF SignedIsBuilt, PackagesAgree, ShippedIsWhole,
     RefusedForCause
<1>15. QED
  BY <1>7, <1>8, <1>9, <1>10, <1>11, <1>12, <1>13, <1>14 DEF IInv

LEMMA WriteSumsKeeps ==
  ASSUME IInv, WriteSums PROVE IInv'
<1>1. /\ TypeOK /\ Recorded /\ Working /\ Signing /\ Preparing /\ Packaging /\ Kept
      /\ SignedIsBuilt /\ PackagesAgree /\ ShippedIsWhole /\ RefusedForCause
  BY DEF IInv
<1>2. /\ UNCHANGED <<pin, meta, core, dist, shipped, worker, intact, refused, runs, faults>>
      /\ rel' = [rel EXCEPT !.sums = rel.archive] /\ op.pc = "sums"
      /\ op' = [op EXCEPT !.pc = "finish"]
  BY DEF WriteSums, At, Goes
<1>3. /\ op' \in Op /\ op'.pc = "finish" /\ op'.lock = op.lock /\ op'.cores = op.cores
  BY <1>1, <1>2 DEF TypeOK, Op, Phases
<1>4. intact \subseteq {"compiled"}
  BY <1>1, <1>2 DEF Signing, SigningPhases
<1>5. /\ rel' \in RelDir /\ rel'.manifest = rel.manifest
      /\ rel'.sums = rel'.archive
  BY <1>1, <1>2 DEF TypeOK, RelDir, File
<1>6. TypeOK'
  BY <1>1, <1>2, <1>3, <1>5 DEF TypeOK
<1>7. Working'
  BY <1>1, <1>2, <1>3, <1>4, <1>5 DEF Working, At
<1>8. Signing'
  BY <1>1, <1>2, <1>3, <1>4, <1>5 DEF Signing, SigningPhases
<1>9. Preparing'
  BY <1>1, <1>2, <1>3, <1>4, <1>5 DEF Preparing, PreparingPhases
<1>10. Packaging'
  BY <1>1, <1>2, <1>3, <1>4, <1>5 DEF Packaging, PackagingPhases, At
<1>11. Kept'
  BY <1>1, <1>2, <1>3, <1>4, <1>5 DEF Kept
<1>12. SignedIsBuilt'
  BY <1>1, <1>2, <1>3, <1>4, <1>5 DEF SignedIsBuilt
<1>13. Recorded' /\ PackagesAgree' /\ ShippedIsWhole' /\ RefusedForCause'
  BY <1>1, <1>2, <1>3, <1>4, <1>5 DEF Recorded, PackagesAgree, ShippedIsWhole, RefusedForCause
<1>14. QED
  BY <1>6, <1>7, <1>8, <1>9, <1>10, <1>11, <1>12, <1>13 DEF IInv

LEMMA CopyMetadataKeeps ==
  ASSUME IInv, CopyMetadata PROVE IInv'
<1>1. /\ TypeOK /\ Recorded /\ Working /\ Signing /\ Preparing /\ Packaging /\ Kept
      /\ SignedIsBuilt /\ PackagesAgree /\ ShippedIsWhole /\ RefusedForCause
  BY DEF IInv
<1>2. /\ UNCHANGED <<pin, meta, core, dist, shipped, worker, refused, runs, faults>>
      /\ rel' = [rel EXCEPT !.metadata = meta] /\ op.pc = "finish" /\ op' = Idle
      /\ intact' = intact \cup {"signed", "released"}
  BY DEF CopyMetadata, At
<1>3. op' \in Op /\ op'.pc = "idle"
  BY <1>2 DEF Idle, Op, Phases
<1>4. /\ op.lock \in Lock /\ meta = op.lock /\ rel.manifest = Signed(op.lock)
      /\ rel.sums = rel.archive
      /\ \A a \in Arch : core[a].bin = Packed(op.lock) /\ core[a].desc = Finished(op.lock)
  BY <1>1, <1>2 DEF Signing, SigningPhases
<1>5. rel' \in RelDir /\ rel'.manifest = rel.manifest /\ rel'.sums = rel'.archive /\
      rel'.metadata = meta
  BY <1>1, <1>2, <1>4 DEF TypeOK, RelDir, File
<1>6. rel.manifest.lock = op.lock
  BY <1>4, Contents
<1>7. TypeOK'
  BY <1>1, <1>2, <1>3, <1>5 DEF TypeOK, Results
<1>8. Working'
  BY <1>1, <1>2, <1>3, <1>4, <1>5, <1>6 DEF Working, At
<1>9. Signing'
  BY <1>1, <1>2, <1>3, <1>4, <1>5, <1>6 DEF Signing, SigningPhases
<1>10. Preparing'
  BY <1>1, <1>2, <1>3, <1>4, <1>5, <1>6 DEF Preparing, PreparingPhases
<1>11. Packaging'
  BY <1>1, <1>2, <1>3, <1>4, <1>5, <1>6 DEF Packaging, PackagingPhases, At
<1>12. Kept'
  BY <1>1, <1>2, <1>3, <1>4, <1>5, <1>6 DEF Kept
<1>13. SignedIsBuilt'
  BY <1>1, <1>2, <1>3, <1>4, <1>5, <1>6 DEF SignedIsBuilt
<1>14. Recorded' /\ PackagesAgree' /\ ShippedIsWhole' /\ RefusedForCause'
  BY <1>1, <1>2, <1>3, <1>4, <1>5, <1>6 DEF Recorded, PackagesAgree, ShippedIsWhole,
     RefusedForCause
<1>15. QED
  BY <1>7, <1>8, <1>9, <1>10, <1>11, <1>12, <1>13, <1>14 DEF IInv

LEMMA PublishKeeps ==
  ASSUME IInv, Publish PROVE IInv'
<1>1. /\ TypeOK /\ Recorded /\ Working /\ Signing /\ Preparing /\ Packaging /\ Kept
      /\ SignedIsBuilt /\ PackagesAgree /\ ShippedIsWhole /\ RefusedForCause
  BY DEF IInv
<1>2. /\ UNCHANGED <<pin, meta, core, rel, dist, op, worker, intact, refused, faults>>
      /\ runs' \in 0 .. MaxRuns
      /\ shipped' = [dir |-> rel, complete |-> "released" \in intact]
      /\ Whole(rel.manifest) /\ \A a \in Arch : rel.archive[a] = rel.manifest.bins[a]
  BY <1>1, BuildTreeAssumption DEF Publish, Runs, TypeOK
<1>3. rel.manifest = Signed(rel.manifest.lock)
  BY <1>1, <1>2 DEF SignedIsBuilt
<1>4. rel.archive = rel.manifest.bins
  BY <1>1, <1>2, <1>3 DEF TypeOK, RelDir, File, Signed
<1>5. shipped' \in [dir : RelDir, complete : BOOLEAN]
  BY <1>1, <1>2 DEF TypeOK
<1>6. TypeOK'
  BY <1>1, <1>2, <1>3, <1>4, <1>5 DEF TypeOK, Op, Phases
<1>7. ShippedIsWhole'
  BY <1>1, <1>2, <1>3, <1>4 DEF ShippedIsWhole, Kept
<1>8. Recorded' /\ Working' /\ Signing' /\ Preparing' /\ Packaging' /\ Kept' /\ SignedIsBuilt'
      /\ PackagesAgree' /\ RefusedForCause'
  BY <1>1, <1>2, <1>3, <1>4, <1>5 DEF Recorded, Working, At, Signing, SigningPhases, Preparing,
     PreparingPhases, Packaging, PackagingPhases, At, Kept, SignedIsBuilt, PackagesAgree,
     RefusedForCause
<1>9. QED
  BY <1>6, <1>7, <1>8 DEF IInv

-----------------------------------------------------------------------------
(* prepare_bundle.py *)

LEMMA PrepareKeeps ==
  ASSUME IInv, NEW l \in Lock, Prepare(l) PROVE IInv'
<1>1. /\ TypeOK /\ Recorded /\ Working /\ Signing /\ Preparing /\ Packaging /\ Kept
      /\ SignedIsBuilt /\ PackagesAgree /\ ShippedIsWhole /\ RefusedForCause
  BY DEF IInv
<1>2. op' = [pc |-> "remove", lock |-> l, arches |-> Arch, cores |-> None, platforms |-> {}]
  BY DEF Prepare, Idle
<1>3. /\ UNCHANGED <<pin, meta, core, rel, dist, shipped, worker, refused, faults>>
      /\ runs' \in 0 .. MaxRuns /\ op.pc = "idle" /\ intact' = {}
  BY <1>1, BuildTreeAssumption DEF Prepare, Runs, At, TypeOK
<1>4. TypeOK'
  BY <1>1, <1>2, <1>3 DEF TypeOK, Op, Phases
<1>5. Working'
  BY <1>1, <1>2, <1>3 DEF Working, At
<1>6. Signing'
  BY <1>1, <1>2, <1>3 DEF Signing, SigningPhases
<1>7. Preparing'
  BY <1>1, <1>2, <1>3 DEF Preparing, PreparingPhases
<1>8. Packaging'
  BY <1>1, <1>2, <1>3 DEF Packaging, PackagingPhases, At
<1>9. Kept'
  BY <1>1, <1>2, <1>3 DEF Kept
<1>10. Recorded' /\ SignedIsBuilt' /\ PackagesAgree' /\ ShippedIsWhole' /\ RefusedForCause'
  BY <1>1, <1>2, <1>3 DEF Recorded, SignedIsBuilt, PackagesAgree, ShippedIsWhole, RefusedForCause
<1>11. QED
  BY <1>4, <1>5, <1>6, <1>7, <1>8, <1>9, <1>10 DEF IInv

LEMMA RemoveCoreKeeps ==
  ASSUME IInv, NEW a \in Arch, RemoveCore(a) PROVE IInv'
<1>1. /\ TypeOK /\ Recorded /\ Working /\ Signing /\ Preparing /\ Packaging /\ Kept
      /\ SignedIsBuilt /\ PackagesAgree /\ ShippedIsWhole /\ RefusedForCause
  BY DEF IInv
<1>2. /\ UNCHANGED <<pin, meta, rel, dist, shipped, worker, intact, refused, runs, faults>>
      /\ core' = [core EXCEPT ![a] = NoCore] /\ op.pc = "remove" /\ a \in op.arches
      /\ op' = [op EXCEPT !.pc = "move"]
  BY DEF RemoveCore, At, Goes, Turn
<1>3. /\ op' \in Op /\ op'.pc = "move" /\ op'.lock = op.lock /\ op'.arches = op.arches
  BY <1>1, <1>2 DEF TypeOK, Op, Phases
<1>4. /\ core' \in [Arch -> CoreDir] /\ core'[a].rec = None
      /\ \A b \in Arch : b # a => core'[b] = core[b]
  BY <1>1, <1>2 DEF TypeOK, CoreDir, File, NoCore
<1>5. intact = {} /\ op.lock \in Lock
  BY <1>1, <1>2 DEF Preparing, PreparingPhases
<1>6. TypeOK'
  BY <1>1, <1>2, <1>3, <1>4 DEF TypeOK
<1>7. Recorded'
  BY <1>1, <1>2, <1>3, <1>4, <1>5 DEF Recorded, Whole
<1>8. Working'
  BY <1>1, <1>2, <1>3, <1>4, <1>5 DEF Working, At
<1>9. Signing'
  BY <1>1, <1>2, <1>3, <1>4, <1>5 DEF Signing, SigningPhases
<1>10. Preparing'
  BY <1>1, <1>2, <1>3, <1>4, <1>5 DEF Preparing, PreparingPhases
<1>11. Packaging'
  BY <1>1, <1>2, <1>3, <1>4, <1>5 DEF Packaging, PackagingPhases, At
<1>12. Kept'
  BY <1>1, <1>2, <1>3, <1>4, <1>5 DEF Kept
<1>13. SignedIsBuilt' /\ PackagesAgree' /\ ShippedIsWhole' /\ RefusedForCause'
  BY <1>1, <1>2, <1>3, <1>4, <1>5 DEF SignedIsBuilt, PackagesAgree, ShippedIsWhole,
     RefusedForCause
<1>14. QED
  BY <1>6, <1>7, <1>8, <1>9, <1>10, <1>11, <1>12, <1>13 DEF IInv

LEMMA MoveCoreKeeps ==
  ASSUME IInv, NEW a \in Arch, MoveCore(a) PROVE IInv'
<1>1. /\ TypeOK /\ Recorded /\ Working /\ Signing /\ Preparing /\ Packaging /\ Kept
      /\ SignedIsBuilt /\ PackagesAgree /\ ShippedIsWhole /\ RefusedForCause
  BY DEF IInv
<1>2. /\ UNCHANGED <<pin, meta, rel, dist, shipped, worker, intact, refused, runs, faults>>
      /\ core' = [core EXCEPT ![a] = [bin |-> Packed(op.lock), rec |-> None,
                                      desc |-> DescriptorOf(Signed(op.lock), a)]]
      /\ op.pc = "move"
      /\ op' = [op EXCEPT !.arches = op.arches \ {a},
                          !.pc = IF op.arches = {a} THEN "removeRel" ELSE "remove"]
  BY DEF MoveCore, At
<1>3. /\ op' \in Op /\ op'.lock = op.lock /\ op'.arches = op.arches \ {a}
      /\ (op'.pc = "removeRel" /\ op.arches = {a}) \/ op'.pc = "remove"
  BY <1>1, <1>2 DEF TypeOK, Op, Phases
<1>4. intact = {} /\ op.lock \in Lock
  BY <1>1, <1>2 DEF Preparing, PreparingPhases
<1>5. /\ DescriptorOf(Signed(op.lock), a) = Finished(op.lock)
      /\ Finished(op.lock) \in Record /\ Packed(op.lock) \in Binary
  BY <1>4, Contents
<1>6. /\ core' \in [Arch -> CoreDir] /\ core'[a].rec = None
      /\ core'[a].bin = Packed(op.lock) /\ core'[a].desc = Finished(op.lock)
      /\ \A b \in Arch : b # a => core'[b] = core[b]
  BY <1>1, <1>2, <1>5 DEF TypeOK, CoreDir, File
<1>7. TypeOK'
  BY <1>1, <1>2, <1>3, <1>6 DEF TypeOK
<1>8. Recorded'
  BY <1>1, <1>2, <1>3, <1>4, <1>5, <1>6 DEF Recorded, Whole
<1>9. Working'
  BY <1>1, <1>2, <1>3, <1>4, <1>5, <1>6 DEF Working, At
<1>10. Signing'
  BY <1>1, <1>2, <1>3, <1>4, <1>5, <1>6 DEF Signing, SigningPhases
<1>11. Preparing'
  BY <1>1, <1>2, <1>3, <1>4, <1>5, <1>6 DEF Preparing, PreparingPhases
<1>12. Packaging'
  BY <1>1, <1>2, <1>3, <1>4, <1>5, <1>6 DEF Packaging, PackagingPhases, At
<1>13. Kept'
  BY <1>1, <1>2, <1>3, <1>4, <1>5, <1>6 DEF Kept
<1>14. SignedIsBuilt' /\ PackagesAgree' /\ ShippedIsWhole' /\ RefusedForCause'
  BY <1>1, <1>2, <1>3, <1>4, <1>5, <1>6 DEF SignedIsBuilt, PackagesAgree, ShippedIsWhole,
     RefusedForCause
<1>15. QED
  BY <1>7, <1>8, <1>9, <1>10, <1>11, <1>12, <1>13, <1>14 DEF IInv

LEMMA NoRelFits == NoRel \in RelDir /\ ~Whole(NoRel.manifest)
BY DEF NoRel, RelDir, File, Whole

LEMMA RemoveRelKeeps ==
  ASSUME IInv, RemoveRel PROVE IInv'
<1>1. /\ TypeOK /\ Recorded /\ Working /\ Signing /\ Preparing /\ Packaging /\ Kept
      /\ SignedIsBuilt /\ PackagesAgree /\ ShippedIsWhole /\ RefusedForCause
  BY DEF IInv
<1>2. /\ UNCHANGED <<pin, meta, core, dist, shipped, worker, intact, refused, runs, faults>>
      /\ rel' = NoRel /\ op.pc = "removeRel" /\ op' = [op EXCEPT !.pc = "moveRel"]
  BY DEF RemoveRel, At, Goes
<1>3. /\ op' \in Op /\ op'.pc = "moveRel" /\ op'.lock = op.lock
  BY <1>1, <1>2 DEF TypeOK, Op, Phases
<1>4. intact = {} /\ rel' \in RelDir /\ ~Whole(rel'.manifest)
  BY <1>1, <1>2, NoRelFits DEF Preparing, PreparingPhases
<1>5. TypeOK'
  BY <1>1, <1>2, <1>3, <1>4 DEF TypeOK
<1>6. Working'
  BY <1>1, <1>2, <1>3, <1>4 DEF Working, At
<1>7. Signing'
  BY <1>1, <1>2, <1>3, <1>4 DEF Signing, SigningPhases
<1>8. Preparing'
  BY <1>1, <1>2, <1>3, <1>4 DEF Preparing, PreparingPhases
<1>9. Packaging'
  BY <1>1, <1>2, <1>3, <1>4 DEF Packaging, PackagingPhases, At
<1>10. Kept'
  BY <1>1, <1>2, <1>3, <1>4 DEF Kept
<1>11. SignedIsBuilt'
  BY <1>1, <1>2, <1>3, <1>4 DEF SignedIsBuilt
<1>12. Recorded' /\ PackagesAgree' /\ ShippedIsWhole' /\ RefusedForCause'
  BY <1>1, <1>2, <1>3, <1>4 DEF Recorded, PackagesAgree, ShippedIsWhole, RefusedForCause
<1>13. QED
  BY <1>5, <1>6, <1>7, <1>8, <1>9, <1>10, <1>11, <1>12 DEF IInv

LEMMA MoveRelKeeps ==
  ASSUME IInv, MoveRel PROVE IInv'
<1>1. /\ TypeOK /\ Recorded /\ Working /\ Signing /\ Preparing /\ Packaging /\ Kept
      /\ SignedIsBuilt /\ PackagesAgree /\ ShippedIsWhole /\ RefusedForCause
  BY DEF IInv
<1>2. /\ UNCHANGED <<pin, meta, core, dist, shipped, worker, refused, runs, faults>>
      /\ rel' = [NoRel EXCEPT !.archive = Signed(op.lock).bins, !.sums = Signed(op.lock).bins,
                              !.manifest = Signed(op.lock)]
      /\ op.pc = "moveRel" /\ op' = Idle /\ intact' = {"signed"}
  BY DEF MoveRel, At
<1>3. op' \in Op /\ op'.pc = "idle"
  BY <1>2 DEF Idle, Op, Phases
<1>4. /\ op.lock \in Lock
      /\ \A a \in Arch : core[a].bin = Packed(op.lock) /\ core[a].desc = Finished(op.lock)
  BY <1>1, <1>2 DEF Preparing, PreparingPhases
<1>5. /\ rel'.manifest = Signed(op.lock) /\ Signed(op.lock) \in Manifest
      /\ Signed(op.lock).lock = op.lock
  BY <1>2, <1>4, Contents DEF NoRel
<1>6. rel' \in RelDir
  BY <1>2, <1>5 DEF NoRel, RelDir, File, Manifest
<1>7. TypeOK'
  BY <1>1, <1>2, <1>3, <1>6 DEF TypeOK, Results
<1>8. Working'
  BY <1>1, <1>2, <1>3, <1>4, <1>5, <1>6 DEF Working, At
<1>9. Signing'
  BY <1>1, <1>2, <1>3, <1>4, <1>5, <1>6 DEF Signing, SigningPhases
<1>10. Preparing'
  BY <1>1, <1>2, <1>3, <1>4, <1>5, <1>6 DEF Preparing, PreparingPhases
<1>11. Packaging'
  BY <1>1, <1>2, <1>3, <1>4, <1>5, <1>6 DEF Packaging, PackagingPhases, At
<1>12. Kept'
  BY <1>1, <1>2, <1>3, <1>4, <1>5, <1>6 DEF Kept
<1>13. SignedIsBuilt'
  BY <1>1, <1>2, <1>3, <1>4, <1>5, <1>6 DEF SignedIsBuilt
<1>14. Recorded' /\ PackagesAgree' /\ ShippedIsWhole' /\ RefusedForCause'
  BY <1>1, <1>2, <1>3, <1>4, <1>5, <1>6 DEF Recorded, PackagesAgree, ShippedIsWhole,
     RefusedForCause
<1>15. QED
  BY <1>7, <1>8, <1>9, <1>10, <1>11, <1>12, <1>13, <1>14 DEF IInv

-----------------------------------------------------------------------------
(* package.py *)

LEMMA BuildPackagesKeeps ==
  ASSUME IInv, BuildPackages PROVE IInv'
<1>1. /\ TypeOK /\ Recorded /\ Working /\ Signing /\ Preparing /\ Packaging /\ Kept
      /\ SignedIsBuilt /\ PackagesAgree /\ ShippedIsWhole /\ RefusedForCause
  BY DEF IInv
<1>2. /\ UNCHANGED <<pin, meta, core, rel, dist, shipped, worker, intact, faults>>
      /\ runs' \in 0 .. MaxRuns /\ op.pc = "idle"
  BY <1>1, BuildTreeAssumption DEF BuildPackages, Runs, At, TypeOK
<1>3. CASE Packable
  <2>1. /\ op' = [pc |-> "packages", lock |-> None, arches |-> {}, cores |-> None,
                  platforms |-> Platform]
        /\ refused' = refused
    BY <1>3 DEF BuildPackages, Idle
  <2>2. TypeOK'
    BY <1>1, <1>2, <2>1 DEF TypeOK, Op, Phases
  <2>3. Packaging'
    BY <1>2, <1>3, <2>1 DEF Packaging, Packable, Agree, At
  <2>4. Working' /\ Signing' /\ Preparing'
    BY <1>1, <1>2, <2>1 DEF Working, Signing, Preparing, At, SigningPhases, PreparingPhases
  <2>5. Recorded' /\ Kept' /\ SignedIsBuilt' /\ PackagesAgree' /\ ShippedIsWhole' /\ RefusedForCause'
    BY <1>1, <1>2, <2>1 DEF Recorded, Kept, SignedIsBuilt, PackagesAgree, ShippedIsWhole,
       RefusedForCause
  <2>6. QED
    BY <2>2, <2>3, <2>4, <2>5 DEF IInv
<1>4. CASE ~Packable
  <2>1. /\ op' = op
        /\ refused' = IF Whole(rel.manifest) /\ Pinned(rel.manifest.lock)
                      THEN intact \cap {"signed"} ELSE {}
    BY <1>4 DEF BuildPackages
  <2>2. ASSUME Whole(rel.manifest), Pinned(rel.manifest.lock), "signed" \in intact PROVE FALSE
    <3> DEFINE l == rel.manifest.lock
    <3>1. /\ l \in Lock /\ rel.manifest = Signed(l)
          /\ \A a \in Arch : core[a].bin = Packed(l) /\ core[a].desc = Finished(l)
      BY <1>1, <2>2 DEF Kept
    <3>2. \A a \in Arch : Agree(a)
      BY <2>2, <3>1, Contents DEF Agree, Finished
    <3>3. core["arm"].desc.lock = core["arm64"].desc.lock
      BY <3>1 DEF Arch
    <3>4. QED
      BY <1>4, <2>2, <3>2, <3>3 DEF Packable
  <2>3. refused' = refused
    BY <1>1, <2>1, <2>2 DEF RefusedForCause
  <2>4. pin' \in Identity /\ faults' \in 0 .. MaxFaults
    BY <1>1, <1>2 DEF TypeOK
  <2>5. QED
    BY <1>2, <2>1, <2>3, <2>4, NothingMoves
<1>5. QED
  BY <1>3, <1>4

\* What package.py puts into the package p.
PackageOf(p) ==
  [manifest |-> rel.manifest,
   cores |-> [a \in ArchesOf[p] |-> [lock |-> core[a].desc.lock, bin |-> core[a].bin]]]

LEMMA PackageFits ==
  ASSUME IInv, op.pc \in PackagingPhases, NEW p \in Platform
  PROVE  /\ PackageOf(p) \in Package /\ PackageOf(p).manifest = rel.manifest
         /\ rel.manifest = Signed(rel.manifest.lock)
         /\ \A a \in ArchesOf[p] : PackageOf(p).cores[a] = DescriptorOf(rel.manifest, a)
<1> DEFINE M == rel.manifest
<1>1. /\ M \in Manifest /\ M = Signed(M.lock)
      /\ \A a \in Arch : core[a].desc = DescriptorOf(M, a) /\ core[a].bin = core[a].desc.bin
  BY DEF IInv, Packaging, SignedIsBuilt, TypeOK, RelDir, File, Whole
<1>2. ArchesOf[p] \in SUBSET Arch
  BY BuildTreeAssumption
<1>3. \A a \in ArchesOf[p] :
        /\ [lock |-> core[a].desc.lock, bin |-> core[a].bin] = DescriptorOf(M, a)
        /\ DescriptorOf(M, a) \in Record
  BY <1>1, <1>2 DEF DescriptorOf, Manifest, Record
<1>4. [a \in ArchesOf[p] |-> [lock |-> core[a].desc.lock, bin |-> core[a].bin]]
      \in [ArchesOf[p] -> Record]
  BY <1>3
<1>5. PackageOf(p) \in Package
  BY <1>1, <1>2, <1>4 DEF PackageOf, Package
<1>6. QED
  BY <1>1, <1>3, <1>5 DEF PackageOf

LEMMA WritePackageKeeps ==
  ASSUME IInv, NEW p \in Platform, WritePackage(p) PROVE IInv'
<1>1. /\ TypeOK /\ Recorded /\ Working /\ Signing /\ Preparing /\ Packaging /\ Kept
      /\ SignedIsBuilt /\ PackagesAgree /\ ShippedIsWhole /\ RefusedForCause
  BY DEF IInv
<1>2. /\ UNCHANGED <<pin, meta, core, rel, shipped, worker, intact, refused, runs, faults>>
      /\ dist' = [dist EXCEPT !.package[p] = PackageOf(p)] /\ op.pc = "packages"
      /\ op' = [op EXCEPT !.platforms = op.platforms \ {p},
                          !.pc = IF op.platforms = {p} THEN "distSums" ELSE op.pc]
  BY DEF WritePackage, At, PackageOf
<1>3. /\ op' \in Op /\ op'.platforms = op.platforms \ {p}
      /\ (op'.pc = "distSums" /\ op.platforms = {p}) \/ op'.pc = "packages"
  BY <1>1, <1>2 DEF TypeOK, Op, Phases
<1>4. /\ PackageOf(p) \in Package /\ PackageOf(p).manifest = rel.manifest
      /\ rel.manifest = Signed(rel.manifest.lock)
      /\ \A a \in ArchesOf[p] : PackageOf(p).cores[a] = DescriptorOf(rel.manifest, a)
  BY <1>2, PackageFits DEF PackagingPhases
<1>5. /\ dist'.package \in [Platform -> File(Package)] /\ dist'.sums = dist.sums
      /\ dist'.package[p] = PackageOf(p)
      /\ \A q \in Platform : q # p => dist'.package[q] = dist.package[q]
      /\ dist' \in DistDir
  BY <1>1, <1>2, <1>4 DEF TypeOK, File, DistDir
<1>6. TypeOK'
  BY <1>1, <1>2, <1>3, <1>5 DEF TypeOK
<1>7. Working'
  BY <1>1, <1>2, <1>3, <1>4, <1>5 DEF Working, At
<1>8. Signing'
  BY <1>1, <1>2, <1>3, <1>4, <1>5 DEF Signing, SigningPhases
<1>9. Preparing'
  BY <1>1, <1>2, <1>3, <1>4, <1>5 DEF Preparing, PreparingPhases
<1>10. Packaging'
  BY <1>1, <1>2, <1>3, <1>4, <1>5 DEF Packaging, PackagingPhases, At
<1>11. PackagesAgree'
  BY <1>1, <1>2, <1>3, <1>4, <1>5 DEF PackagesAgree
<1>12. Recorded' /\ Kept' /\ SignedIsBuilt' /\ ShippedIsWhole' /\ RefusedForCause'
  BY <1>1, <1>2, <1>3, <1>4, <1>5 DEF Recorded, Kept, SignedIsBuilt, ShippedIsWhole,
     RefusedForCause
<1>13. QED
  BY <1>6, <1>7, <1>8, <1>9, <1>10, <1>11, <1>12 DEF IInv

LEMMA WriteDistSumsKeeps ==
  ASSUME IInv, WriteDistSums PROVE IInv'
<1>1. /\ TypeOK /\ Recorded /\ Working /\ Signing /\ Preparing /\ Packaging /\ Kept
      /\ SignedIsBuilt /\ PackagesAgree /\ ShippedIsWhole /\ RefusedForCause
  BY DEF IInv
<1>2. /\ UNCHANGED <<pin, meta, core, rel, shipped, worker, intact, refused, runs, faults>>
      /\ dist' = [dist EXCEPT !.sums = dist.package] /\ op.pc = "distSums" /\ op' = Idle
  BY DEF WriteDistSums, At
<1>3. op' \in Op /\ op'.pc = "idle"
  BY <1>2 DEF Idle, Op, Phases
<1>4. /\ dist'.package = dist.package /\ dist'.sums = dist.package
      /\ dist' \in DistDir
  BY <1>1, <1>2 DEF TypeOK, File, DistDir
<1>5. \A p \in Platform : dist.package[p].manifest = rel.manifest
  BY <1>1, <1>2 DEF Packaging, PackagingPhases, At
<1>6. TypeOK'
  BY <1>1, <1>2, <1>3, <1>4 DEF TypeOK
<1>7. Working'
  BY <1>1, <1>2, <1>3, <1>4, <1>5 DEF Working, At
<1>8. Signing'
  BY <1>1, <1>2, <1>3, <1>4, <1>5 DEF Signing, SigningPhases
<1>9. Preparing'
  BY <1>1, <1>2, <1>3, <1>4, <1>5 DEF Preparing, PreparingPhases
<1>10. Packaging'
  BY <1>1, <1>2, <1>3, <1>4, <1>5 DEF Packaging, PackagingPhases, At
<1>11. PackagesAgree'
  BY <1>1, <1>2, <1>3, <1>4, <1>5 DEF PackagesAgree
<1>12. Recorded' /\ Kept' /\ SignedIsBuilt' /\ ShippedIsWhole' /\ RefusedForCause'
  BY <1>1, <1>2, <1>3, <1>4, <1>5 DEF Recorded, Kept, SignedIsBuilt, ShippedIsWhole,
     RefusedForCause
<1>13. QED
  BY <1>6, <1>7, <1>8, <1>9, <1>10, <1>11, <1>12 DEF IInv

-----------------------------------------------------------------------------
(* Around the tools *)

LEMMA EditPinKeeps ==
  ASSUME IInv, EditPin PROVE IInv'
<1>1. /\ UNCHANGED <<meta, core, rel, dist, shipped, op, worker, intact, refused>>
      /\ pin' \in Identity /\ runs' \in 0 .. MaxRuns /\ faults' \in 0 .. MaxFaults
  BY DEF EditPin, IInv, TypeOK
<1>2. QED
  BY <1>1, NothingMoves

LEMMA FaultCounted ==
  ASSUME IInv, Faulty PROVE faults' \in 0 .. MaxFaults
BY BuildTreeAssumption DEF IInv, TypeOK, Faulty

\* What one torn or missing file leaves of a core.
LEMMA OneTorn ==
  ASSUME IInv, NEW a \in Arch, NEW x \in {None, Torn},
         \/ core' = core
         \/ core' = [core EXCEPT ![a].bin = x]
         \/ core' = [core EXCEPT ![a].rec = x]
         \/ core' = [core EXCEPT ![a].desc = x]
  PROVE  /\ core' \in [Arch -> CoreDir]
         /\ \A b \in Arch : Whole(core'[b].rec) => core'[b].rec = core[b].rec
<1>1. core \in [Arch -> CoreDir]
  BY DEF IInv, TypeOK
<1>2. CASE core' = core
  BY <1>1, <1>2
<1>3. CASE core' = [core EXCEPT ![a].bin = x]
  BY <1>1, <1>3 DEF CoreDir, File
<1>4. CASE core' = [core EXCEPT ![a].rec = x]
  BY <1>1, <1>4 DEF CoreDir, File, Whole
<1>5. CASE core' = [core EXCEPT ![a].desc = x]
  BY <1>1, <1>5 DEF CoreDir, File
<1>6. QED
  BY <1>2, <1>3, <1>4, <1>5

LEMMA BreakKeeps ==
  ASSUME IInv, NEW a \in Arch, Break(a) PROVE IInv'
<1>1. /\ TypeOK /\ Recorded /\ Working /\ Signing /\ Preparing /\ Packaging /\ Kept
      /\ SignedIsBuilt /\ PackagesAgree /\ ShippedIsWhole /\ RefusedForCause
  BY DEF IInv
<1>2. /\ UNCHANGED <<pin, meta, rel, dist, shipped, op, refused, runs>>
      /\ faults' \in 0 .. MaxFaults
      /\ worker[a] \in {"enter", "link", "pack", "record"}
      /\ worker' = [worker EXCEPT ![a] = "failed"]
      /\ \/ UNCHANGED <<core, intact>>
         \/ core' = [core EXCEPT ![a].bin = Torn] /\ intact' = intact \ {"signed"}
  BY FaultCounted DEF Break
<1>3. /\ core' \in [Arch -> CoreDir]
      /\ \A b \in Arch : Whole(core'[b].rec) => core'[b].rec = core[b].rec
  BY <1>2, OneTorn
<1>4. /\ worker' \in [Arch -> {"none", "enter", "link", "pack", "record", "done", "failed"}]
      /\ worker'[a] = "failed" /\ \A b \in Arch : b # a => worker'[b] = worker[b]
      /\ \A b \in Arch : b # a => core'[b] = core[b]
  BY <1>1, <1>2 DEF TypeOK
<1>5. op.pc = "compile" /\ "compiled" \notin intact
  BY <1>1, <1>2 DEF Working, At
<1>6. TypeOK'
  BY <1>1, <1>2, <1>3, <1>4 DEF TypeOK, Results
<1>7. Recorded'
  BY <1>1, <1>2, <1>3, <1>4, <1>5 DEF Recorded
<1>8. Working'
  BY <1>1, <1>2, <1>3, <1>4, <1>5 DEF Working, At
<1>9. Signing'
  BY <1>1, <1>2, <1>3, <1>4, <1>5 DEF Signing, SigningPhases
<1>10. Preparing'
  BY <1>1, <1>2, <1>3, <1>4, <1>5 DEF Preparing, PreparingPhases
<1>11. Packaging'
  BY <1>1, <1>2, <1>3, <1>4, <1>5 DEF Packaging, PackagingPhases, At
<1>12. Kept'
  BY <1>1, <1>2, <1>3, <1>4, <1>5 DEF Kept
<1>13. SignedIsBuilt' /\ PackagesAgree' /\ ShippedIsWhole' /\ RefusedForCause'
  BY <1>1, <1>2, <1>3, <1>4, <1>5 DEF SignedIsBuilt, PackagesAgree, ShippedIsWhole,
     RefusedForCause
<1>14. QED
  BY <1>6, <1>7, <1>8, <1>9, <1>10, <1>11, <1>12, <1>13 DEF IInv

LEMMA KilledCore ==
  ASSUME IInv, Kill
  PROVE  /\ core' \in [Arch -> CoreDir]
         /\ \A b \in Arch : Whole(core'[b].rec) => core'[b].rec = core[b].rec
         /\ op.pc \notin {"compile", "describe", "remove"} => core' = core
         /\ op.pc = "describe" =>
              \A b \in Arch : core'[b].bin = core[b].bin /\ core'[b].rec = core[b].rec
<1>1. /\ core \in [Arch -> CoreDir]
      /\ \A a \in Arch : worker[a] # "none" => op.pc = "compile"
  BY DEF IInv, TypeOK, Working, At
<1>2. \/ core' = core
      \/ \E a \in Arch : worker[a] = "link" /\ core' = [core EXCEPT ![a].bin = Torn]
      \/ \E a \in Arch : worker[a] = "record" /\ core' = [core EXCEPT ![a].rec = Torn]
      \/ \E a \in Arch : op.pc = "describe" /\ core' = [core EXCEPT ![a].desc = Torn]
      \/ \E a \in Arch : op.pc = "remove" /\ \/ core' = [core EXCEPT ![a].bin = None]
                                             \/ core' = [core EXCEPT ![a].rec = None]
                                             \/ core' = [core EXCEPT ![a].desc = None]
  BY DEF Kill, At
<1>3. /\ core' \in [Arch -> CoreDir]
      /\ \A b \in Arch : Whole(core'[b].rec) => core'[b].rec = core[b].rec
  BY <1>2, OneTorn DEF Arch
<1>4. op.pc \notin {"compile", "describe", "remove"} => core' = core
  BY <1>1, <1>2
<1>5. op.pc = "describe" =>
        \A b \in Arch : core'[b].bin = core[b].bin /\ core'[b].rec = core[b].rec
  BY <1>1, <1>2 DEF CoreDir
<1>6. QED
  BY <1>3, <1>4, <1>5

LEMMA KilledRel ==
  ASSUME IInv, Kill
  PROVE  /\ rel' \in RelDir
         /\ Whole(rel'.manifest) => rel'.manifest = rel.manifest
         /\ op.pc \in {"metadata", "compile"} \cup PackagingPhases => rel' = rel
<1>1. rel \in RelDir
  BY DEF IInv, TypeOK
<1>2. \/ rel' = rel
      \/ \E a \in Arch : op.pc = "archive" /\ rel' = [rel EXCEPT !.archive[a] = Torn]
      \/ op.pc = "sign" /\ rel' = [rel EXCEPT !.manifest = Torn]
      \/ op.pc = "sums" /\ rel' = [rel EXCEPT !.sums = Torn]
      \/ op.pc = "finish" /\ rel' = [rel EXCEPT !.metadata = Torn]
      \/ op.pc = "removeRel" /\ \/ rel' = [rel EXCEPT !.manifest = None]
                                \/ rel' = [rel EXCEPT !.archive["arm"] = None]
  BY DEF Kill, At
<1>3. op.pc \in {"metadata", "compile"} \cup PackagingPhases => rel' = rel
  BY <1>2 DEF PackagingPhases
<1>4. rel' \in RelDir /\ (Whole(rel'.manifest) => rel'.manifest = rel.manifest)
  BY <1>1, <1>2 DEF RelDir, File, Whole, Arch
<1>5. QED
  BY <1>3, <1>4

LEMMA KilledDist ==
  ASSUME IInv, Kill
  PROVE  /\ dist' \in DistDir
         /\ \A p \in Platform : Whole(dist'.package[p]) => dist'.package[p] = dist.package[p]
         /\ Whole(dist'.sums) => dist'.sums = dist.sums
<1>1. dist \in DistDir
  BY DEF IInv, TypeOK
<1>2. \/ dist' = dist
      \/ \E p \in Platform : dist' = [dist EXCEPT !.package[p] = Torn]
      \/ dist' = [dist EXCEPT !.sums = Torn]
  BY DEF Kill, IInv, TypeOK, Op
<1>3. QED
  BY <1>1, <1>2 DEF DistDir, File, Whole

LEMMA KillKeeps ==
  ASSUME IInv, Kill PROVE IInv'
<1>1. /\ TypeOK /\ Recorded /\ Working /\ Signing /\ Preparing /\ Packaging /\ Kept
      /\ SignedIsBuilt /\ PackagesAgree /\ ShippedIsWhole /\ RefusedForCause
  BY DEF IInv
<1>2. /\ UNCHANGED <<pin, shipped, refused, runs>> /\ faults' \in 0 .. MaxFaults
      /\ op' = Idle /\ \A a \in Arch : worker'[a] = "none"
      /\ worker' \in [Arch -> {"none"}] /\ op.pc # "idle"
  BY FaultCounted DEF Kill, At
<1>3. /\ meta' \in {meta, Torn} /\ (op.pc # "metadata" => meta' = meta)
      /\ intact' \subseteq intact
      /\ op.pc = "metadata" => "compiled" \notin intact'
      /\ op.pc = "compile" => "signed" \notin intact'
  BY DEF Kill, At
<1>4. op' \in Op /\ op'.pc = "idle"
  BY <1>2 DEF Idle, Op, Phases
<1>5. /\ core' \in [Arch -> CoreDir]
      /\ \A b \in Arch : Whole(core'[b].rec) => core'[b].rec = core[b].rec
      /\ op.pc \notin {"compile", "describe", "remove"} => core' = core
      /\ op.pc = "describe" =>
           \A b \in Arch : core'[b].bin = core[b].bin /\ core'[b].rec = core[b].rec
  BY KilledCore
<1>6. /\ rel' \in RelDir
      /\ Whole(rel'.manifest) => rel'.manifest = rel.manifest
      /\ op.pc \in {"metadata", "compile"} \cup PackagingPhases => rel' = rel
  BY KilledRel
<1>7. /\ dist' \in DistDir
      /\ \A p \in Platform : Whole(dist'.package[p]) => dist'.package[p] = dist.package[p]
      /\ Whole(dist'.sums) => dist'.sums = dist.sums
  BY KilledDist
<1>8. /\ op.pc \in PreparingPhases => intact = {}
      /\ op.pc \in SigningPhases => intact \subseteq {"compiled"}
      /\ op.pc = "compile" => "compiled" \notin intact
      /\ op.pc \in {"metadata", "compile"} \cup SigningPhases \cup PreparingPhases \cup PackagingPhases
  BY <1>1, <1>2 DEF Preparing, Signing, Working, At, TypeOK, Op, Phases, PreparingPhases,
     SigningPhases, PackagingPhases
<1>9. TypeOK'
  BY <1>1, <1>2, <1>3, <1>4, <1>5, <1>6, <1>7 DEF TypeOK, File
<1>10. Recorded'
  BY <1>1, <1>2, <1>3, <1>4, <1>5, <1>6, <1>7, <1>8 DEF Recorded
<1>11. Working'
  BY <1>1, <1>2, <1>3, <1>4, <1>5, <1>6, <1>7, <1>8 DEF Working, At
<1>12. Signing'
  BY <1>1, <1>2, <1>3, <1>4, <1>5, <1>6, <1>7, <1>8 DEF Signing, SigningPhases
<1>13. Preparing'
  BY <1>1, <1>2, <1>3, <1>4, <1>5, <1>6, <1>7, <1>8 DEF Preparing, PreparingPhases
<1>14. Packaging'
  BY <1>1, <1>2, <1>3, <1>4, <1>5, <1>6, <1>7, <1>8 DEF Packaging, PackagingPhases, At
<1>15. Kept'
  <2>1. "compiled" \in intact' =>
          /\ "compiled" \in intact /\ meta' = meta
          /\ \A a \in Arch : core'[a].bin = core[a].bin /\ core'[a].rec = core[a].rec
    BY <1>3, <1>5, <1>8 DEF PreparingPhases
  <2>2. "signed" \in intact' => "signed" \in intact /\ rel' = rel /\ core' = core
    BY <1>3, <1>5, <1>6, <1>8 DEF PackagingPhases
  <2>3. "released" \in intact' => "released" \in intact /\ rel' = rel
    BY <1>3, <1>6, <1>8
  <2>4. QED
    BY <1>1, <2>1, <2>2, <2>3 DEF Kept
<1>16. SignedIsBuilt'
  BY <1>1, <1>2, <1>3, <1>4, <1>5, <1>6, <1>7, <1>8 DEF SignedIsBuilt
<1>17. PackagesAgree'
  BY <1>1, <1>2, <1>3, <1>4, <1>5, <1>6, <1>7, <1>8 DEF PackagesAgree
<1>18. ShippedIsWhole' /\ RefusedForCause'
  BY <1>1, <1>2, <1>3, <1>4, <1>5, <1>6, <1>7, <1>8 DEF ShippedIsWhole, RefusedForCause
<1>19. QED
  BY <1>9, <1>10, <1>11, <1>12, <1>13, <1>14, <1>15, <1>16, <1>17, <1>18 DEF IInv

-----------------------------------------------------------------------------
(* The invariant *)

LEMMA InitInvariant ==
  ASSUME Init PROVE IInv
<1>1. TypeOK
  <2>1. Idle \in Op
    BY DEF Idle, Op, Phases
  <2>2. NoCore \in CoreDir
    BY DEF NoCore, CoreDir, File
  <2>3. QED
    BY <2>1, <2>2, NoRelFits, BuildTreeAssumption DEF Init, TypeOK, File, DistDir
<1>2. op.pc = "idle" /\ intact = {} /\ \A a \in Arch : worker[a] = "none"
  BY DEF Init, Idle
<1>3. Recorded
  BY DEF Init, Recorded, NoCore, Whole
<1>4. Working /\ Signing /\ Preparing /\ Packaging /\ Kept
  BY <1>2 DEF Working, Signing, Preparing, Packaging, Kept, At, SigningPhases, PreparingPhases,
     PackagingPhases
<1>5. SignedIsBuilt /\ PackagesAgree /\ ShippedIsWhole /\ RefusedForCause
  BY NoRelFits DEF Init, SignedIsBuilt, PackagesAgree, ShippedIsWhole, RefusedForCause, Whole
<1>6. QED
  BY <1>1, <1>3, <1>4, <1>5 DEF IInv

LEMMA StepInvariant ==
  ASSUME IInv, [Next]_vars PROVE IInv'
<1>1. CASE UNCHANGED vars
  <2>1. /\ UNCHANGED <<meta, core, rel, dist, shipped, op, worker, intact, refused>>
        /\ pin' \in Identity /\ runs' \in 0 .. MaxRuns /\ faults' \in 0 .. MaxFaults
    BY <1>1 DEF vars, IInv, TypeOK
  <2>2. QED
    BY <2>1, NothingMoves
<1>2. ASSUME NEW a \in Arch, Container(a) PROVE IInv'
  BY <1>2, EnterKeeps, LinkKeeps, PackKeeps, WriteRecordKeeps, BreakKeeps DEF Container
<1>3. CASE Next
  BY <1>2, <1>3, BuildKeeps, WriteMetadataKeeps, BuildEndsKeeps, WriteArchiveKeeps, DescribeKeeps,
     RemoveCoreKeeps, MoveCoreKeeps, ReleaseKeeps, SignKeeps, WriteSumsKeeps, CopyMetadataKeeps,
     PublishKeeps, PrepareKeeps, RemoveRelKeeps, MoveRelKeeps, BuildPackagesKeeps,
     WriteDistSumsKeeps, WritePackageKeeps, EditPinKeeps, KillKeeps DEF Next
<1>4. QED
  BY <1>1, <1>3

\* The invariant holds always.
THEOREM Invariant == Spec => []IInv
<1>1. Init => IInv
  BY InitInvariant
<1>2. IInv /\ [Next]_vars => IInv'
  BY StepInvariant
<1>3. QED
  BY <1>1, <1>2, PTL DEF Spec

\* Every file of the build directory keeps its type, and so do the tools.
THEOREM TypeCorrect == Spec => []TypeOK
<1>1. IInv => TypeOK
  BY DEF IInv
<1>2. QED
  BY <1>1, Invariant, PTL

\* Only finished results are ever signed, whatever builds broke off before
\* (release_core.py:44-56, container_build.py:44-48).
THEOREM SigningIsSound == Spec => []SignedIsBuilt
<1>1. IInv => SignedIsBuilt
  BY DEF IInv
<1>2. QED
  BY <1>1, Invariant, PTL

\* Every package carries finished cores of one recipe with the envelope that signs
\* them, and one list of checksums is of one core (package.py:54-70).
THEOREM PackagesAreOfOneCore == Spec => []PackagesAgree
<1>1. IInv => PackagesAgree
  BY DEF IInv
<1>2. QED
  BY <1>1, Invariant, PTL

\* What publish_core.py takes is finished, and after a release that was carried
\* through the files beside it are its own (publish_core.py:98-111).
THEOREM ShippingIsWhole == Spec => []ShippedIsWhole
<1>1. IInv => ShippedIsWhole
  BY DEF IInv
<1>2. QED
  BY <1>1, Invariant, PTL

\* No tool refuses what another one has left whole and nobody has touched
\* (release_core.py:44-56, package.py:54-70).
THEOREM RefusalsHaveCause == Spec => []RefusedForCause
<1>1. IInv => RefusedForCause
  BY DEF IInv
<1>2. QED
  BY <1>1, Invariant, PTL

-----------------------------------------------------------------------------
(* What a tool that comes to its end has made *)

\* The build works by the metadata it has written, and release_core has put the
\* binaries it signs into the archives.
MakingFits ==
  /\ At("compile") => meta = op.lock
  /\ \A a \in Arch :
       op.pc \in {"sign", "describe", "sums", "finish"} \/ (At("archive") /\ a \notin op.arches) =>
         rel.archive[a] = Packed(op.lock)

\* The directory of a release of the lock, whose metadata are given.
ReleaseOf(l, metadata) ==
  [archive |-> Signed(l).bins, manifest |-> Signed(l), sums |-> Signed(l).bins,
   metadata |-> metadata]

Compiles(l, a) == core'[a].bin = Packed(l) /\ core'[a].rec = Finished(l)
Describes(l) == \A a \in Arch : core'[a].bin = Packed(l) /\ core'[a].desc = Finished(l)

\* What the tool whose phase is given was to make is there; of a build, where the
\* container did not fail.
Made ==
  /\ At("compile") => \A a \in op.arches : worker[a] # "failed" => Compiles(op.lock, a)
  /\ op.pc \in SigningPhases => rel' = ReleaseOf(op.lock, op.lock) /\ Describes(op.lock)
  /\ op.pc \in PreparingPhases => rel' = ReleaseOf(op.lock, None) /\ Describes(op.lock)
  /\ op.pc \in PackagingPhases =>
       /\ \A p \in Platform : dist'.package[p].manifest = rel.manifest
       /\ dist'.sums = dist'.package

\* Without a fault no container fails, and a tool that comes to its end leaves what
\* it was to make whole and of one lock, whatever broken files it started from
\* (container_build.py:44-48, build_core.py:134-155, release_core.py:70-97,
\* prepare_bundle.py:57-69, package.py:73-107).
Delivers ==
  faults' = faults =>
    /\ \A a \in Arch : worker'[a] = "failed" => worker[a] = "failed"
    /\ ~At("idle") /\ At("idle")' => Made
ToolsDeliver == [][Delivers]_vars

\* The steps of the containers leave the metadata, the release and the tool alone.
LEMMA ContainerSteps ==
  ASSUME TypeOK, NEW a \in Arch, Container(a)
  PROVE  /\ UNCHANGED <<meta, rel, op>> /\ worker[a] # "none"
         /\ \A b \in Arch : b # a => worker'[b] = worker[b]
         /\ Enter(a) \/ worker'[a] # "failed" \/ faults' = faults + 1
<1>1. worker[a] # "none" /\ UNCHANGED <<meta, rel, op>>
  BY DEF Container, Enter, Link, Pack, WriteRecord, Break, Steps
<1>2. \E to \in {"link", "pack", "record", "done", "failed"} : worker' = [worker EXCEPT ![a] = to]
  BY DEF Container, Enter, Link, Pack, WriteRecord, Break, Steps
<1>3. \A b \in Arch : b # a => worker'[b] = worker[b]
  BY <1>2
<1>4. ASSUME Link(a) \/ Pack(a) \/ WriteRecord(a) PROVE worker'[a] # "failed"
  BY <1>4 DEF Link, Pack, WriteRecord, Steps, TypeOK
<1>5. ASSUME Break(a) PROVE faults' = faults + 1
  BY <1>5 DEF Break, Faulty
<1>6. QED
  BY <1>1, <1>3, <1>4, <1>5 DEF Container

LEMMA MakingHolds ==
  ASSUME IInv, MakingFits, [Next]_vars PROVE MakingFits'
<1>1. /\ TypeOK /\ Signing
  BY DEF IInv
<1>2. ASSUME UNCHANGED <<meta, rel, op>> PROVE MakingFits'
  BY <1>2 DEF MakingFits, At
<1>3. ASSUME op'.pc \notin {"compile", "archive", "sign", "describe", "sums", "finish"} PROVE MakingFits'
  BY <1>3 DEF MakingFits, At
<1>4. ASSUME NEW l \in Lock, NEW as \in SUBSET Arch, Build(l, as) PROVE MakingFits'
  BY <1>3, <1>4 DEF Build, Idle
<1>5. CASE WriteMetadata
  BY <1>5 DEF WriteMetadata, Goes, At, MakingFits, TypeOK, Op, IInv
<1>6. ASSUME NEW a \in Arch, Container(a) PROVE MakingFits'
  BY <1>1, <1>2, <1>6, ContainerSteps
<1>7. CASE Release
  <2>1. CASE UNCHANGED <<op, rel>>
    BY <1>2, <1>7, <2>1 DEF Release
  <2>2. CASE op' = [Idle EXCEPT !.pc = "archive", !.lock = meta, !.arches = Arch,
                                !.cores = [a \in Arch |-> core[a].bin]]
    BY <2>2 DEF MakingFits, At, Idle
  <2>3. QED
    BY <1>7, <2>1, <2>2 DEF Release
<1>8. ASSUME NEW a \in Arch, WriteArchive(a) PROVE MakingFits'
  <2>1. /\ op.pc = "archive" /\ a \in op.arches
        /\ rel' = [rel EXCEPT !.archive[a] = core[a].bin]
        /\ op' = [op EXCEPT !.arches = op.arches \ {a},
                            !.pc = IF op.arches = {a} THEN "sign" ELSE op.pc]
    BY <1>8 DEF WriteArchive, At, Turn
  <2>2. core[a].bin = Packed(op.lock)
    BY <1>1, <2>1 DEF Signing, SigningPhases
  <2>3. /\ rel'.archive[a] = Packed(op.lock)
        /\ \A b \in Arch : b # a => rel'.archive[b] = rel.archive[b]
    BY <1>1, <2>1, <2>2 DEF TypeOK, RelDir
  <2>4. /\ op'.lock = op.lock /\ op'.arches = op.arches \ {a}
        /\ (op'.pc = "sign" /\ op.arches = {a}) \/ op'.pc = "archive"
    BY <1>1, <2>1 DEF TypeOK, Op
  <2>5. QED
    BY <2>1, <2>3, <2>4 DEF MakingFits, At
<1>9. CASE Sign \/ WriteSums
  <2>1. /\ op.pc \in {"sign", "sums"} /\ rel'.archive = rel.archive
        /\ op'.lock = op.lock /\ op'.pc \in {"describe", "finish"}
    BY <1>1, <1>9 DEF Sign, WriteSums, At, Goes, TypeOK, Op, RelDir
  <2>2. QED
    BY <2>1 DEF MakingFits, At
<1>10. ASSUME NEW a \in Arch, Describe(a) PROVE MakingFits'
  <2>1. /\ op.pc = "describe" /\ rel' = rel
        /\ op'.lock = op.lock /\ op'.pc \in {"describe", "sums"}
    BY <1>1, <1>10 DEF Describe, At, TypeOK, Op
  <2>2. QED
    BY <2>1 DEF MakingFits, At
<1>11. ASSUME BuildEnds \/ CopyMetadata \/ MoveRel \/ WriteDistSums \/ Kill PROVE MakingFits'
  BY <1>3, <1>11 DEF BuildEnds, CopyMetadata, MoveRel, WriteDistSums, Kill, Idle
<1>12. ASSUME NEW l \in Lock, Prepare(l) PROVE MakingFits'
  BY <1>3, <1>12 DEF Prepare, Idle
<1>13. ASSUME NEW a \in Arch, RemoveCore(a) \/ MoveCore(a) PROVE MakingFits'
  BY <1>1, <1>3, <1>13 DEF RemoveCore, MoveCore, Goes, TypeOK, Op
<1>14. ASSUME RemoveRel PROVE MakingFits'
  BY <1>1, <1>3, <1>14 DEF RemoveRel, Goes, TypeOK, Op
<1>15. ASSUME BuildPackages PROVE MakingFits'
  <2>1. rel' = rel /\ meta' = meta /\ (op' = op \/ op'.pc = "packages")
    BY <1>15 DEF BuildPackages, Idle
  <2>2. QED
    BY <1>2, <1>3, <2>1
<1>16. ASSUME NEW p \in Platform, WritePackage(p) PROVE MakingFits'
  <2>1. op'.pc \in {"packages", "distSums"}
    BY <1>1, <1>16 DEF WritePackage, At, TypeOK, Op
  <2>2. QED
    BY <1>3, <2>1
<1>17. CASE Publish \/ EditPin \/ UNCHANGED vars
  BY <1>2, <1>17 DEF Publish, EditPin, vars
<1>18. QED
  BY <1>4, <1>5, <1>6, <1>7, <1>8, <1>9, <1>10, <1>11, <1>12, <1>13, <1>14, <1>15, <1>16, <1>17
     DEF Next

\* A container whose metadata are those of its build does not refuse them.
LEMMA NoRefusal ==
  ASSUME IInv, MakingFits, [Next]_vars, faults' = faults, NEW a \in Arch, worker'[a] = "failed"
  PROVE  worker[a] = "failed"
<1>1. TypeOK /\ Working
  BY DEF IInv
<1>2. ASSUME NEW b \in Arch, Container(b) PROVE worker[a] = "failed"
  <2>1. CASE a # b
    BY <1>1, <1>2, <2>1, ContainerSteps
  <2>2. CASE a = b
    <3>1. Enter(a) /\ worker[a] # "none"
      BY <1>1, <1>2, <2>2, ContainerSteps DEF TypeOK
    <3>2. meta = op.lock
      BY <1>1, <3>1 DEF Working, MakingFits, At
    <3>3. worker'[a] = "link"
      BY <1>1, <3>1, <3>2 DEF Enter, Steps, TypeOK
    <3>4. QED
      BY <3>3
  <2>3. QED
    BY <2>1, <2>2
<1>3. ASSUME WriteMetadata \/ BuildEnds \/ Kill PROVE worker'[a] \in {"none", "enter"}
  BY <1>3 DEF WriteMetadata, BuildEnds, Kill
<1>4. ASSUME NEW b \in Arch, WriteArchive(b) \/ Describe(b) \/ RemoveCore(b) \/ MoveCore(b)
      PROVE  worker' = worker
  BY <1>4 DEF WriteArchive, Describe, RemoveCore, MoveCore
<1>5. ASSUME \/ \E l \in Lock : \E as \in SUBSET Arch \ {{}} : Build(l, as)
             \/ Release \/ Sign \/ WriteSums \/ CopyMetadata \/ Publish
             \/ \E l \in Lock : Prepare(l)
      PROVE  worker' = worker
  BY <1>5 DEF Build, Release, Sign, WriteSums, CopyMetadata, Publish, Prepare
<1>6. ASSUME \/ RemoveRel \/ MoveRel \/ BuildPackages \/ WriteDistSums
             \/ \E p \in Platform : WritePackage(p)
             \/ EditPin \/ UNCHANGED vars
      PROVE  worker' = worker
  BY <1>6 DEF RemoveRel, MoveRel, BuildPackages, WriteDistSums, WritePackage, EditPin, vars
<1>7. QED
  BY <1>2, <1>3, <1>4, <1>5, <1>6 DEF Next

\* A tool comes to its end by its last step or by a kill.
LEMMA LastSteps ==
  ASSUME IInv, [Next]_vars, ~At("idle"), At("idle")'
  PROVE  BuildEnds \/ CopyMetadata \/ MoveRel \/ WriteDistSums \/ Kill
<1>1. TypeOK /\ op.pc # "idle" /\ op'.pc = "idle"
  BY DEF IInv, At
<1>2. ASSUME NEW a \in Arch, Container(a) PROVE FALSE
  BY <1>1, <1>2, ContainerSteps
<1>3. ASSUME NEW a \in Arch, WriteArchive(a) \/ Describe(a) PROVE FALSE
  BY <1>1, <1>3 DEF WriteArchive, Describe, At, TypeOK, Op
<1>4. ASSUME NEW a \in Arch, RemoveCore(a) \/ MoveCore(a) PROVE FALSE
  BY <1>1, <1>4 DEF RemoveCore, MoveCore, Goes, TypeOK, Op
<1>5. ASSUME \/ \E l \in Lock : \E as \in SUBSET Arch \ {{}} : Build(l, as)
             \/ Release \/ Publish \/ BuildPackages \/ EditPin
             \/ \E l \in Lock : Prepare(l)
      PROVE  FALSE
  BY <1>1, <1>5 DEF Build, Release, Publish, BuildPackages, EditPin, Prepare, Runs, At
<1>6. ASSUME WriteMetadata \/ Sign \/ WriteSums \/ RemoveRel PROVE FALSE
  BY <1>1, <1>6 DEF WriteMetadata, Sign, WriteSums, RemoveRel, Goes, TypeOK, Op
<1>7. ASSUME NEW p \in Platform, WritePackage(p) PROVE FALSE
  BY <1>1, <1>7 DEF WritePackage, At, TypeOK, Op
<1>8. ~UNCHANGED vars
  BY <1>1 DEF vars
<1>9. QED
  BY <1>2, <1>3, <1>4, <1>5, <1>6, <1>7, <1>8 DEF Next

LEMMA BuildMakes ==
  ASSUME IInv, BuildEnds PROVE Made
<1>1. Working /\ op.pc = "compile" /\ core' = core
  BY DEF IInv, BuildEnds, At
<1>2. ASSUME NEW a \in op.arches, worker[a] # "failed" PROVE Compiles(op.lock, a)
  <2>1. a \in Arch /\ worker[a] = "done"
    BY <1>2 DEF BuildEnds, IInv, TypeOK, Op
  <2>2. QED
    BY <1>1, <2>1 DEF Working, Compiles
<1>3. op.pc \notin SigningPhases \cup PreparingPhases \cup PackagingPhases
  BY <1>1 DEF SigningPhases, PreparingPhases, PackagingPhases
<1>4. QED
  BY <1>2, <1>3 DEF Made

LEMMA ReleaseMakes ==
  ASSUME IInv, MakingFits, CopyMetadata PROVE Made
<1>1. /\ TypeOK /\ Signing /\ op.pc = "finish" /\ core' = core
      /\ rel' = [rel EXCEPT !.metadata = meta]
  BY DEF IInv, CopyMetadata, At
<1>2. /\ meta = op.lock /\ rel.manifest = Signed(op.lock) /\ rel.sums = rel.archive
      /\ \A a \in Arch : core[a].bin = Packed(op.lock) /\ core[a].desc = Finished(op.lock)
  BY <1>1 DEF Signing, SigningPhases
<1>3. /\ rel.archive \in [Arch -> File(Binary)]
      /\ \A a \in Arch : rel.archive[a] = Packed(op.lock)
  BY <1>1 DEF MakingFits, TypeOK, RelDir
<1>4. rel.archive = Signed(op.lock).bins
  BY <1>3 DEF Signed
<1>5. rel' = ReleaseOf(op.lock, op.lock)
  BY <1>1, <1>2, <1>4 DEF ReleaseOf, TypeOK, RelDir
<1>6. Describes(op.lock)
  BY <1>1, <1>2 DEF Describes
<1>7. op.pc \notin {"compile"} \cup PreparingPhases \cup PackagingPhases
  BY <1>1 DEF PreparingPhases, PackagingPhases
<1>8. QED
  BY <1>5, <1>6, <1>7 DEF Made, At

LEMMA PreparingMakes ==
  ASSUME IInv, MoveRel PROVE Made
<1>1. /\ Preparing /\ op.pc = "moveRel" /\ core' = core
      /\ rel' = [NoRel EXCEPT !.archive = Signed(op.lock).bins, !.sums = Signed(op.lock).bins,
                              !.manifest = Signed(op.lock)]
  BY DEF IInv, MoveRel, At
<1>2. rel' = ReleaseOf(op.lock, None)
  BY <1>1 DEF NoRel, ReleaseOf
<1>3. Describes(op.lock)
  BY <1>1 DEF Preparing, PreparingPhases, Describes
<1>4. op.pc \notin {"compile"} \cup SigningPhases \cup PackagingPhases
  BY <1>1 DEF SigningPhases, PackagingPhases
<1>5. QED
  BY <1>2, <1>3, <1>4 DEF Made, At

LEMMA PackagingMakes ==
  ASSUME IInv, WriteDistSums PROVE Made
<1>1. /\ TypeOK /\ Packaging /\ op.pc = "distSums"
      /\ dist' = [dist EXCEPT !.sums = dist.package]
  BY DEF IInv, WriteDistSums, At
<1>2. dist'.package = dist.package /\ dist'.sums = dist.package
  BY <1>1 DEF TypeOK, DistDir
<1>3. \A p \in Platform : dist.package[p].manifest = rel.manifest
  BY <1>1 DEF Packaging, PackagingPhases, At
<1>4. op.pc \notin {"compile"} \cup SigningPhases \cup PreparingPhases
  BY <1>1 DEF SigningPhases, PreparingPhases
<1>5. QED
  BY <1>2, <1>3, <1>4 DEF Made, At

LEMMA DeliversStep ==
  ASSUME IInv, MakingFits, [Next]_vars PROVE Delivers
<1>1. SUFFICES ASSUME faults' = faults
               PROVE  /\ \A a \in Arch : worker'[a] = "failed" => worker[a] = "failed"
                      /\ ~At("idle") /\ At("idle")' => Made
  BY DEF Delivers
<1>2. \A a \in Arch : worker'[a] = "failed" => worker[a] = "failed"
  BY <1>1, NoRefusal
<1>3. ASSUME ~At("idle"), At("idle")' PROVE Made
  <2>1. ~Kill
    BY <1>1 DEF Kill, Faulty, IInv, TypeOK
  <2>2. QED
    BY <1>3, <2>1, LastSteps, BuildMakes, ReleaseMakes, PreparingMakes, PackagingMakes
<1>4. QED
  BY <1>2, <1>3

\* The build, the release, the bundle and the packages of a tool that is not killed
\* are whole and of one lock, whatever the tools before it left behind
\* (build_core.py:134-155, release_core.py:70-97, prepare_bundle.py:57-69,
\* package.py:73-107).
THEOREM ToolsCarryThrough == Spec => ToolsDeliver
<1>1. Init => MakingFits
  BY DEF Init, MakingFits, At, Idle
<1>2. IInv /\ MakingFits /\ [Next]_vars => MakingFits'
  BY MakingHolds
<1>3. IInv /\ MakingFits /\ [Next]_vars => [Delivers]_vars
  BY DeliversStep
<1>4. QED
  BY <1>1, <1>2, <1>3, Invariant, PTL DEF Spec, ToolsDeliver

-----------------------------------------------------------------------------
(* The steps a tool has left *)

WorkFrom == [none |-> 0, done |-> 0, failed |-> 0, record |-> 1, pack |-> 2, link |-> 3, enter |-> 4]

\* In each phase, the steps of the phase and those after it.
StepsLeft ==
  [idle |-> 0,
   metadata |-> 10, compile |-> 1 + WorkFrom[worker["arm"]] + WorkFrom[worker["arm64"]],
   archive |-> 5 + Cardinality(op.arches), sign |-> 5, describe |-> 2 + Cardinality(op.arches),
   sums |-> 2, finish |-> 1,
   remove |-> 2 + 2 * Cardinality(op.arches), move |-> 1 + 2 * Cardinality(op.arches),
   removeRel |-> 2, moveRel |-> 1,
   packages |-> 1 + Cardinality(op.platforms), distSums |-> 1][op.pc]

\* Whatever happens while a tool is at work brings it nearer to its end, a failure of
\* one of its commands among it: no tool waits, retries or begins a phase anew
\* (build_core.py:130-155, release_core.py:70-97, prepare_bundle.py:57-69,
\* package.py:73-107).
ComesNearer == ~At("idle") => StepsLeft \in Nat /\ StepsLeft' \in Nat /\ StepsLeft' < StepsLeft
ToolsEnd == [][ComesNearer]_vars

LEMMA ArchCounted == IsFiniteSet(Arch) /\ Cardinality(Arch) = 2
<1>1. Arch = {"arm"} \cup {"arm64"}
  BY DEF Arch
<1>2. IsFiniteSet({"arm"}) /\ Cardinality({"arm"}) = 1
  BY FS_Singleton
<1>3. IsFiniteSet({"arm"} \cup {"arm64"}) /\ Cardinality({"arm"} \cup {"arm64"}) = 1 + 1
  BY <1>2, FS_AddElement
<1>4. QED
  BY <1>1, <1>3

LEMMA Counted ==
  ASSUME NEW as \in SUBSET Arch
  PROVE  Cardinality(as) \in Nat /\ Cardinality(as) <= 2
BY ArchCounted, FS_Subset, FS_CardinalityType

\* The architecture whose turn it was is done with.
LEMMA CountLess ==
  ASSUME NEW as \in SUBSET Arch, NEW a \in as
  PROVE  /\ Cardinality(as) \in Nat \ {0} /\ Cardinality(as \ {a}) = Cardinality(as) - 1
         /\ as = {a} => Cardinality(as) = 1
<1>1. IsFiniteSet(as)
  BY ArchCounted, FS_Subset
<1>2. Cardinality(as) \in Nat /\ Cardinality(as) # 0
  BY <1>1, FS_CardinalityType, FS_EmptySet
<1>3. Cardinality(as \ {a}) = Cardinality(as) - 1
  BY <1>1, FS_RemoveElement
<1>4. QED
  BY <1>2, <1>3, FS_Singleton

LEMMA WorkCounted ==
  ASSUME TypeOK
  PROVE  /\ WorkFrom[worker["arm"]] \in 0 .. 4 /\ WorkFrom[worker["arm64"]] \in 0 .. 4
BY DEF TypeOK, WorkFrom, Arch

LEMMA ContainerNearer ==
  ASSUME IInv, NEW a \in Arch, Container(a) PROVE ComesNearer
<1>1. TypeOK /\ op.pc = "compile" /\ op' = op
  BY ContainerSteps DEF IInv, Working, At
<1>2. \E to \in {"link", "pack", "record", "done", "failed"} :
        worker' = [worker EXCEPT ![a] = to] /\ WorkFrom[to] < WorkFrom[worker[a]]
  BY <1>1 DEF Container, Enter, Link, Pack, WriteRecord, Break, Steps, WorkFrom
<1>3. PICK to \in {"link", "pack", "record", "done", "failed"} :
        worker' = [worker EXCEPT ![a] = to] /\ WorkFrom[to] < WorkFrom[worker[a]]
  BY <1>2
<1>4. /\ worker'[a] = to /\ \A b \in Arch : b # a => worker'[b] = worker[b]
      /\ WorkFrom[to] \in Nat
  BY <1>1, <1>3 DEF TypeOK, WorkFrom
<1>5. /\ StepsLeft = 1 + WorkFrom[worker["arm"]] + WorkFrom[worker["arm64"]]
      /\ StepsLeft' = 1 + WorkFrom[worker'["arm"]] + WorkFrom[worker'["arm64"]]
  BY <1>1 DEF StepsLeft
<1>6. QED
  BY <1>1, <1>3, <1>4, <1>5, WorkCounted DEF ComesNearer, Arch

LEMMA ReleaseNearer ==
  ASSUME IInv, (\E a \in Arch : WriteArchive(a) \/ Describe(a)) \/ Sign \/ WriteSums
  PROVE  ComesNearer
<1>1. op \in Op
  BY DEF IInv, TypeOK
<1>2. ASSUME NEW a \in Arch, WriteArchive(a) PROVE ComesNearer
  <2>1. /\ op.pc = "archive" /\ a \in op.arches /\ op.arches \in SUBSET Arch
        /\ op'.arches = op.arches \ {a}
        /\ op'.pc = IF op.arches = {a} THEN "sign" ELSE "archive"
    BY <1>1, <1>2 DEF WriteArchive, At, Turn, Op
  <2>2. /\ StepsLeft = 5 + Cardinality(op.arches)
        /\ StepsLeft' = IF op.arches = {a} THEN 5 ELSE 5 + Cardinality(op'.arches)
    BY <2>1 DEF StepsLeft
  <2>3. /\ Cardinality(op.arches) \in Nat \ {0}
        /\ Cardinality(op'.arches) = Cardinality(op.arches) - 1
        /\ op.arches = {a} => Cardinality(op.arches) = 1
    BY <2>1, CountLess
  <2>4. QED
    BY <2>2, <2>3 DEF ComesNearer
<1>3. ASSUME NEW a \in Arch, Describe(a) PROVE ComesNearer
  <2>1. /\ op.pc = "describe" /\ a \in op.arches /\ op.arches \in SUBSET Arch
        /\ op'.arches = op.arches \ {a}
        /\ op'.pc = IF op.arches = {a} THEN "sums" ELSE "describe"
    BY <1>1, <1>3 DEF Describe, At, Turn, Op
  <2>2. /\ StepsLeft = 2 + Cardinality(op.arches)
        /\ StepsLeft' = IF op.arches = {a} THEN 2 ELSE 2 + Cardinality(op'.arches)
    BY <2>1 DEF StepsLeft
  <2>3. /\ Cardinality(op.arches) \in Nat \ {0}
        /\ Cardinality(op'.arches) = Cardinality(op.arches) - 1
        /\ op.arches = {a} => Cardinality(op.arches) = 1
    BY <2>1, CountLess
  <2>4. QED
    BY <2>2, <2>3 DEF ComesNearer
<1>4. CASE Sign
  <2>1. op.pc = "sign" /\ op'.pc = "describe" /\ op'.arches = Arch
    BY <1>1, <1>4 DEF Sign, At, Op
  <2>2. StepsLeft = 5 /\ StepsLeft' = 2 + Cardinality(Arch)
    BY <2>1 DEF StepsLeft
  <2>3. QED
    BY <2>2, ArchCounted DEF ComesNearer
<1>5. CASE WriteSums
  <2>1. op.pc = "sums" /\ op'.pc = "finish"
    BY <1>1, <1>5 DEF WriteSums, At, Goes, Op
  <2>2. QED
    BY <2>1 DEF StepsLeft, ComesNearer
<1>6. QED
  BY <1>2, <1>3, <1>4, <1>5

LEMMA PreparingNearer ==
  ASSUME IInv, (\E a \in Arch : RemoveCore(a) \/ MoveCore(a)) \/ RemoveRel
  PROVE  ComesNearer
<1>1. op \in Op
  BY DEF IInv, TypeOK
<1>2. ASSUME NEW a \in Arch, RemoveCore(a) PROVE ComesNearer
  <2>1. /\ op.pc = "remove" /\ op'.pc = "move" /\ op'.arches = op.arches
        /\ op.arches \in SUBSET Arch
    BY <1>1, <1>2 DEF RemoveCore, At, Goes, Op
  <2>2. StepsLeft = 2 + 2 * Cardinality(op.arches) /\ StepsLeft' = 1 + 2 * Cardinality(op'.arches)
    BY <2>1 DEF StepsLeft
  <2>3. QED
    BY <2>1, <2>2, Counted DEF ComesNearer
<1>3. ASSUME NEW a \in Arch, MoveCore(a) PROVE ComesNearer
  <2>1. /\ op.pc = "move" /\ a \in op.arches /\ op.arches \in SUBSET Arch
        /\ op'.arches = op.arches \ {a}
        /\ op'.pc = IF op.arches = {a} THEN "removeRel" ELSE "remove"
    BY <1>1, <1>3 DEF MoveCore, At, Turn, Op
  <2>2. /\ StepsLeft = 1 + 2 * Cardinality(op.arches)
        /\ StepsLeft' = IF op.arches = {a} THEN 2 ELSE 2 + 2 * Cardinality(op'.arches)
    BY <2>1 DEF StepsLeft
  <2>3. /\ Cardinality(op.arches) \in Nat \ {0}
        /\ Cardinality(op'.arches) = Cardinality(op.arches) - 1
        /\ op.arches = {a} => Cardinality(op.arches) = 1
    BY <2>1, CountLess
  <2>4. QED
    BY <2>2, <2>3 DEF ComesNearer
<1>4. CASE RemoveRel
  <2>1. op.pc = "removeRel" /\ op'.pc = "moveRel"
    BY <1>1, <1>4 DEF RemoveRel, At, Goes, Op
  <2>2. QED
    BY <2>1 DEF StepsLeft, ComesNearer
<1>5. QED
  BY <1>2, <1>3, <1>4

LEMMA PackagingNearer ==
  ASSUME IInv, NEW p \in Platform, WritePackage(p) PROVE ComesNearer
<1>1. /\ op \in Op /\ op.platforms \subseteq Platform
      /\ op.pc = "packages" /\ p \in op.platforms
  BY DEF IInv, TypeOK, Op, WritePackage, At
<1>2. /\ op'.platforms = op.platforms \ {p}
      /\ op'.pc = IF op.platforms = {p} THEN "distSums" ELSE "packages"
  BY <1>1 DEF WritePackage, Op
<1>3. IsFiniteSet(op.platforms)
  BY <1>1, BuildTreeAssumption, FS_Subset
<1>4. /\ Cardinality(op.platforms) \in Nat /\ Cardinality(op'.platforms) \in Nat
      /\ Cardinality(op'.platforms) = Cardinality(op.platforms) - 1
  BY <1>1, <1>2, <1>3, FS_RemoveElement, FS_CardinalityType
<1>5. /\ StepsLeft = 1 + Cardinality(op.platforms)
      /\ StepsLeft' = IF op.platforms = {p} THEN 1 ELSE 1 + Cardinality(op'.platforms)
  BY <1>1, <1>2 DEF StepsLeft
<1>6. QED
  BY <1>4, <1>5 DEF ComesNearer

\* A tool at work has a step left, and the last one leads to none.
LEMMA LastNearer ==
  ASSUME IInv, ~At("idle"), At("idle")' PROVE ComesNearer
<1>1. TypeOK /\ op.pc \in Phases \ {"idle"} /\ op.arches \in SUBSET Arch
  BY DEF IInv, TypeOK, Op, At
<1>2. Cardinality(op.platforms) \in Nat
  BY BuildTreeAssumption, FS_Subset, FS_CardinalityType DEF IInv, TypeOK, Op
<1>3. /\ 1 + WorkFrom[worker["arm"]] + WorkFrom[worker["arm64"]] \in Nat \ {0}
      /\ Cardinality(op.arches) \in Nat
  BY <1>1, WorkCounted, Counted
<1>4. StepsLeft \in Nat \ {0}
  <2>1. CASE op.pc = "compile"
    BY <1>3, <2>1 DEF StepsLeft
  <2>2. CASE op.pc \in SigningPhases
    BY <1>3, <2>2 DEF StepsLeft, SigningPhases
  <2>3. CASE op.pc \in PreparingPhases
    BY <1>3, <2>3 DEF StepsLeft, PreparingPhases
  <2>4. CASE op.pc \in PackagingPhases
    BY <1>2, <2>4 DEF StepsLeft, PackagingPhases
  <2>5. CASE op.pc = "metadata"
    BY <2>5 DEF StepsLeft
  <2>6. QED
    BY <1>1, <2>1, <2>2, <2>3, <2>4, <2>5
       DEF Phases, SigningPhases, PreparingPhases, PackagingPhases
<1>5. StepsLeft' = 0
  BY DEF StepsLeft, At
<1>6. QED
  BY <1>4, <1>5 DEF ComesNearer

LEMMA NearerStep ==
  ASSUME IInv, IInv', [Next]_vars PROVE [ComesNearer]_vars
<1>1. SUFFICES ASSUME Next, op.pc # "idle" PROVE ComesNearer
  BY DEF ComesNearer, At
<1>2. CASE WriteMetadata
  <2>1. op \in Op /\ op.pc = "metadata" /\ op'.pc = "compile"
    BY <1>2 DEF IInv, TypeOK, WriteMetadata, Goes, At, Op
  <2>2. worker'["arm"] \in {"none", "enter"} /\ worker'["arm64"] \in {"none", "enter"}
    BY <1>2 DEF WriteMetadata, Arch
  <2>3. /\ StepsLeft = 10
        /\ StepsLeft' = 1 + WorkFrom[worker'["arm"]] + WorkFrom[worker'["arm64"]]
    BY <2>1 DEF StepsLeft
  <2>4. QED
    BY <2>2, <2>3 DEF ComesNearer, WorkFrom
<1>3. ASSUME BuildEnds \/ CopyMetadata \/ MoveRel \/ WriteDistSums \/ Kill PROVE ComesNearer
  BY <1>1, <1>3, LastNearer DEF BuildEnds, CopyMetadata, MoveRel, WriteDistSums, Kill, Idle, At
<1>4. ~(\/ \E l \in Lock : \E as \in SUBSET Arch \ {{}} : Build(l, as)
        \/ Release \/ Publish \/ BuildPackages \/ EditPin
        \/ \E l \in Lock : Prepare(l))
  BY <1>1 DEF Build, Release, Publish, BuildPackages, EditPin, Prepare, Runs, At
<1>5. QED
  BY <1>1, <1>2, <1>3, <1>4, ContainerNearer, ReleaseNearer, PreparingNearer, PackagingNearer
     DEF Next

\* Every tool comes to its end after a number of steps known when it begins: ten of a
\* build, seven of a release, six of a bundle, and one for each package and another.
THEOREM EveryToolEnds == Spec => ToolsEnd
<1>1. IInv /\ IInv' /\ [Next]_vars => [ComesNearer]_vars
  BY NearerStep
<1>2. QED
  BY <1>1, Invariant, PTL DEF Spec, ToolsEnd
=============================================================================
