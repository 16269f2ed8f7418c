----------------------------- MODULE Toolchain -----------------------------
(***************************************************************************)
(* The Go toolchain of the helper: how tools/build_helper.py selects it    *)
(* from its own source and keeps the choice in build/helper-toolchain.json *)
(* (the lock), how tools/toolchain.py provisions it in .cache, and how the *)
(* container finds it again.                                               *)
(*                                                                         *)
(* Runs of build_helper.py may overlap in one checkout; the files they     *)
(* share are replaced by rename, and provision_go expects a concurrent     *)
(* provisioner.  The developer may edit go.mod or the recipe at any time,  *)
(* downloads fail, runs are killed.  Between runs somebody may bring a     *)
(* lock from elsewhere, and archives and trees may be found damaged.       *)
(*                                                                         *)
(* A Go version is a number in the order of _key.  A version determines    *)
(* its official archive, and a lock the directory toolchain_dir gives it.  *)
(***************************************************************************)
EXTENDS Naturals, FiniteSets

CONSTANTS Run,        \* runs of build_helper.py
          Version,    \* Go versions
          None,       \* no version, no lock, nothing built
          Source,     \* what go.mod and helper_recipe.json may require
          Catalog,    \* versions with a unique stable official release
          MaxFaults   \* bound on failures, edits, damages and foreign locks

\* The requirements of a source: go.mod's go and toolchain lines, and the
\* baseline of the recipe.
Requirements ==
  [go : Version, toolchain : Version \cup {None}, upstream : Version \cup {None}]

Lock == [version : Version, requirements : Source]

\* A saved lock: the digests of the go.mod and recipe it was made for, and the
\* Go lock.
Document == [made : Source, go : Lock]

ASSUME ToolchainAssumption ==
  /\ Version \subseteq Nat /\ None \notin Version \cup Document
  /\ Source \subseteq Requirements /\ Source # {}
  /\ Catalog \subseteq Version
  /\ MaxFaults \in Nat

VARIABLES
  source,   \* what go.mod and the recipe require now
  saved,    \* build/helper-toolchain.json
  cached,   \* the archive of each version in .cache/downloads
  tree,     \* the directory of each lock under .cache/toolchains/helper
  run,      \* what each run is doing
  faults

vars == <<source, saved, cached, tree, run, faults>>

-----------------------------------------------------------------------------
(* Selection *)

Required(s) == {s.go, s.toolchain, s.upstream} \ {None}

\* max(..., key=_key)
Newest(s) == CHOOSE v \in Required(s) : \A w \in Required(s) : w <= v

\* resolve_go for a source whose version the catalog offers.
Resolved(s) == [version |-> Newest(s), requirements |-> s]

\* validate_helper_lock
Fits(d, s) == d.made = s /\ d.go = Resolved(s)

-----------------------------------------------------------------------------
(* Runs *)

\* The three builds of the container, in their order.
Builds == {"arm", "arm64", "native"}
NextBuild == [arm |-> "arm64", arm64 |-> "native"]

Phases == {"idle", "prepare", "validate", "replace", "archive", "fetch", "check", "extract",
           "again", "exists", "move", "install", "enter"} \cup Builds
Condition == {"none", "whole", "damaged"}

\* What was built: from which sources, by which lock, by trees in which condition.
Built == [sources : SUBSET Source, lock : Lock, trees : SUBSET Condition]

\* What was done to a run: it had to refuse, had company, was killed, or its
\* source was edited, and that after its new lock was validated ("outdated") or
\* after the container validated the saved one ("overtaken").
Excuses == {"refused", "company", "killed", "edited", "outdated", "overtaken"}

\* lock: what the run goes by; own: the source its container was given; verdict,
\* built and excuses: of the last run.
RunState == [pc : Phases, lock : Lock \cup {None}, own : Source \cup {None},
             excuses : SUBSET Excuses, verdict : {"none", "built", "failed"},
             built : Built \cup {None}]

TypeOK ==
  /\ source \in Source
  /\ saved \in Document \cup {None}
  /\ cached \in [Version -> Condition]
  /\ tree \in [Lock -> Condition]
  /\ run \in [Run -> RunState]
  /\ faults \in 0 .. MaxFaults

Init ==
  /\ source \in Source
  /\ saved = None
  /\ cached = [v \in Version |-> "none"]
  /\ tree = [l \in Lock |-> "none"]
  /\ run = [r \in Run |-> [pc |-> "idle", lock |-> None, own |-> None, excuses |-> {},
                           verdict |-> "none", built |-> None]]
  /\ faults = 0

At(r, where) == run[r].pc = where
LockOf(r) == run[r].lock
Quiet == \A r \in Run : At(r, "idle")

Goes(r, where) == run' = [run EXCEPT ![r].pc = where]

Ended(state, verdict) ==
  [state EXCEPT !.pc = "idle", !.lock = None, !.own = None, !.verdict = verdict]

\* An exception ends the run.
Fails(r) == run' = [run EXCEPT ![r] = [Ended(@, "failed") EXCEPT !.built = None]]

\* What every run refuses: a lock made for this source that is not its own, or a
\* source whose version the catalog does not offer.
Unbuildable ==
  \/ saved # None /\ saved.made = source /\ ~Fits(saved, source)
  \/ ~(saved # None /\ saved.made = source) /\ Newest(source) \notin Catalog

Excused(r, why) ==
  IF At(r, "idle") THEN run[r] ELSE [run[r] EXCEPT !.excuses = @ \cup why]

\* A run starts; the others that are at work have company now.
Start(r) ==
  /\ At(r, "idle")
  /\ run' = [q \in Run |->
       IF q = r THEN [run[r] EXCEPT !.pc = "prepare", !.verdict = "none", !.built = None,
                                    !.excuses = {e \in Excuses : \/ e = "refused" /\ Unbuildable
                                                                 \/ e = "company" /\ ~Quiet}]
       ELSE Excused(q, {"company"})]
  /\ UNCHANGED <<source, saved, cached, tree, faults>>

\* prepare_helper_toolchain takes the saved lock if it was made for this source,
\* and otherwise asks the catalog.
Prepare(r) ==
  /\ At(r, "prepare")
  /\ LET reused == saved # None /\ saved.made = source IN
     \/ /\ reused /\ Fits(saved, source)
        /\ run' = [run EXCEPT ![r].pc = "archive", ![r].lock = saved.go]
     \/ /\ ~reused /\ Newest(source) \in Catalog
        /\ run' = [run EXCEPT ![r].pc = "validate", ![r].lock = Resolved(source)]
     \/ /\ IF reused THEN ~Fits(saved, source) ELSE Newest(source) \notin Catalog
        /\ Fails(r)
  /\ UNCHANGED <<source, saved, cached, tree, faults>>

\* The document that a run saves.
Chosen(r) == [made |-> LockOf(r).requirements, go |-> LockOf(r)]

\* Mutant: the new lock is not validated again before it is saved.
ValidateUnchecked(r) ==
  /\ At(r, "validate")
  /\ Goes(r, "replace")
  /\ UNCHANGED <<source, saved, cached, tree, faults>>

\* The new lock is validated against the source as it is now.
Validate(r) ==
  /\ At(r, "validate")
  /\ IF Fits(Chosen(r), source) THEN Goes(r, "replace") ELSE Fails(r)
  /\ UNCHANGED <<source, saved, cached, tree, faults>>

\* It is written to a file of the run's own, and replaces the saved one by
\* rename, whatever has become of that and of the source meanwhile.
Replace(r) ==
  /\ At(r, "replace")
  /\ saved' = Chosen(r)
  /\ Goes(r, "archive")
  /\ UNCHANGED <<source, cached, tree, faults>>

\* main returns here with --prepare-toolchain.
Return(r) ==
  /\ At(r, "archive")
  /\ run' = [run EXCEPT ![r] = Ended(@, "none")]
  /\ UNCHANGED <<source, saved, cached, tree, faults>>

CheckArchive(r) ==
  /\ At(r, "archive")
  /\ Goes(r, IF cached[LockOf(r).version] = "whole" THEN "check" ELSE "fetch")
  /\ UNCHANGED <<source, saved, cached, tree, faults>>

\* The archive is downloaded into a directory of the run's own and replaces the
\* cached one when its size and digest are right.
Fetch(r) ==
  /\ At(r, "fetch")
  /\ cached' = [cached EXCEPT ![LockOf(r).version] = "whole"]
  /\ Goes(r, "check")
  /\ UNCHANGED <<source, saved, tree, faults>>

\* _installed_valid decides whether the directory is used as it is.
CheckTree(r) ==
  /\ At(r, "check")
  /\ Goes(r, IF tree[LockOf(r)] = "whole" THEN "enter" ELSE "extract")
  /\ UNCHANGED <<source, saved, cached, tree, faults>>

\* The archive is extracted and marked in a staging directory of the run's own.
Extract(r) ==
  /\ At(r, "extract")
  /\ Goes(r, "again")
  /\ UNCHANGED <<source, saved, cached, tree, faults>>

\* Another run may have completed the same lock meanwhile.
CheckAgain(r) ==
  /\ At(r, "again")
  /\ Goes(r, IF tree[LockOf(r)] = "whole" THEN "enter" ELSE "exists")
  /\ UNCHANGED <<source, saved, cached, tree, faults>>

\* Mutant: what is in the way is not moved aside.
ExistsIgnored(r) ==
  /\ At(r, "exists")
  /\ Goes(r, "install")
  /\ UNCHANGED <<source, saved, cached, tree, faults>>

Exists(r) ==
  /\ At(r, "exists")
  /\ Goes(r, IF tree[LockOf(r)] = "none" THEN "install" ELSE "move")
  /\ UNCHANGED <<source, saved, cached, tree, faults>>

\* What is there is moved into the temporary directory, to be deleted with it;
\* the rename fails when another run has moved it away.
MoveAside(r) ==
  /\ At(r, "move")
  /\ \/ /\ tree[LockOf(r)] # "none"
        /\ tree' = [tree EXCEPT ![LockOf(r)] = "none"]
        /\ Goes(r, "install")
     \/ tree[LockOf(r)] = "none" /\ UNCHANGED tree /\ Fails(r)
  /\ UNCHANGED <<source, saved, cached, faults>>

\* The staging directory is renamed.  Onto a directory that is there again this
\* fails, with EEXIST or with ENOTEMPTY as the file system likes: the first is
\* FileExistsError, and a valid directory is accepted then.
Install(r) ==
  /\ At(r, "install")
  /\ \/ /\ tree[LockOf(r)] = "none"
        /\ tree' = [tree EXCEPT ![LockOf(r)] = "whole"]
        /\ Goes(r, "enter")
     \/ tree[LockOf(r)] = "whole" /\ UNCHANGED tree /\ Goes(r, "enter")
     \/ tree[LockOf(r)] # "none" /\ UNCHANGED tree /\ Fails(r)
  /\ UNCHANGED <<source, saved, cached, faults>>

\* A run goes into the container, which finds the saved lock and the source as
\* they are.
Enters(r) ==
  run' = [run EXCEPT ![r].pc = "arm", ![r].lock = saved.go, ![r].own = source,
                     ![r].built = [sources |-> {}, lock |-> saved.go, trees |-> {}]]

\* Mutant: the container trusts the saved lock.
EnterTrusting(r) ==
  /\ At(r, "enter")
  /\ IF saved # None THEN Enters(r) ELSE Fails(r)
  /\ UNCHANGED <<source, saved, cached, tree, faults>>

\* inside: the container reads the saved lock and validates it against the
\* source it was given; the lock of the caller is not handed over.
Enter(r) ==
  /\ At(r, "enter")
  /\ IF saved # None /\ Fits(saved, source) THEN Enters(r) ELSE Fails(r)
  /\ UNCHANGED <<source, saved, cached, tree, faults>>

\* One go build, by the compiler in the directory of that lock as it is now.  It
\* reads the checkout again, as it is or, where an editor has replaced the file
\* that is mounted, as it was.  Under GOTOOLCHAIN=local it refuses a source whose
\* go line is newer than itself, and overlooks a toolchain line.
Compile(r) ==
  /\ run[r].pc \in Builds
  /\ \E s \in {source, run[r].own} :
       LET t == tree[LockOf(r)]
           b == [run[r].built EXCEPT !.sources = @ \cup {s}, !.trees = @ \cup {t}] IN
       IF t = "none" \/ s.go > LockOf(r).version THEN Fails(r)
       ELSE IF At(r, "native")
       THEN run' = [run EXCEPT ![r] = [Ended(@, "built") EXCEPT !.built = b]]
       ELSE run' = [run EXCEPT ![r].pc = NextBuild[@], ![r].built = b]
  /\ UNCHANGED <<source, saved, cached, tree, faults>>

-----------------------------------------------------------------------------
(* What happens to the runs and around them *)

Faulty == faults < MaxFaults /\ faults' = faults + 1

\* A command of the run fails or it is killed; its temporary directories are
\* left behind and never looked at again.
Abort(r) ==
  /\ ~At(r, "idle")
  /\ Faulty
  /\ run' = [run EXCEPT ![r] = [Ended(run[r], "failed") EXCEPT
                !.built = None, !.excuses = run[r].excuses \cup {"killed"}]]
  /\ UNCHANGED <<source, saved, cached, tree>>

\* The developer edits go.mod or the recipe.
Edit ==
  /\ Faulty
  /\ source' \in Source \ {source}
  /\ run' = [r \in Run |-> Excused(r, {"edited"} \cup
                 {e \in {"outdated"} : At(r, "replace")} \cup
                 {e \in {"overtaken"} : run[r].pc \in Builds})]
  /\ UNCHANGED <<saved, cached, tree>>

\* A lock is restored or copied from elsewhere, or removed.
Bring ==
  /\ Quiet /\ Faulty
  /\ saved' \in Document \cup {None}
  /\ UNCHANGED <<source, cached, tree, run>>

\* Archives and trees are found damaged or partly removed by the next run.
Damage ==
  /\ Quiet /\ Faulty
  /\ \/ \E v \in Version : cached[v] = "whole"
                           /\ cached' = [cached EXCEPT ![v] = "damaged"] /\ UNCHANGED tree
     \/ \E l \in Lock : tree[l] = "whole"
                        /\ tree' = [tree EXCEPT ![l] = "damaged"] /\ UNCHANGED cached
  /\ UNCHANGED <<source, saved, run>>

Steps(r) ==
  \/ Prepare(r) \/ Validate(r) \/ Replace(r) \/ Return(r)
  \/ CheckArchive(r) \/ Fetch(r) \/ CheckTree(r) \/ Extract(r)
  \/ CheckAgain(r) \/ Exists(r) \/ MoveAside(r) \/ Install(r) \/ Enter(r) \/ Compile(r)

Next ==
  \/ \E r \in Run : Start(r) \/ Steps(r) \/ Abort(r)
  \/ Edit \/ Bring \/ Damage

Spec == Init /\ [][Next]_vars

-----------------------------------------------------------------------------
(* Properties *)

\* Every source that a build compiled is one that requires the very lock it was
\* compiled by, although source, lock and tree are looked at long before and by
\* other runs, unless the source was edited while the container was compiling;
\* and each of the three was compiled by an undamaged tree, unless the source was
\* edited at all: then the container may go by a lock whose tree nobody has
\* checked (build_helper.py:35-53, 113-127, toolchain.py:174-184).
SoundBuild ==
  \A r \in Run : LET b == run[r].built
                     excuses == run[r].excuses IN
    b # None => /\ "overtaken" \notin excuses => \A s \in b.sources : b.lock = Resolved(s)
                /\ "edited" \notin excuses => b.trees \subseteq {"whole"}

\* A run that nothing disturbed does not fail, whatever earlier runs, killed
\* ones among them, left behind (toolchain.py:187-226, build_helper.py:56-75).
UndisturbedBuilds ==
  \A r \in Run : run[r].verdict = "failed" => run[r].excuses # {}

\* A lock that fits the source is not replaced, however many runs select one at
\* the same time, but by a run under which the source was edited in the moment
\* between validating its own lock and the rename (build_helper.py:60-74).
FittingLockStays ==
  [][saved # None /\ Fits(saved, source) /\ ~Bring =>
       \/ saved' = saved
       \/ \E r \in Run : /\ At(r, "replace") /\ At(r, "archive")'
                         /\ "outdated" \in run[r].excuses]_vars
=============================================================================
