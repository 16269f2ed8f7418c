-------------------------- MODULE ToolchainProofs --------------------------
(***************************************************************************)
(* Proofs about Toolchain, for every set of runs, versions and sources and *)
(* every number of faults: what is built is sound, runs that nothing       *)
(* disturbs succeed, and a fitting lock stays.                             *)
(*                                                                         *)
(* A run goes by what it looked at long ago.  The invariant says what each *)
(* place of a run may rely on (Relies): a run whose source was not edited  *)
(* on its lock and on the tree not being damaged; one that had no company  *)
(* either, on the saved lock and on the very condition it has found.       *)
(*                                                                         *)
(* At the end what can be proved of progress: each step leaves fewer, and  *)
(* a run that nothing disturbed ends with what it was for.                 *)
(***************************************************************************)
EXTENDS Toolchain, TLAPS

\* Where a run goes by a saved lock.
Settled == Phases \ {"idle", "prepare", "validate", "replace"}

\* What the builds of a run say, the finished ones and those so far.
Sound(s) ==
  /\ "overtaken" \notin s.excuses => \A x \in s.built.sources : s.built.lock = Resolved(x)
  /\ "edited" \notin s.excuses => s.built.trees \subseteq {"whole"}

\* What a run in the state s relies on.
Relies(s) ==
  /\ s.pc \notin {"idle", "prepare"} => s.lock \in Lock
  /\ s.pc \notin {"idle", "prepare"} /\ "edited" \notin s.excuses => s.lock = Resolved(source)
  /\ s.pc = "replace" /\ "outdated" \notin s.excuses => s.lock = Resolved(source)
  /\ s.pc \in {"enter"} \cup Builds /\ "edited" \notin s.excuses => tree[s.lock] # "damaged"
  /\ s.pc \in Builds =>
       /\ s.own \in Source /\ s.lock = Resolved(s.own)
       /\ s.built \in Built /\ s.built.lock = s.lock /\ Sound(s)
       /\ "overtaken" \notin s.excuses => source = s.own
  /\ s.excuses = {} =>
       /\ s.pc = "prepare" => ~Unbuildable
       /\ s.pc \in Settled => saved # None /\ Fits(saved, source)
       /\ s.pc = "move" => tree[s.lock] # "none"
       /\ s.pc = "install" => tree[s.lock] = "none"
       /\ s.pc \in {"enter"} \cup Builds => tree[s.lock] = "whole"

\* What the outcome of the last run says.
Outcome(s) ==
  /\ s.built # None => Sound(s)
  /\ s.verdict = "failed" => s.excuses # {}

\* Runs at work at the same time all know it.
Company ==
  \A q, r \in Run : q # r /\ ~At(q, "idle") /\ ~At(r, "idle") => "company" \in run[q].excuses

IInv == /\ TypeOK /\ Company
        /\ \A r \in Run : Relies(run[r]) /\ Outcome(run[r])

-----------------------------------------------------------------------------
(* Locks *)

LEMMA Greatest ==
  ASSUME NEW a \in Nat, NEW b \in Nat, NEW c \in Nat
  PROVE  \E v \in {a, b, c} : a <= v /\ b <= v /\ c <= v
OBVIOUS

\* The newest required version exists and is a version.
LEMMA NewestType ==
  ASSUME NEW s \in Source PROVE Newest(s) \in Version
<1>1. s \in Requirements /\ Version \subseteq Nat /\ None \notin Version
  BY ToolchainAssumption
<1> DEFINE a == s.go
           b == IF s.toolchain = None THEN a ELSE s.toolchain
           c == IF s.upstream = None THEN a ELSE s.upstream
<1>2. a \in Version /\ b \in Version /\ c \in Version
  BY <1>1 DEF Requirements
<1>3. Required(s) = {a, b, c}
  BY <1>1 DEF Required, Requirements
<1> HIDE DEF a, b, c
<1>4. \E v \in {a, b, c} : a <= v /\ b <= v /\ c <= v
  BY <1>1, <1>2, Greatest
<1>5. \E v \in Required(s) : \A w \in Required(s) : w <= v
  BY <1>3, <1>4
<1>6. Newest(s) \in Required(s)
  BY <1>5 DEF Newest
<1>7. QED
  BY <1>2, <1>3, <1>6

\* It is no older than the go line.
LEMMA NewestIsAbove ==
  ASSUME NEW s \in Source PROVE s.go <= Newest(s)
<1>1. s \in Requirements /\ Version \subseteq Nat /\ None \notin Version
  BY ToolchainAssumption
<1> DEFINE a == s.go
           b == IF s.toolchain = None THEN a ELSE s.toolchain
           c == IF s.upstream = None THEN a ELSE s.upstream
<1>2. a \in Version /\ b \in Version /\ c \in Version
  BY <1>1 DEF Requirements
<1>3. Required(s) = {a, b, c}
  BY <1>1 DEF Required, Requirements
<1>4. a \in Required(s)
  BY <1>3
<1> HIDE DEF a, b, c
<1>5. \E v \in {a, b, c} : a <= v /\ b <= v /\ c <= v
  BY <1>1, <1>2, Greatest
<1>6. \E v \in Required(s) : \A w \in Required(s) : w <= v
  BY <1>3, <1>5
<1>7. \A w \in Required(s) : w <= Newest(s)
  BY <1>6 DEF Newest
<1>8. QED
  BY <1>4, <1>7 DEF a

LEMMA ResolvedType ==
  ASSUME NEW s \in Source PROVE Resolved(s) \in Lock
BY NewestType DEF Resolved, Lock

\* There is only one document that fits a source.
LEMMA FitsOnce ==
  ASSUME NEW d \in Document, NEW e \in Document, NEW s \in Source, Fits(d, s), Fits(e, s)
  PROVE  d = e
BY DEF Document, Fits

-----------------------------------------------------------------------------
(* Steps of one run *)

\* A step of a run at work that damages nothing keeps the invariant when the
\* run may rely on what its new place asks for: whoever else is at work has had
\* company, and relies on no more than its own lock.
LEMMA Advances ==
  ASSUME IInv, NEW r \in Run, ~At(r, "idle"), NEW s \in RunState,
         run' = [run EXCEPT ![r] = s],
         s.pc # "idle" => run[r].excuses \subseteq s.excuses,
         source' = source,
         saved' \in Document \cup {None}, cached' \in [Version -> Condition],
         tree' \in [Lock -> Condition], faults' \in 0 .. MaxFaults,
         \A l \in Lock : tree'[l] = "damaged" => tree[l] = "damaged",
         Relies(run[r])', Outcome(s)
  PROVE  IInv'
<1>1. run \in [Run -> RunState]
  BY DEF IInv, TypeOK
<1>2. /\ run' \in [Run -> RunState] /\ run'[r] = s
      /\ \A q \in Run : q # r => run'[q] = run[q]
  BY <1>1
<1>3. TypeOK'
  BY <1>2 DEF IInv, TypeOK
<1>4. Company'
  <2> SUFFICES ASSUME NEW p \in Run, NEW q \in Run, p # q,
                      run'[p].pc # "idle", run'[q].pc # "idle"
               PROVE  "company" \in run'[p].excuses
    BY DEF Company, At
  <2>1. CASE p = r
    BY <1>2, <2>1 DEF IInv, Company, At
  <2>2. CASE q = r
    BY <1>2, <2>2 DEF IInv, Company, At
  <2>3. CASE p # r /\ q # r
    BY <1>2, <2>3 DEF IInv, Company, At
  <2>4. QED
    BY <2>1, <2>2, <2>3
<1>5. ASSUME NEW q \in Run PROVE (Relies(run[q]) /\ Outcome(run[q]))'
  <2>1. CASE q = r
    BY <1>2, <2>1 DEF Relies, Outcome, Sound, Fits, Unbuildable
  <2>2. CASE q # r
    <3>1. Relies(run[q]) /\ Outcome(run[q]) /\ run'[q] = run[q]
      BY <1>2, <2>2 DEF IInv
    <3>2. run[q].pc # "idle" => run[q].excuses # {}
      BY <2>2 DEF IInv, Company, At
    <3>3. QED
      BY <3>1, <3>2 DEF Relies, Outcome, Sound, Builds, Settled
  <2>3. QED
    BY <2>1, <2>2
<1>6. QED
  BY <1>3, <1>4, <1>5 DEF IInv

\* What the type invariant says of a run at work.
LEMMA AtWork ==
  ASSUME IInv, NEW r \in Run
  PROVE  /\ run \in [Run -> RunState] /\ run[r] \in RunState
         /\ Relies(run[r]) /\ Outcome(run[r])
         /\ source \in Source /\ saved \in Document \cup {None}
         /\ cached \in [Version -> Condition] /\ tree \in [Lock -> Condition]
         /\ faults \in 0 .. MaxFaults
BY DEF IInv, TypeOK

\* A run that goes on at the next place.
LEMMA Going ==
  ASSUME IInv, NEW r \in Run, ~At(r, "idle"),
         NEW where \in Phases \ {"idle"}, Goes(r, where),
         source' = source, UNCHANGED faults,
         saved' \in Document \cup {None}, cached' \in [Version -> Condition],
         tree' \in [Lock -> Condition],
         \A l \in Lock : tree'[l] = "damaged" => tree[l] = "damaged",
         Relies(run[r])'
  PROVE  IInv'
<1> DEFINE s == [run[r] EXCEPT !.pc = where]
<1>1. run[r] \in RunState /\ Outcome(run[r]) /\ run \in [Run -> RunState]
      /\ faults \in 0 .. MaxFaults
  BY AtWork
<1>2. s \in RunState /\ s.excuses = run[r].excuses /\ s.built = run[r].built
      /\ s.verdict = run[r].verdict
  BY <1>1 DEF RunState
<1>3. run' = [run EXCEPT ![r] = s]
  BY <1>1 DEF Goes
<1>4. Outcome(s)
  BY <1>1, <1>2 DEF Outcome, Sound
<1> HIDE DEF s
<1>5. QED
  BY <1>1, <1>2, <1>3, <1>4, Advances DEF s

\* A run that fails had an excuse.
LEMMA Failing ==
  ASSUME IInv, NEW r \in Run, ~At(r, "idle"), Fails(r), run[r].excuses # {},
         UNCHANGED <<source, saved, cached, tree, faults>>
  PROVE  IInv'
<1> DEFINE s == [Ended(run[r], "failed") EXCEPT !.built = None]
<1>1. run[r] \in RunState
  BY AtWork
<1>2. /\ s \in RunState /\ s.pc = "idle" /\ s.built = None /\ s.excuses = run[r].excuses
  BY <1>1 DEF RunState, Ended, Phases, Builds
<1>3. run' = [run EXCEPT ![r] = s]
  BY DEF Fails
<1>4. run' \in [Run -> RunState] /\ run'[r] = s
  BY <1>2, <1>3, AtWork
<1>5. Outcome(s) /\ Relies(run[r])'
  BY <1>2, <1>4 DEF Outcome, Sound, Relies, Builds, Settled
<1> HIDE DEF s
<1>6. QED
  BY <1>2, <1>3, <1>5, Advances, AtWork

-----------------------------------------------------------------------------
(* The steps of a run *)

LEMMA PrepareStep == ASSUME IInv, NEW r \in Run, Prepare(r) PROVE IInv'
<1> DEFINE reused == saved # None /\ saved.made = source
           taken(where, l) == [run[r] EXCEPT !.pc = where, !.lock = l]
<1>1. run \in [Run -> RunState] /\ run[r] \in RunState /\ Relies(run[r]) /\ Outcome(run[r])
      /\ source \in Source /\ Resolved(source) \in Lock
  BY AtWork, ResolvedType
<1>2. ~At(r, "idle")
  BY DEF Prepare, At
<1>3. ASSUME NEW where \in {"archive", "validate"}, NEW l \in Lock, l = Resolved(source),
             run' = [run EXCEPT ![r].pc = where, ![r].lock = l],
             where = "archive" => saved # None /\ Fits(saved, source)
      PROVE  IInv'
  <2>1. PICK s \in RunState : s = taken(where, l)
    BY <1>1 DEF RunState, Phases, Builds
  <2>2. run' = [run EXCEPT ![r] = s] /\ run'[r] = s
    BY <1>1, <1>3, <2>1
  <2>3. s.pc = where /\ s.lock = l /\ s.excuses = run[r].excuses /\ s.built = run[r].built
        /\ s.verdict = run[r].verdict
    BY <1>1, <2>1 DEF RunState
  <2>4. Outcome(s)
    BY <1>1, <2>3 DEF Outcome, Sound
  <2>5. Relies(run[r])'
    BY <1>3, <2>2, <2>3 DEF Relies, Prepare, Fits, Resolved, Builds, Settled
  <2>6. QED
    BY <1>1, <1>2, <2>2, <2>3, <2>4, <2>5, Advances, AtWork DEF Prepare
<1>4. CASE reused /\ Fits(saved, source)
           /\ run' = [run EXCEPT ![r].pc = "archive", ![r].lock = saved.go]
  BY <1>1, <1>3, <1>4 DEF Fits
<1>5. CASE ~reused /\ run' = [run EXCEPT ![r].pc = "validate", ![r].lock = Resolved(source)]
  BY <1>1, <1>3, <1>5
<1>6. CASE Fails(r) /\ IF reused THEN ~Fits(saved, source) ELSE Newest(source) \notin Catalog
  <2>1. run[r].excuses # {}
    BY <1>1, <1>6 DEF Relies, Unbuildable, Prepare, At
  <2>2. QED
    BY <1>2, <1>6, <2>1, Failing DEF Prepare
<1>7. QED
  BY <1>4, <1>5, <1>6 DEF Prepare

\* The document of a run is made for the source its lock is for.
LEMMA ChosenIs ==
  ASSUME NEW r \in Run, run[r].lock \in Lock
  PROVE  /\ Chosen(r) \in Document /\ Chosen(r) # None
         /\ \A s \in Source : run[r].lock = Resolved(s) <=> Fits(Chosen(r), s)
BY ToolchainAssumption DEF Chosen, LockOf, Document, Lock, Fits, Resolved

LEMMA ValidateStep == ASSUME IInv, NEW r \in Run, Validate(r) PROVE IInv'
<1>1. run \in [Run -> RunState] /\ run[r] \in RunState /\ Relies(run[r])
      /\ run[r].pc = "validate" /\ run[r].lock \in Lock /\ source \in Source
      /\ UNCHANGED <<source, saved, cached, tree, faults>>
  BY AtWork DEF Validate, At, Relies
<1>2. CASE Fits(Chosen(r), source) /\ Goes(r, "replace")
  <2>1. /\ run'[r].pc = "replace" /\ run'[r].lock = run[r].lock
        /\ run'[r].excuses = run[r].excuses
    BY <1>1, <1>2 DEF Goes, RunState
  <2>2. Relies(run[r])'
    BY <1>1, <1>2, <2>1, ChosenIs DEF Relies, Builds, Settled, Resolved
  <2>3. QED
    BY <1>1, <1>2, <2>2, Going, AtWork DEF At, Phases
<1>3. CASE ~Fits(Chosen(r), source) /\ Fails(r)
  <2>1. run[r].excuses # {}
    BY <1>1, <1>3, ChosenIs DEF Relies
  <2>2. QED
    BY <1>1, <1>3, <2>1, Failing DEF At
<1>4. QED
  BY <1>2, <1>3 DEF Validate

\* A run that nothing disturbed saves a lock that fits.
LEMMA ReplaceStep == ASSUME IInv, NEW r \in Run, Replace(r) PROVE IInv'
<1>1. run \in [Run -> RunState] /\ run[r] \in RunState /\ Relies(run[r])
      /\ run[r].pc = "replace" /\ run[r].lock \in Lock /\ source \in Source
      /\ UNCHANGED <<source, cached, tree, faults>>
  BY AtWork DEF Replace, At, Relies
<1>2. saved' = Chosen(r) /\ Goes(r, "archive")
  BY DEF Replace
<1>3. /\ run'[r].pc = "archive" /\ run'[r].lock = run[r].lock
      /\ run'[r].excuses = run[r].excuses
  BY <1>1, <1>2 DEF Goes, RunState
<1>4. saved' \in Document /\ saved' # None
      /\ (run[r].lock = Resolved(source) => Fits(saved', source))
  BY <1>1, <1>2, ChosenIs
<1>5. Fits(saved', source) => Fits(saved, source)'
  BY <1>1 DEF Fits, Resolved, Newest, Required
<1>6. Relies(run[r])'
  BY <1>1, <1>3, <1>4, <1>5 DEF Relies, Builds, Settled, Resolved
<1>7. QED
  BY <1>1, <1>2, <1>4, <1>6, Going, AtWork DEF At, Phases

\* What a run at work at one of the later places relies on.
LEMMA Holds ==
  ASSUME IInv, NEW r \in Run, run[r].pc \in Settled
  PROVE  /\ run[r].lock \in Lock /\ run[r].lock.version \in Version
         /\ run[r].excuses = {} => saved # None /\ Fits(saved, source)
BY AtWork DEF Relies, Lock, Settled

\* The steps that only look at the archive and at the tree.
LEMMA LookStep ==
  ASSUME IInv, NEW r \in Run,
         CheckArchive(r) \/ CheckTree(r) \/ Extract(r) \/ CheckAgain(r) \/ Exists(r)
  PROVE  IInv'
<1>1. /\ run \in [Run -> RunState] /\ run[r] \in RunState /\ Relies(run[r])
      /\ UNCHANGED <<source, saved, cached, tree, faults>>
      /\ tree \in [Lock -> Condition]
  BY AtWork DEF CheckArchive, CheckTree, Extract, CheckAgain, Exists
<1>2. run[r].pc \in {"archive", "check", "extract", "again", "exists"}
  BY DEF CheckArchive, CheckTree, Extract, CheckAgain, Exists, At
<1>3. PICK where \in Phases \ {"idle"} :
        /\ where \in Settled \ Builds /\ Goes(r, where)
        /\ where = "enter" => tree[LockOf(r)] = "whole"
        /\ where = "install" => tree[LockOf(r)] = "none"
        /\ where = "move" => tree[LockOf(r)] # "none"
  <2>1. CASE CheckArchive(r)
    BY <2>1 DEF CheckArchive, Phases, Settled, Builds
  <2>2. CASE CheckTree(r)
    BY <2>2 DEF CheckTree, Phases, Settled, Builds
  <2>3. CASE Extract(r)
    BY <2>3 DEF Extract, Phases, Settled, Builds
  <2>4. CASE CheckAgain(r)
    BY <2>4 DEF CheckAgain, Phases, Settled, Builds
  <2>5. CASE Exists(r)
    BY <2>5 DEF Exists, Phases, Settled, Builds
  <2>6. QED
    BY <2>1, <2>2, <2>3, <2>4, <2>5
<1>4. /\ run'[r].pc = where /\ run'[r].lock = run[r].lock
      /\ run'[r].excuses = run[r].excuses
  BY <1>1, <1>3 DEF Goes, RunState
<1>5. Relies(run[r])'
  BY <1>1, <1>2, <1>3, <1>4 DEF Relies, Fits, LockOf, Settled, Builds, Phases
<1>6. QED
  BY <1>1, <1>2, <1>3, <1>5, Going, AtWork DEF At

LEMMA FetchStep == ASSUME IInv, NEW r \in Run, Fetch(r) PROVE IInv'
<1>1. /\ run \in [Run -> RunState] /\ run[r] \in RunState /\ Relies(run[r]) /\ run[r].pc = "fetch"
      /\ UNCHANGED <<source, saved, tree, faults>> /\ cached \in [Version -> Condition]
  BY AtWork DEF Fetch, At
<1>2. /\ run'[r].pc = "check" /\ run'[r].lock = run[r].lock /\ run'[r].excuses = run[r].excuses
  BY <1>1 DEF Fetch, Goes, RunState
<1>3. Relies(run[r])'
  BY <1>1, <1>2 DEF Relies, Fits, Settled, Builds, Phases
<1>4. cached' \in [Version -> Condition]
  BY <1>1 DEF Fetch, Condition
<1>5. QED
  BY <1>1, <1>3, <1>4, Going, AtWork DEF Fetch, At, Phases

\* Nobody else moves the tree of a run that is alone.
LEMMA MoveAsideStep == ASSUME IInv, NEW r \in Run, MoveAside(r) PROVE IInv'
<1>1. /\ run \in [Run -> RunState] /\ run[r] \in RunState /\ Relies(run[r]) /\ run[r].pc = "move"
      /\ UNCHANGED <<source, saved, cached, faults>> /\ tree \in [Lock -> Condition]
      /\ run[r].lock \in Lock
  BY AtWork, Holds DEF MoveAside, At, Settled, Phases, Builds
<1>2. CASE tree' = [tree EXCEPT ![LockOf(r)] = "none"] /\ Goes(r, "install")
  <2>1. /\ run'[r].pc = "install" /\ run'[r].lock = run[r].lock
        /\ run'[r].excuses = run[r].excuses
    BY <1>1, <1>2 DEF Goes, RunState
  <2>2. tree' \in [Lock -> Condition] /\ tree'[run[r].lock] = "none"
        /\ \A l \in Lock : tree'[l] = "damaged" => tree[l] = "damaged"
    BY <1>1, <1>2 DEF Condition, LockOf
  <2>3. Relies(run[r])'
    BY <1>1, <2>1, <2>2 DEF Relies, Fits, Settled, Builds, Phases
  <2>4. QED
    BY <1>1, <1>2, <2>2, <2>3, Going, AtWork DEF At, Phases
<1>3. CASE tree[LockOf(r)] = "none" /\ UNCHANGED tree /\ Fails(r)
  BY <1>1, <1>3, Failing DEF Relies, LockOf, At
<1>4. QED
  BY <1>2, <1>3 DEF MoveAside

LEMMA InstallStep == ASSUME IInv, NEW r \in Run, Install(r) PROVE IInv'
<1>1. /\ run \in [Run -> RunState] /\ run[r] \in RunState /\ Relies(run[r]) /\ run[r].pc = "install"
      /\ UNCHANGED <<source, saved, cached, faults>> /\ tree \in [Lock -> Condition]
      /\ run[r].lock \in Lock
  BY AtWork, Holds DEF Install, At, Settled, Phases, Builds
<1>2. CASE Goes(r, "enter") /\ \/ tree' = [tree EXCEPT ![LockOf(r)] = "whole"]
                               \/ tree[LockOf(r)] = "whole" /\ UNCHANGED tree
  <2>1. /\ run'[r].pc = "enter" /\ run'[r].lock = run[r].lock
        /\ run'[r].excuses = run[r].excuses
    BY <1>1, <1>2 DEF Goes, RunState
  <2>2. tree' \in [Lock -> Condition] /\ tree'[run[r].lock] = "whole"
        /\ \A l \in Lock : tree'[l] = "damaged" => tree[l] = "damaged"
    BY <1>1, <1>2 DEF Condition, LockOf
  <2>3. Relies(run[r])'
    BY <1>1, <2>1, <2>2 DEF Relies, Fits, Settled, Builds, Phases
  <2>4. QED
    BY <1>1, <1>2, <2>2, <2>3, Going, AtWork DEF At, Phases
<1>3. CASE tree[LockOf(r)] # "none" /\ UNCHANGED tree /\ Fails(r)
  BY <1>1, <1>3, Failing DEF Relies, LockOf, At
<1>4. QED
  BY <1>2, <1>3 DEF Install

\* The lock the container reads is the one the run has made sure of, unless the
\* source was edited.
LEMMA EnterStep == ASSUME IInv, NEW r \in Run, Enter(r) PROVE IInv'
<1>1. /\ run \in [Run -> RunState] /\ run[r] \in RunState /\ Relies(run[r]) /\ Outcome(run[r])
      /\ run[r].pc = "enter" /\ source \in Source
      /\ UNCHANGED <<source, saved, cached, tree, faults>>
  BY AtWork DEF Enter, At
<1>2. CASE saved # None /\ Fits(saved, source) /\ Enters(r)
  <2>1. saved \in Document /\ saved.go = Resolved(source) /\ saved.go \in Lock
    BY <1>2, AtWork DEF Fits, Document
  <2>2. PICK b \in Built : b = [sources |-> {}, lock |-> saved.go, trees |-> {}]
    BY <2>1 DEF Built
  <2>3. PICK s \in RunState :
          s = [run[r] EXCEPT !.pc = "arm", !.lock = saved.go, !.own = source, !.built = b]
    BY <1>1, <2>1, <2>2 DEF RunState, Phases, Builds
  <2>4. run' = [run EXCEPT ![r] = s] /\ run'[r] = s
    BY <1>1, <1>2, <2>2, <2>3 DEF Enters
  <2>5. /\ s.pc = "arm" /\ s.lock = saved.go /\ s.own = source
        /\ s.excuses = run[r].excuses /\ s.verdict = run[r].verdict
        /\ s.built = b /\ b.sources = {} /\ b.trees = {} /\ b.lock = saved.go
    BY <1>1, <2>2, <2>3 DEF RunState
  <2>6. Outcome(s) /\ Sound(s)
    BY <1>1, <2>5 DEF Outcome, Sound
  <2>7. Relies(run[r])'
    BY <1>1, <1>2, <2>1, <2>2, <2>4, <2>5, <2>6 DEF Relies, Fits, Resolved, Builds, Settled, Phases
  <2>8. QED
    BY <1>1, <2>4, <2>5, <2>6, <2>7, Advances, AtWork DEF At
<1>3. CASE ~(saved # None /\ Fits(saved, source)) /\ Fails(r)
  BY <1>1, <1>3, Failing DEF Relies, At, Settled, Phases, Builds
<1>4. QED
  BY <1>2, <1>3 DEF Enter

\* A build adds a source that requires the lock, if the checkout is what the
\* container validated, and a tree that is whole, if the run has made sure of it.
LEMMA CompileStep == ASSUME IInv, NEW r \in Run, Compile(r) PROVE IInv'
<1>1. /\ run \in [Run -> RunState] /\ run[r] \in RunState /\ Relies(run[r]) /\ Outcome(run[r])
      /\ run[r].pc \in Builds /\ source \in Source /\ run[r].own \in Source
      /\ tree \in [Lock -> Condition] /\ run[r].lock \in Lock
      /\ UNCHANGED <<source, saved, cached, tree, faults>>
  BY AtWork DEF Compile, Relies, Builds
<1>2. run[r].pc \in Phases \ {"idle", "prepare"}
  BY <1>1 DEF Builds, Phases
<1>3. PICK x \in {source, run[r].own} :
        LET t == tree[LockOf(r)]
            b == [run[r].built EXCEPT !.sources = @ \cup {x}, !.trees = @ \cup {t}] IN
        IF t = "none" \/ x.go > LockOf(r).version THEN Fails(r)
        ELSE IF At(r, "native")
        THEN run' = [run EXCEPT ![r] = [Ended(@, "built") EXCEPT !.built = b]]
        ELSE run' = [run EXCEPT ![r].pc = NextBuild[@], ![r].built = b]
  BY DEF Compile
<1>4. CASE (tree[LockOf(r)] = "none" \/ x.go > LockOf(r).version) /\ Fails(r)
  <2>1. run[r].excuses # {}
    <3> SUFFICES ASSUME run[r].excuses = {} PROVE FALSE
      OBVIOUS
    <3>1. tree[LockOf(r)] = "whole" /\ x = source /\ LockOf(r) = Resolved(source)
      BY <1>1 DEF Relies, LockOf
    <3>2. LockOf(r).version = Newest(source)
      BY <3>1 DEF Resolved
    <3>3. x.go \in Nat /\ Newest(source) \in Nat
      BY <1>1, <3>1, NewestType, ToolchainAssumption DEF Requirements
    <3>4. x.go <= Newest(source)
      BY <1>1, <3>1, NewestIsAbove
    <3> QED BY <1>4, <3>1, <3>2, <3>3, <3>4
  <2>2. QED
    BY <1>1, <1>2, <1>4, <2>1, Failing DEF At
<1>5. CASE ~(tree[LockOf(r)] = "none" \/ x.go > LockOf(r).version)
  <2>1. run[r].built \in Built /\ x \in Source /\ tree[LockOf(r)] \in Condition
    BY <1>1 DEF Relies, RunState, LockOf
  <2>2. PICK b \in Built :
          b = [run[r].built EXCEPT !.sources = @ \cup {x}, !.trees = @ \cup {tree[LockOf(r)]}]
    BY <2>1 DEF Built
  <2>3. /\ b.lock = run[r].lock /\ b.sources = run[r].built.sources \cup {x}
        /\ b.trees = run[r].built.trees \cup {tree[LockOf(r)]}
    BY <1>1, <2>1, <2>2 DEF Relies, Built
  <2>4. "edited" \notin run[r].excuses => tree[LockOf(r)] = "whole"
    BY <1>1, <1>5, <2>1 DEF Relies, LockOf, Condition
  <2>5. "overtaken" \notin run[r].excuses => b.lock = Resolved(x)
    BY <1>1, <2>3 DEF Relies
  <2>6. ASSUME NEW s \in RunState, s.built = b, s.excuses = run[r].excuses,
               s.verdict \in {run[r].verdict, "built"}
        PROVE  Outcome(s) /\ Sound(s)
    <3>1. Sound(run[r]) /\ run[r].built.lock = b.lock
      BY <1>1, <2>3 DEF Relies
    <3>2. Sound(s)
      BY <2>3, <2>4, <2>5, <2>6, <3>1 DEF Sound
    <3>3. s.verdict = "failed" => s.excuses # {}
      BY <1>1, <2>6 DEF Outcome
    <3> QED BY <3>2, <3>3 DEF Outcome
  <2>7. CASE At(r, "native")
    <3>1. PICK s \in RunState : s = [Ended(run[r], "built") EXCEPT !.built = b]
      BY <1>1 DEF Ended, RunState, Phases, Builds
    <3>2. run' = [run EXCEPT ![r] = s] /\ run'[r] = s
      BY <1>1, <1>3, <1>5, <2>2, <2>7, <3>1
    <3>3. s.pc = "idle" /\ s.excuses = run[r].excuses /\ s.built = b /\ s.verdict = "built"
      BY <1>1, <3>1 DEF Ended, RunState
    <3>4. Outcome(s) /\ Relies(run[r])'
      BY <2>6, <3>2, <3>3 DEF Relies, Builds, Settled
    <3>5. QED
      BY <1>1, <1>2, <3>2, <3>3, <3>4, Advances, AtWork DEF At
  <2>8. CASE ~At(r, "native")
    <3>1. NextBuild[run[r].pc] \in Builds
      BY <1>1, <2>8 DEF NextBuild, Builds, At
    <3>2. PICK s \in RunState : s = [run[r] EXCEPT !.pc = NextBuild[run[r].pc], !.built = b]
      BY <1>1, <3>1 DEF RunState, Phases
    <3>3. run' = [run EXCEPT ![r] = s] /\ run'[r] = s
      BY <1>1, <1>3, <1>5, <2>2, <2>8, <3>2
    <3>4. /\ s.pc \in Builds /\ s.lock = run[r].lock /\ s.own = run[r].own
          /\ s.excuses = run[r].excuses /\ s.built = b /\ s.verdict = run[r].verdict
      BY <1>1, <3>1, <3>2 DEF RunState
    <3>5. Outcome(s) /\ Sound(s)
      BY <2>6, <3>4
    <3>6. Relies(run[r])'
      BY <1>1, <2>2, <2>3, <3>3, <3>4, <3>5 DEF Relies, Builds, Settled, Phases, Resolved, Fits
    <3>7. QED
      BY <1>1, <1>2, <3>3, <3>4, <3>5, <3>6, Advances, AtWork DEF At
  <2>9. QED
    BY <2>7, <2>8
<1>6. QED
  BY <1>3, <1>4, <1>5

\* The end of a run that was only to prepare, and of one that breaks off.
LEMMA EndStep == ASSUME IInv, NEW r \in Run, Return(r) \/ Abort(r) PROVE IInv'
<1>1. /\ run \in [Run -> RunState] /\ run[r] \in RunState /\ Outcome(run[r])
      /\ run[r].pc # "idle" /\ UNCHANGED <<source, saved, cached, tree>>
      /\ faults' \in 0 .. MaxFaults
  BY AtWork, ToolchainAssumption DEF Return, Abort, Faulty, At
<1>2. CASE Return(r)
  <2>1. PICK s \in RunState : s = Ended(run[r], "none")
    BY <1>1 DEF Ended, RunState, Phases, Builds
  <2>2. s.pc = "idle" /\ s.excuses = run[r].excuses /\ s.built = run[r].built /\ s.verdict = "none"
    BY <1>1, <2>1 DEF Ended, RunState
  <2>3. run' = [run EXCEPT ![r] = s] /\ run'[r] = s
    BY <1>1, <1>2, <2>1 DEF Return
  <2>4. Outcome(s) /\ Relies(run[r])'
    BY <1>1, <2>2, <2>3 DEF Outcome, Sound, Relies, Builds, Settled
  <2>5. QED
    BY <1>1, <2>2, <2>3, <2>4, Advances, AtWork DEF At
<1>3. CASE Abort(r)
  <2>1. PICK s \in RunState : s = [Ended(run[r], "failed") EXCEPT
                                     !.built = None, !.excuses = run[r].excuses \cup {"killed"}]
    BY <1>1 DEF Ended, RunState, Phases, Builds, Excuses
  <2>2. s.pc = "idle" /\ s.excuses # {} /\ s.built = None
    BY <1>1, <2>1 DEF Ended, RunState
  <2>3. run' = [run EXCEPT ![r] = s] /\ run'[r] = s
    BY <1>1, <1>3, <2>1 DEF Abort
  <2>4. Outcome(s) /\ Relies(run[r])'
    BY <2>2, <2>3 DEF Outcome, Sound, Relies, Builds, Settled
  <2>5. QED
    BY <1>1, <2>2, <2>3, <2>4, Advances, AtWork DEF At
<1>4. QED
  BY <1>2, <1>3

-----------------------------------------------------------------------------
(* What happens to the runs and around them *)

\* A run that starts without an excuse is alone.
LEMMA StartStep == ASSUME IInv, NEW r \in Run, Start(r) PROVE IInv'
<1>1. run \in [Run -> RunState] /\ run[r].pc = "idle"
      /\ UNCHANGED <<source, saved, cached, tree, faults>>
  BY AtWork DEF Start, At
<1> DEFINE reasons == {e \in Excuses : \/ e = "refused" /\ Unbuildable
                                       \/ e = "company" /\ ~Quiet}
<1>2. PICK s \in RunState :
        s = [run[r] EXCEPT !.pc = "prepare", !.verdict = "none", !.built = None,
                           !.excuses = reasons]
  BY <1>1 DEF RunState, Phases, Builds
<1>3. /\ s.pc = "prepare" /\ s.verdict = "none" /\ s.built = None
      /\ s.excuses = {} => Quiet /\ ~Unbuildable
      /\ "company" \notin s.excuses => Quiet
  BY <1>1, <1>2 DEF RunState, Excuses
<1> HIDE DEF reasons
<1>4. run' = [q \in Run |-> IF q = r THEN s ELSE Excused(q, {"company"})]
  BY <1>2 DEF Start, reasons
<1>5. ASSUME NEW q \in Run, q # r
      PROVE  /\ Excused(q, {"company"}) \in RunState /\ run'[q] = Excused(q, {"company"})
             /\ run'[q].pc = run[q].pc /\ run'[q].lock = run[q].lock
             /\ run'[q].own = run[q].own /\ run'[q].built = run[q].built
             /\ run'[q].verdict = run[q].verdict
             /\ run[q].excuses \subseteq run'[q].excuses
             /\ run[q].pc = "idle" => run'[q] = run[q]
             /\ run[q].pc # "idle" => "company" \in run'[q].excuses
  BY <1>1, <1>4, <1>5 DEF Excused, RunState, Excuses, At
<1>6. run'[r] = s /\ run' \in [Run -> RunState]
  BY <1>4, <1>5
<1>7. TypeOK'
  BY <1>1, <1>6 DEF IInv, TypeOK
<1>8. Company'
  <2> SUFFICES ASSUME NEW p \in Run, NEW q \in Run, p # q,
                      run'[p].pc # "idle", run'[q].pc # "idle"
               PROVE  "company" \in run'[p].excuses
    BY DEF Company, At
  <2>1. CASE p = r
    BY <1>3, <1>5, <1>6, <2>1 DEF Quiet, At
  <2>2. CASE p # r
    BY <1>5, <2>2
  <2>3. QED
    BY <2>1, <2>2
<1>9. ASSUME NEW q \in Run PROVE (Relies(run[q]) /\ Outcome(run[q]))'
  <2>1. CASE q = r
    BY <1>1, <1>3, <1>6, <2>1 DEF Relies, Outcome, Sound, Unbuildable, Fits, Builds, Settled
  <2>2. CASE q # r
    BY <1>1, <1>5, <2>2 DEF IInv, Relies, Outcome, Sound, Builds, Settled
  <2>3. QED
    BY <2>1, <2>2
<1>10. QED
  BY <1>7, <1>8, <1>9 DEF IInv

\* An edit gives every run at work an excuse.
LEMMA EditStep == ASSUME IInv, Edit PROVE IInv'
<1>1. /\ run \in [Run -> RunState] /\ source' \in Source /\ faults' \in 0 .. MaxFaults
      /\ UNCHANGED <<saved, cached, tree>>
  BY ToolchainAssumption DEF IInv, TypeOK, Edit, Faulty
<1> DEFINE why(q) == {"edited"} \cup {e \in {"outdated"} : At(q, "replace")} \cup
                       {e \in {"overtaken"} : run[q].pc \in Builds}
<1>2. ASSUME NEW q \in Run
      PROVE  /\ Excused(q, why(q)) \in RunState /\ run'[q] = Excused(q, why(q))
             /\ run'[q].pc = run[q].pc /\ run'[q].lock = run[q].lock
             /\ run'[q].own = run[q].own /\ run'[q].built = run[q].built
             /\ run'[q].verdict = run[q].verdict
             /\ run[q].excuses \subseteq run'[q].excuses
             /\ run[q].pc = "idle" => run'[q] = run[q]
             /\ run[q].pc # "idle" => "edited" \in run'[q].excuses
             /\ run[q].pc = "replace" => "outdated" \in run'[q].excuses
             /\ run[q].pc \in Builds => "overtaken" \in run'[q].excuses
  <2>1. run[q] \in RunState /\ why(q) \in SUBSET Excuses
    BY <1>1 DEF Excuses
  <2>2. run'[q] = Excused(q, why(q))
    BY DEF Edit
  <2>3. run[q].pc \in Builds => run[q].pc # "idle"
    BY DEF Builds
  <2>4. QED
    BY <2>1, <2>2, <2>3 DEF Excused, RunState, At
<1>3. run' \in [Run -> RunState]
  BY <1>2 DEF Edit
<1>4. TypeOK'
  BY <1>1, <1>3 DEF IInv, TypeOK
<1>5. Company'
  BY <1>2 DEF IInv, Company, At
<1>6. ASSUME NEW q \in Run PROVE (Relies(run[q]) /\ Outcome(run[q]))'
  BY <1>1, <1>2 DEF IInv, Relies, Outcome, Sound, Builds, Settled
<1>7. QED
  BY <1>4, <1>5, <1>6 DEF IInv

\* When all runs rest, the invariant says nothing of locks, archives and trees.
LEMMA RestStep == ASSUME IInv, Bring \/ Damage PROVE IInv'
<1>1. Quiet /\ UNCHANGED <<source, run>> /\ faults' \in 0 .. MaxFaults
  BY ToolchainAssumption DEF IInv, TypeOK, Bring, Damage, Faulty
<1>2. /\ saved' \in Document \cup {None} /\ cached' \in [Version -> Condition]
      /\ tree' \in [Lock -> Condition]
  BY DEF IInv, TypeOK, Bring, Damage, Condition
<1>3. TypeOK'
  BY <1>1, <1>2 DEF IInv, TypeOK
<1>4. Company'
  BY <1>1 DEF IInv, Company, At
<1>5. ASSUME NEW q \in Run PROVE (Relies(run[q]) /\ Outcome(run[q]))'
  BY <1>1 DEF IInv, Relies, Outcome, Sound, Quiet, At, Builds, Settled
<1>6. QED
  BY <1>3, <1>4, <1>5 DEF IInv

LEMMA InitInvariant == Init => IInv
<1> SUFFICES ASSUME Init PROVE IInv
  OBVIOUS
<1>1. ASSUME NEW r \in Run
      PROVE run[r] \in RunState /\ run[r].pc = "idle" /\ run[r].built = None
            /\ run[r].verdict = "none"
  BY <1>1 DEF Init, RunState, Phases, Builds
<1>2. run \in [Run -> RunState]
  BY <1>1 DEF Init
<1>3. TypeOK
  <2>1. cached \in [Version -> Condition] /\ tree \in [Lock -> Condition]
    BY DEF Init, Condition
  <2>2. source \in Source /\ saved \in Document \cup {None} /\ faults \in 0 .. MaxFaults
    BY ToolchainAssumption DEF Init
  <2>3. QED
    BY <1>2, <2>1, <2>2 DEF TypeOK
<1>4. QED
  BY <1>1, <1>3 DEF IInv, Company, Relies, Outcome, Sound, At, Builds, Settled

LEMMA StepInvariant == IInv /\ [Next]_vars => IInv'
<1> SUFFICES ASSUME IInv, [Next]_vars PROVE IInv'
  OBVIOUS
<1>1. ASSUME NEW r \in Run, Steps(r) \/ Start(r) \/ Abort(r) PROVE IInv'
  BY <1>1, StartStep, PrepareStep, ValidateStep, ReplaceStep, EndStep, LookStep, FetchStep,
     MoveAsideStep, InstallStep, EnterStep, CompileStep DEF Steps
<1>2. CASE Edit
  BY <1>2, EditStep
<1>3. CASE Bring \/ Damage
  BY <1>3, RestStep
<1>4. CASE UNCHANGED vars
  <2>1. TypeOK' /\ Company'
    BY <1>4 DEF vars, IInv, TypeOK, Company, At
  <2>2. ASSUME NEW r \in Run PROVE (Relies(run[r]) /\ Outcome(run[r]))'
    BY <1>4 DEF vars, IInv, Relies, Outcome, Sound, Unbuildable, Fits
  <2>3. QED
    BY <2>1, <2>2 DEF IInv
<1>5. QED
  BY <1>1, <1>2, <1>3, <1>4 DEF Next

\* The invariant holds in every state of every behaviour.
THEOREM Invariant == Spec => []IInv
BY InitInvariant, StepInvariant, PTL DEF Spec

-----------------------------------------------------------------------------
(* What follows *)

\* Every variable keeps its type, for all runs, versions and sources.
THEOREM TypeCorrect == Spec => []TypeOK
<1>1. IInv => TypeOK
  BY DEF IInv
<1>2. QED
  BY <1>1, Invariant, PTL

\* Every source that was compiled, in each of the three builds, was compiled by
\* the lock it requires unless it was edited while the container was at work, and
\* by an undamaged tree unless it was edited at all.
THEOREM BuildsAreSound == Spec => []SoundBuild
<1>1. IInv => SoundBuild
  BY DEF IInv, Outcome, Sound, SoundBuild
<1>2. QED
  BY <1>1, Invariant, PTL

\* Nothing that earlier runs left behind makes an undisturbed run fail.
THEOREM UndisturbedSucceed == Spec => []UndisturbedBuilds
<1>1. IInv => UndisturbedBuilds
  BY DEF IInv, Outcome, UndisturbedBuilds
<1>2. QED
  BY <1>1, Invariant, PTL

\* Only a run whose source was edited between its validation and its rename
\* replaces a lock that fits the source: any other saves one that fits as well,
\* and there is only one that does.
THEOREM FittingLocksStay == Spec => FittingLockStays
<1>1. IInv /\ [Next]_vars =>
        [saved # None /\ Fits(saved, source) /\ ~Bring =>
           \/ saved' = saved
           \/ \E r \in Run : /\ At(r, "replace") /\ At(r, "archive")'
                             /\ "outdated" \in run[r].excuses]_vars
  <2> SUFFICES ASSUME IInv, Next, saved # None, Fits(saved, source), ~Bring
               PROVE  \/ saved' = saved
                      \/ \E r \in Run : /\ At(r, "replace") /\ At(r, "archive")'
                                        /\ "outdated" \in run[r].excuses
    OBVIOUS
  <2>1. ASSUME NEW r \in Run, Replace(r), "outdated" \notin run[r].excuses
        PROVE  saved' = saved
    <3>1. run[r].lock \in Lock /\ run[r].lock = Resolved(source)
      BY <2>1, AtWork DEF Replace, At, Relies
    <3>2. Chosen(r) \in Document /\ Fits(Chosen(r), source)
      BY <3>1, ChosenIs, AtWork
    <3>3. saved' = Chosen(r) /\ saved \in Document /\ source \in Source
      BY <2>1, AtWork DEF Replace
    <3>4. QED
      BY <3>2, <3>3, FitsOnce
  <2>2. ASSUME NEW r \in Run, Replace(r)
        PROVE  At(r, "replace") /\ At(r, "archive")'
    BY <2>2, AtWork DEF Replace, Goes, At, RunState
  <2>3. (\E r \in Run : Replace(r)) \/ saved' = saved
    BY DEF Next, Start, Steps, Abort, Edit, Damage, Prepare, Validate, Return, CheckArchive,
       Fetch, CheckTree, Extract, CheckAgain, Exists, MoveAside, Install, Enter, Compile
  <2>4. QED
    BY <2>1, <2>2, <2>3
<1>2. QED
  BY <1>1, Invariant, PTL DEF Spec, FittingLockStays

-----------------------------------------------------------------------------
(* The steps a run has left, and what it has done at its end *)

StepsFrom ==
  [idle |-> 0, native |-> 1, arm64 |-> 2, arm |-> 3, enter |-> 4, install |-> 5, move |-> 6,
   exists |-> 7, again |-> 8, extract |-> 9, check |-> 10, fetch |-> 11, archive |-> 12,
   replace |-> 13, validate |-> 14, prepare |-> 15]

StepsLeft(r) == StepsFrom[run[r].pc]

\* Each step of a run brings it nearer to its end, and nobody else sends it back:
\* what it finds changed it never tries again (toolchain.py:187-226,
\* build_helper.py:56-120).
RunsEnd ==
  [][\A r \in Run : /\ Steps(r) => StepsLeft(r)' < StepsLeft(r)
                    /\ ~At(r, "idle") => StepsLeft(r)' <= StepsLeft(r)]_vars

\* A run that nothing disturbed ends with what it was for: built from the source as
\* it is, by an undamaged toolchain of the required version, or, with
\* --prepare-toolchain, with a lock that fits (build_helper.py:56-75, 113-116).
RunsDeliver ==
  [][\A r \in Run :
       ~At(r, "idle") /\ At(r, "idle")' /\ run'[r].excuses = {} =>
         \/ /\ run'[r].verdict = "built"
            /\ run'[r].built =
                 [sources |-> {source}, lock |-> Resolved(source), trees |-> {"whole"}]
         \/ run'[r].verdict = "none" /\ saved # None /\ Fits(saved, source)]_vars

LEMMA StepsFromIs ==
  /\ StepsFrom["idle"] = 0 /\ StepsFrom["native"] = 1 /\ StepsFrom["arm64"] = 2
  /\ StepsFrom["arm"] = 3 /\ StepsFrom["enter"] = 4 /\ StepsFrom["install"] = 5
  /\ StepsFrom["move"] = 6 /\ StepsFrom["exists"] = 7 /\ StepsFrom["again"] = 8
  /\ StepsFrom["extract"] = 9 /\ StepsFrom["check"] = 10 /\ StepsFrom["fetch"] = 11
  /\ StepsFrom["archive"] = 12 /\ StepsFrom["replace"] = 13 /\ StepsFrom["validate"] = 14
  /\ StepsFrom["prepare"] = 15
BY DEF StepsFrom

\* Where a step takes a run; what Return and Compile leave is said below.
LEMMA Moved ==
  ASSUME IInv, NEW r \in Run, Steps(r)
  PROVE  /\ ~At(r, "idle") /\ StepsLeft(r)' < StepsLeft(r)
         /\ \A q \in Run : q # r => run'[q] = run[q]
         /\ At(r, "idle")' => Return(r) \/ Compile(r) \/ Fails(r)
<1> DEFINE here == run[r].pc
           there == run'[r].pc
           alone == \A q \in Run : q # r => run'[q] = run[q]
<1>0. run \in [Run -> RunState] /\ run[r] \in RunState
  BY DEF IInv, TypeOK
<1>1. \A w : Goes(r, w) => there = w /\ alone
  BY <1>0 DEF Goes, RunState
<1>2. \A v : /\ Ended(run[r], v).pc = "idle"
             /\ \A x : [Ended(run[r], v) EXCEPT !.built = x].pc = "idle"
  BY <1>0 DEF Ended, RunState
<1>3. Fails(r) => there = "idle" /\ alone
  BY <1>0, <1>2 DEF Fails
<1>4. CASE Prepare(r)
  <2>1. ASSUME NEW w, NEW l, run' = [run EXCEPT ![r].pc = w, ![r].lock = l]
        PROVE  there = w /\ alone
    BY <1>0, <2>1 DEF RunState
  <2>2. CASE Fails(r)
    BY <1>3, <1>4, <2>2, StepsFromIs DEF Prepare, At, StepsLeft
  <2>3. CASE \E w \in {"archive", "validate"} : \E l :
                run' = [run EXCEPT ![r].pc = w, ![r].lock = l]
    <3>1. At(r, "prepare") /\ there \in {"archive", "validate"} /\ alone
      BY <1>4, <2>1, <2>3 DEF Prepare
    <3> QED BY <3>1, StepsFromIs DEF At, StepsLeft
  <2> QED BY <1>4, <2>2, <2>3 DEF Prepare
<1>5. CASE Validate(r) \/ Replace(r)
  <2>1. /\ \/ At(r, "validate") /\ (there = "replace" \/ (there = "idle" /\ Fails(r)))
           \/ At(r, "replace") /\ there = "archive"
        /\ alone
    BY <1>1, <1>3, <1>5 DEF Validate, Replace
  <2> QED BY <2>1, StepsFromIs DEF At, StepsLeft
<1>6. CASE Return(r)
  <2>1. At(r, "archive") /\ there = "idle" /\ alone
    BY <1>0, <1>2, <1>6 DEF Return
  <2> QED BY <1>6, <2>1, StepsFromIs DEF At, StepsLeft
<1>7. CASE CheckArchive(r)
  <2>1. At(r, "archive") /\ there \in {"check", "fetch"} /\ alone
    BY <1>1, <1>7 DEF CheckArchive
  <2> QED BY <2>1, StepsFromIs DEF At, StepsLeft
<1>8. CASE Fetch(r) \/ Extract(r)
  <2>1. /\ \/ At(r, "fetch") /\ there = "check"
           \/ At(r, "extract") /\ there = "again"
        /\ alone
    BY <1>1, <1>8 DEF Fetch, Extract
  <2> QED BY <2>1, StepsFromIs DEF At, StepsLeft
<1>9. CASE CheckTree(r)
  <2>1. At(r, "check") /\ there \in {"enter", "extract"} /\ alone
    BY <1>1, <1>9 DEF CheckTree
  <2> QED BY <2>1, StepsFromIs DEF At, StepsLeft
<1>10. CASE CheckAgain(r)
  <2>1. At(r, "again") /\ there \in {"enter", "exists"} /\ alone
    BY <1>1, <1>10 DEF CheckAgain
  <2> QED BY <2>1, StepsFromIs DEF At, StepsLeft
<1>11. CASE Exists(r)
  <2>1. At(r, "exists") /\ there \in {"install", "move"} /\ alone
    BY <1>1, <1>11 DEF Exists
  <2> QED BY <2>1, StepsFromIs DEF At, StepsLeft
<1>12. CASE MoveAside(r)
  <2>1. At(r, "move") /\ alone /\ (there = "install" \/ (there = "idle" /\ Fails(r)))
    BY <1>1, <1>3, <1>12 DEF MoveAside
  <2> QED BY <2>1, StepsFromIs DEF At, StepsLeft
<1>13. CASE Install(r)
  <2>1. At(r, "install") /\ alone /\ (there = "enter" \/ (there = "idle" /\ Fails(r)))
    BY <1>1, <1>3, <1>13 DEF Install
  <2> QED BY <2>1, StepsFromIs DEF At, StepsLeft
<1>14. CASE Enter(r)
  <2>1. Enters(r) => there = "arm" /\ alone
    BY <1>0 DEF Enters, RunState
  <2>2. At(r, "enter") /\ alone /\ (there = "arm" \/ (there = "idle" /\ Fails(r)))
    BY <1>3, <1>14, <2>1 DEF Enter
  <2> QED BY <2>2, StepsFromIs DEF At, StepsLeft
<1>15. CASE Compile(r)
  <2>1. ASSUME NEW b, run' = [run EXCEPT ![r] = [Ended(@, "built") EXCEPT !.built = b]]
        PROVE  there = "idle" /\ alone
    BY <1>0, <1>2, <2>1
  <2>2. ASSUME NEW b, run' = [run EXCEPT ![r].pc = NextBuild[@], ![r].built = b]
        PROVE  there = NextBuild[here] /\ alone
    BY <1>0, <2>2 DEF RunState
  <2>3. /\ here \in Builds /\ alone
        /\ there = "idle" \/ (~At(r, "native") /\ there = NextBuild[here])
    BY <1>3, <1>15, <2>1, <2>2 DEF Compile
  <2>4. NextBuild["arm"] = "arm64" /\ NextBuild["arm64"] = "native"
    BY DEF NextBuild
  <2> QED BY <1>15, <2>3, <2>4, StepsFromIs DEF At, StepsLeft, Builds
<1> QED
  BY <1>4, <1>5, <1>6, <1>7, <1>8, <1>9, <1>10, <1>11, <1>12, <1>13, <1>14, <1>15 DEF Steps

\* What the others leave of a run at work.
LEMMA OthersLeave ==
  ASSUME IInv, [Next]_vars, NEW r \in Run, ~At(r, "idle"), ~Steps(r)
  PROVE  \/ run'[r].pc = run[r].pc
         \/ Abort(r)
<1>0. run \in [Run -> RunState] /\ run[r] \in RunState
  BY DEF IInv, TypeOK
<1>1. \A e : Excused(r, e).pc = run[r].pc
  BY <1>0 DEF Excused, RunState
<1>2. ASSUME NEW q \in Run, Steps(q) PROVE run'[r].pc = run[r].pc
  BY <1>2, Moved
<1>3. ASSUME NEW q \in Run, Start(q) PROVE run'[r].pc = run[r].pc
  BY <1>1, <1>3 DEF Start, At
<1>4. ASSUME NEW q \in Run, Abort(q), q # r PROVE run'[r].pc = run[r].pc
  BY <1>0, <1>4 DEF Abort
<1>5. CASE Edit
  BY <1>1, <1>5 DEF Edit
<1>6. CASE Bring \/ Damage \/ UNCHANGED vars
  BY <1>6 DEF Bring, Damage, vars
<1> QED BY <1>2, <1>3, <1>4, <1>5, <1>6 DEF Next

\* A run is over after at most fifteen of its steps, whoever else provisions the
\* same toolchain.
THEOREM EveryRunEnds == Spec => [](\A r \in Run : StepsLeft(r) \in 0 .. 15) /\ RunsEnd
<1>1. ASSUME IInv, NEW r \in Run PROVE StepsLeft(r) \in 0 .. 15
  <2>1. run[r].pc \in Phases
    BY <1>1 DEF IInv, TypeOK, RunState
  <2> QED BY <2>1, StepsFromIs DEF Phases, Builds, StepsLeft
<1>2. IInv => \A r \in Run : StepsLeft(r) \in 0 .. 15
  BY <1>1
<1>3. IInv /\ [Next]_vars =>
        [\A r \in Run : /\ Steps(r) => StepsLeft(r)' < StepsLeft(r)
                        /\ ~At(r, "idle") => StepsLeft(r)' <= StepsLeft(r)]_vars
  <2> SUFFICES ASSUME IInv, [Next]_vars, NEW r \in Run
               PROVE  /\ Steps(r) => StepsLeft(r)' < StepsLeft(r)
                      /\ ~At(r, "idle") => StepsLeft(r)' <= StepsLeft(r)
    OBVIOUS
  <2>1. StepsLeft(r) \in 0 .. 15 /\ StepsLeft(r)' \in 0 .. 15
    <3>1. IInv'
      BY StepInvariant
    <3>2. run'[r].pc \in Phases
      BY <3>1 DEF IInv, TypeOK, RunState
    <3> QED BY <1>1, <3>2, StepsFromIs DEF Phases, Builds, StepsLeft
  <2>2. Steps(r) => StepsLeft(r)' < StepsLeft(r)
    BY Moved
  <2>3. ASSUME ~At(r, "idle"), ~Steps(r) PROVE StepsLeft(r)' <= StepsLeft(r)
    <3>1. CASE run'[r].pc = run[r].pc
      <4>1. StepsLeft(r)' = StepsLeft(r)
        BY <3>1 DEF StepsLeft
      <4> QED BY <2>1, <4>1
    <3>2. CASE Abort(r)
      <4>1. run'[r].pc = "idle"
        BY <3>2 DEF Abort, Ended, IInv, TypeOK, RunState
      <4> QED BY <2>1, <4>1, StepsFromIs DEF StepsLeft
    <3> QED BY <2>3, <3>1, <3>2, OthersLeave
  <2> QED BY <2>1, <2>2, <2>3
<1> QED BY <1>2, <1>3, Invariant, PTL DEF Spec, RunsEnd

\* Whatever earlier runs have left, and with any number of runs, one that nothing
\* disturbs delivers.
THEOREM NoRunEndsInVain == Spec => RunsDeliver
<1>1. IInv /\ [Next]_vars =>
        [\A r \in Run :
           ~At(r, "idle") /\ At(r, "idle")' /\ run'[r].excuses = {} =>
             \/ /\ run'[r].verdict = "built"
                /\ run'[r].built =
                 [sources |-> {source}, lock |-> Resolved(source), trees |-> {"whole"}]
             \/ run'[r].verdict = "none" /\ saved # None /\ Fits(saved, source)]_vars
  <2> SUFFICES ASSUME IInv, [Next]_vars, NEW r \in Run,
                      ~At(r, "idle"), At(r, "idle")', run'[r].excuses = {}
               PROVE  \/ /\ run'[r].verdict = "built"
                         /\ run'[r].built =
                              [sources |-> {source}, lock |-> Resolved(source), trees |-> {"whole"}]
                      \/ run'[r].verdict = "none" /\ saved # None /\ Fits(saved, source)
    OBVIOUS
  <2>0. run \in [Run -> RunState] /\ run[r] \in RunState /\ Relies(run[r])
       /\ Outcome(run[r]) /\ Outcome(run[r])'
    BY StepInvariant DEF IInv, TypeOK
  <2>1. ASSUME Abort(r) PROVE FALSE
    <3> DEFINE e == Ended(run[r], "failed")
    <3>1. run'[r] = [e EXCEPT !.built = None, !.excuses = run[r].excuses \cup {"killed"}]
      BY <2>0, <2>1 DEF Abort
    <3>2. "excuses" \in DOMAIN e
      BY <2>0 DEF Ended, RunState
    <3> HIDE DEF e
    <3>3. run'[r].excuses = run[r].excuses \cup {"killed"}
      BY <3>1, <3>2
    <3> QED BY <3>3
  <2>2. ~Fails(r)
    <3>1. Fails(r) => run'[r].verdict = "failed"
      BY <2>0 DEF Fails, Ended, RunState
    <3> QED BY <2>0, <3>1 DEF Outcome, Sound
  <2>3. Steps(r)
    BY <2>1, OthersLeave DEF At
  <2>4. CASE Return(r)
    <3>1. run'[r] = Ended(run[r], "none")
      BY <2>0, <2>4 DEF Return
    <3>2. run[r].excuses = {} /\ run'[r].verdict = "none"
      BY <2>0, <3>1 DEF Ended, RunState
    <3> QED BY <2>0, <2>4, <3>2 DEF Return, At, Relies, Settled, Phases
  <2>5. CASE Compile(r)
    <3>1. PICK x \in {source, run[r].own} :
            LET t == tree[LockOf(r)]
                b == [run[r].built EXCEPT !.sources = @ \cup {x}, !.trees = @ \cup {t}] IN
            IF t = "none" \/ x.go > LockOf(r).version THEN Fails(r)
            ELSE IF At(r, "native")
            THEN run' = [run EXCEPT ![r] = [Ended(@, "built") EXCEPT !.built = b]]
            ELSE run' = [run EXCEPT ![r].pc = NextBuild[@], ![r].built = b]
      BY <2>5 DEF Compile
    <3> DEFINE b == [run[r].built EXCEPT !.sources = @ \cup {x},
                                         !.trees = @ \cup {tree[LockOf(r)]}]
    <3>2. (run[r].pc \in Builds /\ NextBuild[run[r].pc] # "idle") \/ At(r, "native")
      BY <2>5 DEF Compile, NextBuild, Builds, At
    <3>3. run' = [run EXCEPT ![r] = [Ended(@, "built") EXCEPT !.built = b]]
      <4>1. ASSUME NEW c, run' = [run EXCEPT ![r].pc = NextBuild[@], ![r].built = c]
            PROVE  run'[r].pc = NextBuild[run[r].pc]
        BY <2>0, <4>1 DEF RunState
      <4> QED BY <2>2, <3>1, <3>2, <4>1 DEF At
    <3>4. run'[r].excuses = run[r].excuses /\ run'[r].verdict = "built" /\ run'[r].built = b
      BY <2>0, <3>3 DEF Ended, RunState
    <3>5. run[r].pc \in Builds /\ run[r].excuses = {}
      BY <2>5, <3>4 DEF Compile
    <3>6. /\ run[r].built \in Built /\ run[r].built.lock = Resolved(source)
          /\ tree[LockOf(r)] = "whole" /\ x = source
      BY <2>0, <3>5 DEF Relies, LockOf, Builds
    <3>7. run[r].built.sources \subseteq {source} /\ run[r].built.trees \subseteq {"whole"}
      <4>1. Sound(run[r])
        BY <2>0, <3>5 DEF Relies
      <4>2. /\ \A y \in run[r].built.sources : run[r].built.lock = Resolved(y)
            /\ run[r].built.trees \subseteq {"whole"}
        BY <3>5, <4>1 DEF Sound
      <4>3. \A y : Resolved(source) = Resolved(y) => y = source
        BY DEF Resolved
      <4> QED BY <3>6, <4>2, <4>3
    <3>8. b = [sources |-> {source}, lock |-> Resolved(source), trees |-> {"whole"}]
      <4>1. tree[LockOf(r)] \in Condition /\ x \in Source
        BY <2>0, <3>6 DEF Condition, RunState, IInv, TypeOK
      <4>2. PICK c \in Built : c = b
        BY <3>6, <4>1 DEF Built
      <4>3. /\ c.sources = run[r].built.sources \cup {x} /\ c.lock = run[r].built.lock
            /\ c.trees = run[r].built.trees \cup {tree[LockOf(r)]}
        BY <3>6, <4>2 DEF Built
      <4>4. c.sources = {source} /\ c.lock = Resolved(source) /\ c.trees = {"whole"}
        BY <3>6, <3>7, <4>3
      <4>5. c = [sources |-> c.sources, lock |-> c.lock, trees |-> c.trees]
        BY DEF Built
      <4> QED BY <4>2, <4>4, <4>5
    <3> QED BY <3>4, <3>8
  <2> QED BY <2>2, <2>3, <2>4, <2>5, Moved
<1> QED BY <1>1, Invariant, PTL DEF Spec, RunsDeliver
=============================================================================
