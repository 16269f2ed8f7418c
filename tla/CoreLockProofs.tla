--------------------------- MODULE CoreLockProofs ---------------------------
(***************************************************************************)
(* Proofs about CoreLock, for every set of commits, digests and recipes    *)
(* and every number of faults: types, sound locks, builds from the current *)
(* source, and rebuilding of what is published.                            *)
(*                                                                         *)
(* A run chooses its lock from a file and a release it has read, for a     *)
(* commit it was told of, and compiles much later.  The invariant keeps    *)
(* what each place knows of commit, pin, lock and tags (RunFits); that a   *)
(* release stays what a run has found rests on there being one uploader    *)
(* of a draft and on public releases never changing.                       *)
(*                                                                         *)
(* At the end what can be proved of progress: each step leaves fewer, and  *)
(* a workflow run without a fault sees to its end what was so when it      *)
(* started (Fresh), so that it publishes the core or meets one of the      *)
(* refusals the code makes on purpose.                                     *)
(***************************************************************************)
EXTENDS CoreLock, FiniteSetTheorems, TLAPS

Choosing == {"release", "file", "fetch"}
Held == {"save", "download", "compile"}
Publishing == {"publish", "upload", "undraft"}

\* What a machine in the state s knows of its commit and its locks.
LockFits(s) ==
  /\ s.pc \in {"tag"} \cup Choosing => s.text \in Text /\ s.commit \in Commit
  /\ s.pc \in Choosing =>
       s.commit \in s.tags /\ (PinOf[s.text] # None => s.commit = PinOf[s.text].commit)
  /\ s.pc \in Held \cup Publishing => s.lock \in Lock
  /\ s.pc \in Held => /\ s.text \in Text /\ s.lock.text = s.text
                      /\ s.given \/ s.lock.commit \in s.tags
  /\ s.pc = "compile" => s.source = s.lock.digest
  /\ \A l \in {s.found, s.signed, s.lock} \ {None} : Sound(l)

\* What it relies on of the releases.
ReleaseFits(s) ==
  /\ s.pc = "upload" => release[s.lock.build] = [stage |-> "half", lock |-> s.lock]
  /\ s.pc = "undraft" => release[s.lock.build].stage \in {"draft", "public"}
  /\ s.public # None =>
       s.text \in Text /\ release[BuildOf[s.text]] = [stage |-> "public", lock |-> s.public]

\* A workflow run that started from a public release goes by its lock.
PublicFits(m, s) ==
  m = "ci" /\ s.public # None =>
    /\ s.pc # "fetch"
    /\ s.pc = "file" => s.signed = s.public
    /\ s.pc \in Held => s.lock = s.public

RunFits(m, s) == LockFits(s) /\ ReleaseFits(s) /\ PublicFits(m, s)

OneUploader ==
  \A m, n \in Machine :
    At(m, "upload") /\ At(n, "upload") /\ run[m].lock.build = run[n].lock.build => m = n

IInv == TypeOK /\ SoundLocks /\ OneUploader /\ \A m \in Machine : RunFits(m, run[m])

-----------------------------------------------------------------------------
(* Steps of one machine *)

LEMMA AtWork ==
  ASSUME IInv, NEW m \in Machine
  PROVE  /\ run \in [Machine -> RunState] /\ run[m] \in RunState
         /\ LockFits(run[m]) /\ ReleaseFits(run[m]) /\ PublicFits(m, run[m])
BY DEF IInv, TypeOK, RunFits

\* How a step of m may change the releases that others rely on.
Respects(m) ==
  \A b \in Build :
    \/ release'[b] = release[b]
    \/ release[b].stage = "none"
    \/ At(m, "upload") /\ b = run[m].lock.build
    \/ /\ release[b].stage \in {"draft", "public"}
       /\ release'[b] = [stage |-> "public", lock |-> release[b].lock]

\* A step of one machine keeps the invariant when what it leaves is sound and its
\* new place knows what it has to.
LEMMA Advances ==
  ASSUME IInv, NEW m \in Machine, NEW s \in RunState,
         run' = [run EXCEPT ![m] = s],
         UNCHANGED <<tag, served, head>>,
         cache' \in [Text -> Lock \cup {None}], kept' \in [Text -> Lock \cup {None}],
         left' \in Lock \cup {None}, archive' \in [Commit -> Digest \cup {None}],
         release' \in [Build -> Release], faults' \in 0 .. MaxFaults,
         SoundLocks', Respects(m),
         LockFits(s), ReleaseFits(run[m])', PublicFits(m, s),
         s.pc = "upload" => s.lock.build \in Build /\ release[s.lock.build].stage = "none"
  PROVE  IInv'
<1>1. run \in [Machine -> RunState]
  BY DEF IInv, TypeOK
<1>2. /\ run' \in [Machine -> RunState] /\ run'[m] = s
      /\ \A n \in Machine : n # m => run'[n] = run[n]
  BY <1>1
<1>3. TypeOK'
  BY <1>2 DEF IInv, TypeOK
<1>4. OneUploader'
  <2> SUFFICES ASSUME NEW n \in Machine, NEW o \in Machine, n # o,
                      run'[n].pc = "upload", run'[o].pc = "upload",
                      run'[n].lock.build = run'[o].lock.build
               PROVE  FALSE
    BY DEF OneUploader, At
  <2>1. ASSUME NEW p \in Machine, p # m, run[p].pc = "upload" 
        PROVE  release[run[p].lock.build].stage = "half"
    <3>1. ReleaseFits(run[p])
      BY <2>1, AtWork
    <3>2. QED
      BY <2>1, <3>1 DEF ReleaseFits
  <2>2. CASE n = m
    BY <1>2, <2>1, <2>2
  <2>3. CASE o = m
    BY <1>2, <2>1, <2>3
  <2>4. CASE n # m /\ o # m
    BY <1>2, <2>4 DEF IInv, OneUploader, At
  <2>5. QED
    BY <2>2, <2>3, <2>4
<1>5. ASSUME NEW n \in Machine PROVE RunFits(n, run[n])'
  <2>1. CASE n = m
    <3>1. LockFits(run[n])' /\ PublicFits(n, run[n])'
      BY <1>2, <2>1 DEF LockFits, PublicFits
    <3>2. QED
      BY <2>1, <3>1 DEF RunFits
  <2>2. CASE n # m
    <3>0. At(m, "upload") => release[run[m].lock.build].stage = "half"
      <4>1. ReleaseFits(run[m])
        BY AtWork
      <4>2. QED
        BY <4>1 DEF ReleaseFits, At
    <3>1. /\ LockFits(run[n]) /\ ReleaseFits(run[n]) /\ PublicFits(n, run[n])
          /\ run'[n] = run[n]
      BY <1>2, <2>2, AtWork
    <3>2. LockFits(run[n])' /\ PublicFits(n, run[n])'
      BY <3>1 DEF LockFits, PublicFits
    <3>3. run[n].pc = "upload" =>
            release'[run[n].lock.build] = [stage |-> "half", lock |-> run[n].lock]
      BY <3>1, <2>2 DEF ReleaseFits, LockFits, Publishing, Lock, Respects, IInv, OneUploader, At
    <3>4. ASSUME run[n].pc = "undraft"
          PROVE  release'[run[n].lock.build].stage \in {"draft", "public"}
      <4> DEFINE b == run[n].lock.build
      <4>1. b \in Build
        BY <3>1, <3>4 DEF LockFits, Publishing, Lock
      <4>2. release[b].stage \in {"draft", "public"}
        BY <3>1, <3>4 DEF ReleaseFits
      <4>3. ~(At(m, "upload") /\ b = run[m].lock.build)
        BY <4>2, <3>0
      <4>4. \/ release'[b] = release[b]
            \/ release'[b] = [stage |-> "public", lock |-> release[b].lock]
        BY <4>1, <4>2, <4>3 DEF Respects
      <4>5. QED
        BY <4>2, <4>4
    <3>5. ASSUME run[n].public # None
          PROVE  release'[BuildOf[run[n].text]] = [stage |-> "public", lock |-> run[n].public]
      <4> DEFINE b == BuildOf[run[n].text]
      <4>1. b \in Build /\ release[b] = [stage |-> "public", lock |-> run[n].public]
        BY <3>1, <3>5 DEF ReleaseFits, Build
      <4>2. ~(At(m, "upload") /\ b = run[m].lock.build)
        BY <4>1, <3>0
      <4>3. \/ release'[b] = release[b]
            \/ release'[b] = [stage |-> "public", lock |-> release[b].lock]
        BY <4>1, <4>2 DEF Respects
      <4>4. QED
        BY <4>1, <4>3
    <3>6. QED
      BY <3>1, <3>2, <3>3, <3>4, <3>5 DEF ReleaseFits, RunFits
  <2>3. QED
    BY <2>1, <2>2
<1>6. QED
  BY <1>3, <1>4, <1>5 DEF IInv

\* Locks stay sound when only sound ones are written.
LEMMA StillSound ==
  ASSUME SoundLocks, NEW l, l = None \/ Sound(l),
         \A t \in Text : cache'[t] \in {cache[t], l, None} /\ kept'[t] \in {kept[t], l},
         left' \in {left, l},
         \A b \in Build : release'[b].lock \in {release[b].lock, l, None}
  PROVE  SoundLocks'
<1> SUFFICES ASSUME NEW k, k # None,
                    \/ \E t \in Text : k = cache'[t] \/ k = kept'[t]
                    \/ k = left'
                    \/ \E b \in Build : k = release'[b].lock
             PROVE  Sound(k)
  BY DEF SoundLocks
<1>1. \/ k = l
      \/ \E t \in Text : k = cache[t] \/ k = kept[t]
      \/ k = left
      \/ \E b \in Build : k = release[b].lock
  OBVIOUS
<1>2. QED
  BY <1>1 DEF SoundLocks

LEMMA AllSound ==
  ASSUME IInv
  PROVE  /\ \A t \in Text : /\ cache[t] # None => Sound(cache[t])
                            /\ kept[t] # None => Sound(kept[t])
         /\ left # None => Sound(left)
         /\ \A b \in Build : release[b].lock # None => Sound(release[b].lock)
BY DEF IInv, SoundLocks

\* A step that leaves the releases alone and writes at most the lock l.
LEMMA Moves ==
  ASSUME IInv, NEW m \in Machine, NEW s \in RunState,
         run' = [run EXCEPT ![m] = s],
         UNCHANGED <<tag, served, head, release>>, faults' \in 0 .. MaxFaults,
         archive' \in [Commit -> Digest \cup {None}],
         NEW l \in Lock \cup {None}, l = None \/ Sound(l),
         cache' \in [Text -> Lock \cup {None}], kept' \in [Text -> Lock \cup {None}],
         \A t \in Text : cache'[t] \in {cache[t], l} /\ kept'[t] \in {kept[t], l},
         left' \in {left, l},
         LockFits(s), ReleaseFits(s), PublicFits(m, s), s.pc # "upload"
  PROVE  IInv'
<1>1. SoundLocks /\ TypeOK
  BY DEF IInv
<1>2. SoundLocks'
  BY <1>1, StillSound
<1>3. left' \in Lock \cup {None} /\ release' \in [Build -> Release]
  BY <1>1 DEF TypeOK
<1>4. run'[m] = s
  BY AtWork
<1>5. ReleaseFits(run[m])'
  BY <1>4 DEF ReleaseFits
<1>6. Respects(m)
  BY DEF Respects
<1>7. QED
  BY <1>2, <1>3, <1>5, <1>6, Advances

\* One that writes nothing.
LEMMA Walks ==
  ASSUME IInv, NEW m \in Machine, NEW s \in RunState,
         run' = [run EXCEPT ![m] = s],
         UNCHANGED <<world, cache, local, release>>, faults' \in 0 .. MaxFaults,
         LockFits(s), ReleaseFits(s), PublicFits(m, s), s.pc # "upload"
  PROVE  IInv'
<1>1. TypeOK
  BY DEF IInv
<1>2. /\ cache' \in [Text -> Lock \cup {None}] /\ kept' \in [Text -> Lock \cup {None}]
      /\ archive' \in [Commit -> Digest \cup {None}]
  BY <1>1 DEF TypeOK, local
<1>3. /\ \A t \in Text : cache'[t] \in {cache[t], None} /\ kept'[t] \in {kept[t], None}
      /\ left' \in {left, None}
      /\ UNCHANGED <<tag, served, head, release>>
  BY DEF local, world
<1>4. None \in Lock \cup {None}
  OBVIOUS
<1>5. QED
  BY <1>2, <1>3, <1>4, Moves

LEMMA IdleFits ==
  ASSUME NEW m \in Machine
  PROVE  /\ Idle \in RunState /\ Idle.pc = "idle" /\ Idle.public = None
         /\ LockFits(Idle) /\ ReleaseFits(Idle) /\ PublicFits(m, Idle)
BY DEF Idle, RunState, Phases, LockFits, ReleaseFits, PublicFits, Choosing, Held, Publishing

\* A machine gives up or is done.
LEMMA Ends ==
  ASSUME IInv, NEW m \in Machine, Fails(m), faults' \in 0 .. MaxFaults,
         UNCHANGED <<world, cache, local, release>>
  PROVE  IInv'
<1>1. run' = [run EXCEPT ![m] = Idle]
  BY DEF Fails
<1>2. QED
  BY <1>1, IdleFits, Walks

-----------------------------------------------------------------------------
(* Starting *)

LEMMA AtTag ==
  ASSUME NEW x \in Text, NEW c \in Commit, NEW f \in Lock \cup {None}, NEW p \in Lock \cup {None}
  PROVE  [pc |-> "tag", text |-> x, commit |-> c, found |-> f, signed |-> None,
          lock |-> None, source |-> None, given |-> FALSE, tags |-> {}, public |-> p]
         \in RunState
BY DEF RunState, Phases

LEMMA StartedFits ==
  ASSUME IInv, NEW m \in Machine, NEW f \in Lock \cup {None}, f = None \/ Sound(f),
         NEW s, s = [Started("tag") EXCEPT !.found = f]
  PROVE  s \in RunState /\ s.pc = "tag" /\ LockFits(s) /\ ReleaseFits(s) /\ PublicFits(m, s)
<1> DEFINE b == BuildOf[head]
           p == IF release[b].stage = "public" THEN release[b].lock ELSE None
<1>1. head \in Text /\ tag \in Commit /\ b \in Build /\ release[b] \in Release
  BY DEF IInv, TypeOK, Build
<1>2. p # None => p \in Lock /\ release[b] = [stage |-> "public", lock |-> p]
  BY <1>1 DEF Release
<1>3. s = [pc |-> "tag", text |-> head, commit |-> tag, found |-> f, signed |-> None,
           lock |-> None, source |-> None, given |-> FALSE, tags |-> {}, public |-> p]
  BY DEF Started, Idle
<1> HIDE DEF p
<1>4. s \in RunState
  <2>1. p \in Lock \cup {None}
    BY <1>2
  <2>2. QED
    BY <1>1, <1>3, <2>1, AtTag
<1>5. LockFits(s)
  BY <1>1, <1>3 DEF LockFits, Choosing, Held, Publishing
<1>6. ReleaseFits(s) /\ PublicFits(m, s)
  BY <1>1, <1>2, <1>3 DEF ReleaseFits, PublicFits, Held
<1>7. QED
  BY <1>3, <1>4, <1>5, <1>6

LEMMA FaultsStay ==
  ASSUME IInv, UNCHANGED faults PROVE faults' \in 0 .. MaxFaults
BY DEF IInv, TypeOK

LEMMA DiscoverKeeps ==
  ASSUME IInv, Discover PROVE IInv'
<1>1. /\ run' = [run EXCEPT !["ci"] = [Started("tag") EXCEPT !.found = cache[head]]]
      /\ UNCHANGED <<world, cache, local, release>> /\ faults' \in 0 .. MaxFaults
  BY FaultsStay DEF Discover
<1>2. head \in Text /\ cache[head] \in Lock \cup {None}
  BY DEF IInv, TypeOK
<1>3. cache[head] = None \/ Sound(cache[head])
  BY <1>2, AllSound
<1>4. "ci" \in Machine
  BY DEF Machine
<1>5. PICK s : s = [Started("tag") EXCEPT !.found = cache[head]]
  OBVIOUS
<1>6. s \in RunState /\ s.pc = "tag" /\ LockFits(s) /\ ReleaseFits(s) /\ PublicFits("ci", s)
  BY <1>2, <1>3, <1>4, <1>5, StartedFits
<1>7. QED
  BY <1>1, <1>4, <1>5, <1>6, Walks

LEMMA BuildByHandKeeps ==
  ASSUME IInv, BuildByHand PROVE IInv'
<1>1. /\ run' = [run EXCEPT !["hand"] = [Started("tag") EXCEPT !.found = kept[head]]]
      /\ UNCHANGED <<world, cache, local, release>> /\ faults' \in 0 .. MaxFaults
  BY FaultsStay DEF BuildByHand
<1>2. head \in Text /\ kept[head] \in Lock \cup {None}
  BY DEF IInv, TypeOK
<1>3. kept[head] = None \/ Sound(kept[head])
  BY <1>2, AllSound
<1>4. "hand" \in Machine
  BY DEF Machine
<1>5. PICK s : s = [Started("tag") EXCEPT !.found = kept[head]]
  OBVIOUS
<1>6. s \in RunState /\ s.pc = "tag" /\ LockFits(s) /\ ReleaseFits(s) /\ PublicFits("hand", s)
  BY <1>2, <1>3, <1>4, <1>5, StartedFits
<1>7. QED
  BY <1>1, <1>4, <1>5, <1>6, Walks

\* The lock that is left names the text it was made for, which is the head.
LEMMA BuildFromKeeps ==
  ASSUME IInv, BuildFrom PROVE IInv'
<1> DEFINE b == BuildOf[head]
           p == IF release[b].stage = "public" THEN release[b].lock ELSE None
<1>1. PICK s : s = [Started("download") EXCEPT !.lock = left, !.given = TRUE]
  OBVIOUS
<1>2. /\ run' = [run EXCEPT !["hand"] = s] /\ left # None /\ left.text = head
      /\ UNCHANGED <<world, cache, local, release>> /\ faults' \in 0 .. MaxFaults
  BY <1>1, FaultsStay DEF BuildFrom
<1>3. /\ head \in Text /\ tag \in Commit /\ b \in Build /\ release[b] \in Release
      /\ left \in Lock /\ Sound(left)
  BY <1>2, AllSound DEF IInv, TypeOK, Build
<1>4. p # None => p \in Lock /\ release[b] = [stage |-> "public", lock |-> p]
  BY <1>3 DEF Release
<1>5. s = [pc |-> "download", text |-> head, commit |-> tag, found |-> None, signed |-> None,
           lock |-> left, source |-> None, given |-> TRUE, tags |-> {}, public |-> p]
  BY <1>1 DEF Started, Idle
<1> HIDE DEF p
<1>6. s \in RunState
  BY <1>3, <1>4, <1>5 DEF RunState, Phases
<1>7. LockFits(s)
  BY <1>2, <1>3, <1>5 DEF LockFits, Choosing, Held, Publishing
<1>8. ReleaseFits(s) /\ PublicFits("hand", s) /\ s.pc # "upload"
  BY <1>3, <1>4, <1>5 DEF ReleaseFits, PublicFits, Held
<1>9. "hand" \in Machine
  BY DEF Machine
<1>10. QED
  BY <1>2, <1>6, <1>7, <1>8, <1>9, Walks

-----------------------------------------------------------------------------
(* resolve *)

LEMMA CheckTagKeeps ==
  ASSUME IInv, NEW m \in Machine, CheckTag(m) PROVE IInv'
<1>1. UNCHANGED <<world, cache, local, release>> /\ faults' \in 0 .. MaxFaults
  BY FaultsStay DEF CheckTag
<1>2. CASE Fails(m)
  BY <1>1, <1>2, Ends
<1>3. CASE ~Fails(m)
  <2> DEFINE to == IF m = "ci" THEN "release" ELSE "file"
  <2>1. PICK s : s = [run[m] EXCEPT !.pc = to, !.tags = {tag}]
    OBVIOUS
  <2>2. /\ run' = [run EXCEPT ![m] = s]
        /\ At(m, "tag") /\ tag = run[m].commit
        /\ PinOf[run[m].text] # None => run[m].commit = PinOf[run[m].text].commit
    BY <1>3, <2>1 DEF CheckTag, PinFor
  <2>3. run[m] \in RunState /\ LockFits(run[m]) /\ ReleaseFits(run[m]) /\ tag \in Commit
    BY AtWork DEF IInv, TypeOK
  <2>4. s \in RunState /\ s.pc \in {"release", "file"}
    BY <2>1, <2>3 DEF RunState, Phases
  <2>5. LockFits(s)
    BY <2>1, <2>2, <2>3, <2>4 DEF LockFits, At, Choosing, Held, Publishing, RunState
  <2>6. ReleaseFits(s)
    BY <2>1, <2>3, <2>4 DEF ReleaseFits, RunState
  <2>7. PublicFits(m, s)
    BY <2>1, <2>3 DEF PublicFits, Held, RunState
  <2>8. QED
    BY <1>1, <2>2, <2>4, <2>5, <2>6, <2>7, Walks
<1>4. QED
  BY <1>2, <1>3

LEMMA ReadReleaseKeeps ==
  ASSUME IInv, ReadRelease PROVE IInv'
<1> DEFINE m == "ci"
           r == release[BuildOf[run[m].text]]
<1>1. /\ UNCHANGED <<world, cache, local, release>> /\ faults' \in 0 .. MaxFaults
      /\ m \in Machine /\ At(m, "release")
  BY FaultsStay DEF ReadRelease, Machine
<1>2. /\ run[m] \in RunState /\ LockFits(run[m]) /\ ReleaseFits(run[m])
      /\ run[m].text \in Text /\ BuildOf[run[m].text] \in Build /\ r \in Release
  BY <1>1, AtWork DEF LockFits, Choosing, At, Build, IInv, TypeOK
<1>3. CASE r.stage = "none" /\ Goes(m, "file")
  <2>1. PICK s : s = [run[m] EXCEPT !.pc = "file"]
    OBVIOUS
  <2>2. run' = [run EXCEPT ![m] = s]
    BY <1>3, <2>1 DEF Goes
  <2>3. s \in RunState /\ s.pc = "file"
    BY <1>2, <2>1 DEF RunState, Phases
  <2>4. s.public = None
    BY <1>2, <1>3, <2>1 DEF ReleaseFits, RunState
  <2>5. LockFits(s)
    BY <1>1, <1>2, <2>1, <2>3 DEF LockFits, At, Choosing, Held, Publishing, RunState
  <2>6. ReleaseFits(s) /\ PublicFits(m, s)
    BY <2>3, <2>4 DEF ReleaseFits, PublicFits
  <2>7. QED
    BY <1>1, <2>2, <2>3, <2>5, <2>6, Walks
<1>4. CASE /\ r.stage \in {"draft", "public"}
           /\ run' = [run EXCEPT ![m].pc = "file", ![m].signed = r.lock]
  <2>1. PICK s : s = [run[m] EXCEPT !.pc = "file", !.signed = r.lock]
    OBVIOUS
  <2>2. run' = [run EXCEPT ![m] = s]
    BY <1>4, <2>1
  <2>3. r.lock \in Lock /\ (r.lock # None => Sound(r.lock))
    BY <1>2, <1>4, AllSound DEF Release
  <2>4. s \in RunState /\ s.pc = "file" /\ s.signed = r.lock
    BY <1>2, <2>1, <2>3 DEF RunState, Phases
  <2>5. LockFits(s)
    BY <1>1, <1>2, <2>1, <2>3, <2>4 DEF LockFits, At, Choosing, Held, Publishing, RunState
  <2>6. ReleaseFits(s)
    BY <1>2, <2>1, <2>4 DEF ReleaseFits, RunState
  <2>7. PublicFits(m, s)
    BY <1>2, <2>1, <2>4 DEF ReleaseFits, PublicFits, Held, RunState
  <2>8. QED
    BY <1>1, <2>2, <2>4, <2>5, <2>6, <2>7, Walks
<1>5. CASE Fails(m)
  BY <1>1, <1>5, Ends
<1>6. QED
  BY <1>3, <1>4, <1>5 DEF ReadRelease, ReleaseFor

\* The machine that returns from resolve with the sound lock l.
LEMMA HoldingFits ==
  ASSUME IInv, NEW m \in Machine, run[m].pc \in Choosing, NEW l \in Lock, Sound(l),
         l.text = run[m].text, l.commit = run[m].commit,
         m = "ci" /\ run[m].public # None => l = run[m].public,
         NEW s, s = Holding(m, l)
  PROVE  /\ s \in RunState /\ s.pc \in {"save", "download"}
         /\ LockFits(s) /\ ReleaseFits(s) /\ PublicFits(m, s)
<1> DEFINE to == IF m = "ci" THEN "save" ELSE "download"
<1>1. run[m] \in RunState /\ LockFits(run[m]) /\ ReleaseFits(run[m])
  BY AtWork
<1>2. s = [run[m] EXCEPT !.pc = to, !.found = None, !.signed = None, !.lock = l]
  BY DEF Holding
<1>3. to \in {"save", "download"} /\ to \in Phases
  BY DEF Phases
<1> HIDE DEF to
<1>4. /\ s \in RunState /\ s.pc = to /\ s.text = run[m].text /\ s.tags = run[m].tags
      /\ s.found = None /\ s.signed = None /\ s.lock = l /\ s.public = run[m].public
  BY <1>1, <1>2, <1>3 DEF RunState
<1>5. /\ run[m].text \in Text /\ run[m].commit \in run[m].tags
  BY <1>1 DEF LockFits, Choosing
<1>6. LockFits(s)
  BY <1>3, <1>4, <1>5 DEF LockFits, Choosing, Held, Publishing
<1>7. ReleaseFits(s) /\ PublicFits(m, s)
  BY <1>1, <1>3, <1>4 DEF ReleaseFits, PublicFits
<1>8. QED
  BY <1>3, <1>4, <1>6, <1>7

LEMMA ReadFileKeeps ==
  ASSUME IInv, NEW m \in Machine, ReadFile(m) PROVE IInv'
<1> DEFINE locks == {run[m].found, run[m].signed} \ {None}
<1>1. /\ UNCHANGED <<world, cache, left, archive, release>> /\ faults' \in 0 .. MaxFaults
      /\ run[m].pc = "file"
  BY FaultsStay DEF ReadFile, At
<1>2. /\ run[m] \in RunState /\ LockFits(run[m]) /\ ReleaseFits(run[m])
      /\ PublicFits(m, run[m]) /\ TypeOK
  BY AtWork DEF IInv
<1>3. \A l \in locks : l \in Lock /\ Sound(l)
  BY <1>2 DEF LockFits, RunState
<1>4. CASE locks = {} /\ Goes(m, "fetch") /\ UNCHANGED kept
  <2>1. PICK s : s = [run[m] EXCEPT !.pc = "fetch"]
    OBVIOUS
  <2>2. run' = [run EXCEPT ![m] = s]
    BY <1>4, <2>1 DEF Goes
  <2>3. s \in RunState /\ s.pc = "fetch"
    BY <1>2, <2>1 DEF RunState, Phases
  <2>4. LockFits(s)
    BY <1>1, <1>2, <2>1, <2>3 DEF LockFits, Choosing, Held, Publishing, RunState
  <2>5. ReleaseFits(s)
    BY <1>2, <2>1, <2>3 DEF ReleaseFits, RunState
  <2>6. PublicFits(m, s)
    BY <1>1, <1>2, <1>4, <2>1, <2>3 DEF PublicFits, Held, RunState
  <2>7. UNCHANGED <<world, cache, local, release>>
    BY <1>1, <1>4 DEF local
  <2>8. QED
    BY <1>1, <2>2, <2>3, <2>4, <2>5, <2>6, <2>7, Walks
<1>5. ASSUME NEW l \in locks, locks = {l}, l.text = run[m].text, l.commit = run[m].commit,
             run' = [run EXCEPT ![m] = Holding(m, l)],
             kept' = IF m = "ci" THEN kept ELSE [kept EXCEPT ![run[m].text] = l]
      PROVE  IInv'
  <2>1. PICK s : s = Holding(m, l)
    OBVIOUS
  <2>2. m = "ci" /\ run[m].public # None => l = run[m].public
    BY <1>1, <1>2, <1>5 DEF PublicFits
  <2>3. l \in Lock /\ Sound(l) /\ run[m].pc \in Choosing
    BY <1>1, <1>3 DEF Choosing
  <2>4. /\ s \in RunState /\ s.pc # "upload"
        /\ LockFits(s) /\ ReleaseFits(s) /\ PublicFits(m, s)
    BY <1>5, <2>1, <2>2, <2>3, HoldingFits
  <2>5. /\ kept' \in [Text -> Lock \cup {None}] /\ cache' \in [Text -> Lock \cup {None}]
        /\ archive' \in [Commit -> Digest \cup {None}]
        /\ \A t \in Text : cache'[t] \in {cache[t], l} /\ kept'[t] \in {kept[t], l}
        /\ left' \in {left, l} /\ UNCHANGED <<tag, served, head, release>>
    BY <1>1, <1>2, <1>5, <2>3 DEF TypeOK, world
  <2>6. run' = [run EXCEPT ![m] = s]
    BY <1>5, <2>1
  <2>7. l \in Lock \cup {None}
    BY <2>3
  <2>8. QED
    BY <1>1, <2>3, <2>4, <2>5, <2>6, <2>7, Moves
<1>6. CASE Fails(m) /\ UNCHANGED kept
  <2>1. UNCHANGED <<world, cache, local, release>>
    BY <1>1, <1>6 DEF local
  <2>2. QED
    BY <1>1, <1>6, <2>1, Ends
<1>7. QED
  BY <1>4, <1>5, <1>6 DEF ReadFile

LEMMA DownloadedFits ==
  ASSUME IInv, NEW m, NEW c \in Commit, NEW e \in Digest \cup {None},
         NEW d, d = Downloaded(m, c, e)
  PROVE  d \in Digest \cup {None} /\ (d # None /\ e # None => d = e)
<1>1. served[c] \in Digest \cup {None}
  BY DEF IInv, TypeOK
<1>2. QED
  BY <1>1 DEF Downloaded

LEMMA ArchiveStays ==
  ASSUME IInv, NEW m, NEW c \in Commit, NEW d \in Digest \cup {None},
         archive' \in {archive, [archive EXCEPT ![c] = d]}
  PROVE  archive' \in [Commit -> Digest \cup {None}]
BY DEF IInv, TypeOK

LEMMA FetchKeeps ==
  ASSUME IInv, NEW m \in Machine, Fetch(m) PROVE IInv'
<1> DEFINE c == run[m].commit
           t == run[m].text
           e == IF PinOf[t] = None THEN None ELSE PinOf[t].digest
<1>1. PICK d : d = Downloaded(m, c, e)
  OBVIOUS
<1>2. /\ UNCHANGED <<world, cache, left, release>> /\ faults' \in 0 .. MaxFaults
      /\ run[m].pc = "fetch"
      /\ archive' \in {archive, [archive EXCEPT ![c] = d]}
  BY <1>1, FaultsStay DEF Fetch, At, PinFor
<1>3. /\ run[m] \in RunState /\ LockFits(run[m]) /\ ReleaseFits(run[m])
      /\ PublicFits(m, run[m]) /\ TypeOK
  BY AtWork DEF IInv
<1>4. /\ t \in Text /\ c \in Commit
      /\ PinOf[t] # None => PinOf[t] \in Pin /\ c = PinOf[t].commit
  BY <1>2, <1>3, CoreLockAssumption DEF LockFits, Choosing
<1>5. e \in Digest \cup {None} /\ (PinOf[t] # None => e = PinOf[t].digest /\ e # None)
  BY <1>4, CoreLockAssumption DEF Pin
<1> HIDE DEF e
<1>6. d \in Digest \cup {None} /\ (d # None /\ e # None => d = e)
  BY <1>1, <1>4, <1>5, DownloadedFits
<1>7. archive' \in [Commit -> Digest \cup {None}]
  BY <1>2, <1>4, <1>6, ArchiveStays
<1>8. CASE Fails(m) /\ UNCHANGED kept
  <2>1. run' = [run EXCEPT ![m] = Idle]
    BY <1>8 DEF Fails
  <2>2. /\ cache' \in [Text -> Lock \cup {None}] /\ kept' \in [Text -> Lock \cup {None}]
        /\ \A x \in Text : cache'[x] \in {cache[x], None} /\ kept'[x] \in {kept[x], None}
        /\ left' \in {left, None} /\ UNCHANGED <<tag, served, head, release>>
    BY <1>2, <1>3, <1>8 DEF TypeOK, world
  <2>3. None \in Lock \cup {None}
    OBVIOUS
  <2>4. QED
    BY <1>2, <1>7, <2>1, <2>2, <2>3, IdleFits, Moves
<1>9. CASE ~(Fails(m) /\ UNCHANGED kept)
  <2>1. PICK l : l = [build |-> BuildOf[t], commit |-> c, digest |-> d, text |-> t]
    OBVIOUS
  <2>2. /\ d # None /\ c \in Genuine
        /\ run' = [run EXCEPT ![m] = Holding(m, l)]
        /\ kept' = IF m = "ci" THEN kept ELSE [kept EXCEPT ![t] = l]
    BY <1>1, <1>9, <2>1 DEF Fetch, PinFor, e
  <2>3. l \in Lock
    BY <1>4, <1>6, <2>1, <2>2 DEF Lock, Build
  <2>4. Sound(l)
    <3>1. PinOf[t] # None => PinOf[t] = [commit |-> c, digest |-> d]
      BY <1>4, <1>5, <1>6, <2>2 DEF Pin
    <3>2. QED
      BY <2>1, <2>2, <3>1 DEF Sound
  <2>5. PICK s : s = Holding(m, l)
    OBVIOUS
  <2>6. ~(m = "ci" /\ run[m].public # None)
    BY <1>2, <1>3 DEF PublicFits
  <2>7. run[m].pc \in Choosing /\ l.text = run[m].text /\ l.commit = run[m].commit
    BY <1>2, <2>1 DEF Choosing
  <2>8. /\ s \in RunState /\ s.pc # "upload"
        /\ LockFits(s) /\ ReleaseFits(s) /\ PublicFits(m, s)
    BY <2>3, <2>4, <2>5, <2>6, <2>7, HoldingFits
  <2>9. /\ kept' \in [Text -> Lock \cup {None}] /\ cache' \in [Text -> Lock \cup {None}]
        /\ \A x \in Text : cache'[x] \in {cache[x], l} /\ kept'[x] \in {kept[x], l}
        /\ left' \in {left, l} /\ UNCHANGED <<tag, served, head, release>>
    BY <1>2, <1>3, <1>4, <2>2, <2>3 DEF TypeOK, world
  <2>10. run' = [run EXCEPT ![m] = s] /\ l \in Lock \cup {None}
    BY <2>2, <2>3, <2>5
  <2>11. QED
    BY <1>2, <1>7, <2>4, <2>8, <2>9, <2>10, Moves
<1>10. QED
  BY <1>8, <1>9

LEMMA SaveCacheKeeps ==
  ASSUME IInv, SaveCache PROVE IInv'
<1> DEFINE m == "ci"
           l == run[m].lock
<1>1. /\ UNCHANGED <<world, local, release>> /\ faults' \in 0 .. MaxFaults
      /\ m \in Machine /\ run[m].pc = "save"
      /\ cache' = [cache EXCEPT ![run[m].text] = IF @ = None THEN l ELSE @]
  BY FaultsStay DEF SaveCache, Machine, At
<1>2. /\ run[m] \in RunState /\ LockFits(run[m]) /\ ReleaseFits(run[m])
      /\ PublicFits(m, run[m]) /\ TypeOK
  BY <1>1, AtWork DEF IInv
<1>3. PICK s : s = [run[m] EXCEPT !.pc = "download"]
  OBVIOUS
<1>4. run' = [run EXCEPT ![m] = s]
  BY <1>3 DEF SaveCache, Goes
<1>5. s \in RunState /\ s.pc = "download"
  BY <1>2, <1>3 DEF RunState, Phases
<1>6. l \in Lock \cup {None} /\ (l = None \/ Sound(l)) /\ run[m].text \in Text
  BY <1>1, <1>2 DEF LockFits, Held, RunState
<1>7. LockFits(s)
  BY <1>1, <1>2, <1>3, <1>5 DEF LockFits, Choosing, Held, Publishing, RunState
<1>8. ReleaseFits(s)
  BY <1>2, <1>3, <1>5 DEF ReleaseFits, RunState
<1>9. PublicFits(m, s)
  BY <1>1, <1>2, <1>3, <1>5 DEF PublicFits, Held, RunState
<1>10. /\ cache' \in [Text -> Lock \cup {None}] /\ kept' \in [Text -> Lock \cup {None}]
       /\ archive' \in [Commit -> Digest \cup {None}]
       /\ \A t \in Text : cache'[t] \in {cache[t], l} /\ kept'[t] \in {kept[t], l}
       /\ left' \in {left, l} /\ UNCHANGED <<tag, served, head, release>>
  BY <1>1, <1>2, <1>6 DEF TypeOK, world, local
<1>11. QED
  BY <1>1, <1>4, <1>5, <1>6, <1>7, <1>8, <1>9, <1>10, Moves

-----------------------------------------------------------------------------
(* build_core.py and publication *)

LEMMA DownloadKeeps ==
  ASSUME IInv, NEW m \in Machine, Download(m) PROVE IInv'
<1> DEFINE l == run[m].lock
           c == l.commit
<1>1. PICK d : d = Downloaded(m, c, l.digest)
  OBVIOUS
<1>2. /\ UNCHANGED <<world, cache, kept, left, release>> /\ faults' \in 0 .. MaxFaults
      /\ run[m].pc = "download"
      /\ archive' = IF m = "hand" /\ d # None THEN [archive EXCEPT ![c] = d] ELSE archive
      /\ \/ d # None /\ run' = [run EXCEPT ![m].pc = "compile", ![m].source = d]
         \/ Fails(m)
  BY <1>1, FaultsStay DEF Download, At
<1>3. /\ run[m] \in RunState /\ LockFits(run[m]) /\ ReleaseFits(run[m])
      /\ PublicFits(m, run[m]) /\ TypeOK
  BY AtWork DEF IInv
<1>4. l \in Lock /\ c \in Commit /\ l.digest \in Digest /\ l.digest # None
  BY <1>2, <1>3, CoreLockAssumption DEF LockFits, Held, Lock
<1>5. d \in Digest \cup {None} /\ (d # None => d = l.digest)
  BY <1>1, <1>4, DownloadedFits
<1>6. archive' \in [Commit -> Digest \cup {None}]
  BY <1>2, <1>4, <1>5, ArchiveStays
<1>7. /\ cache' \in [Text -> Lock \cup {None}] /\ kept' \in [Text -> Lock \cup {None}]
      /\ \A x \in Text : cache'[x] \in {cache[x], None} /\ kept'[x] \in {kept[x], None}
      /\ left' \in {left, None} /\ UNCHANGED <<tag, served, head, release>>
      /\ None \in Lock \cup {None}
  BY <1>2, <1>3 DEF TypeOK, world
<1>8. CASE Fails(m)
  <2>1. run' = [run EXCEPT ![m] = Idle]
    BY <1>8 DEF Fails
  <2>2. QED
    BY <1>2, <1>6, <1>7, <2>1, IdleFits, Moves
<1>9. CASE d # None /\ run' = [run EXCEPT ![m].pc = "compile", ![m].source = d]
  <2>1. PICK s : s = [run[m] EXCEPT !.pc = "compile", !.source = d]
    OBVIOUS
  <2>2. run' = [run EXCEPT ![m] = s]
    BY <1>9, <2>1
  <2>3. s \in RunState /\ s.pc = "compile"
    BY <1>3, <1>5, <2>1 DEF RunState, Phases
  <2>4. LockFits(s)
    BY <1>2, <1>3, <1>5, <1>9, <2>1, <2>3 DEF LockFits, Choosing, Held, Publishing, RunState
  <2>5. ReleaseFits(s)
    BY <1>3, <2>1, <2>3 DEF ReleaseFits, RunState
  <2>6. PublicFits(m, s)
    BY <1>2, <1>3, <2>1, <2>3 DEF PublicFits, Held, RunState
  <2>7. QED
    BY <1>2, <1>6, <1>7, <2>2, <2>3, <2>4, <2>5, <2>6, Moves
<1>10. QED
  BY <1>2, <1>8, <1>9

LEMMA CompileKeeps ==
  ASSUME IInv, NEW m \in Machine, Compile(m) PROVE IInv'
<1> DEFINE l == run[m].lock
<1>1. PICK s : s = [Idle EXCEPT !.pc = "publish", !.lock = l]
  OBVIOUS
<1>2. /\ UNCHANGED <<world, cache, kept, archive, release>> /\ faults' \in 0 .. MaxFaults
      /\ run[m].pc = "compile" /\ run' = [run EXCEPT ![m] = s]
      /\ left' = IF m = "hand" THEN l ELSE left
  BY <1>1, FaultsStay DEF Compile, At
<1>3. LockFits(run[m]) /\ run[m] \in RunState /\ TypeOK
  BY AtWork DEF IInv
<1>4. l \in Lock /\ (l = None \/ Sound(l)) /\ l \in Lock \cup {None}
  BY <1>2, <1>3 DEF LockFits, Held
<1>5. s = [pc |-> "publish", text |-> None, commit |-> None, found |-> None, signed |-> None,
           lock |-> l, source |-> None, given |-> FALSE, tags |-> {}, public |-> None]
  BY <1>1 DEF Idle
<1>6. s \in RunState
  BY <1>4, <1>5 DEF RunState, Phases
<1>7. LockFits(s) /\ ReleaseFits(s) /\ PublicFits(m, s)
  BY <1>4, <1>5 DEF LockFits, ReleaseFits, PublicFits, Choosing, Held, Publishing
<1>8. /\ kept' \in [Text -> Lock \cup {None}] /\ cache' \in [Text -> Lock \cup {None}]
      /\ archive' \in [Commit -> Digest \cup {None}]
      /\ \A x \in Text : cache'[x] \in {cache[x], l} /\ kept'[x] \in {kept[x], l}
      /\ left' \in {left, l} /\ UNCHANGED <<tag, served, head, release>>
  BY <1>2, <1>3 DEF TypeOK, world
<1>9. QED
  BY <1>2, <1>4, <1>5, <1>6, <1>7, <1>8, Moves

\* A new release of the core's build, with the lock that made it.
LEMMA PublishKeeps ==
  ASSUME IInv, NEW m \in Machine, Publish(m) PROVE IInv'
<1> DEFINE l == run[m].lock
           b == l.build
<1>1. /\ UNCHANGED <<world, cache, local>> /\ faults' \in 0 .. MaxFaults
      /\ run[m].pc = "publish"
  BY FaultsStay DEF Publish, At
<1>2. LockFits(run[m]) /\ ReleaseFits(run[m]) /\ run[m] \in RunState /\ TypeOK
  BY AtWork DEF IInv
<1>3. l \in Lock /\ b \in Build /\ (l = None \/ Sound(l))
  BY <1>1, <1>2 DEF LockFits, Publishing, Lock
<1>4. CASE /\ release[b].stage = "none" /\ Goes(m, "upload")
           /\ release' = [release EXCEPT ![b] = [stage |-> "half", lock |-> l]]
  <2>1. PICK s : s = [run[m] EXCEPT !.pc = "upload"]
    OBVIOUS
  <2>2. run' = [run EXCEPT ![m] = s] /\ run'[m] = s
    BY <1>4, <2>1, AtWork DEF Goes
  <2>3. s \in RunState /\ s.pc = "upload" /\ s.lock = l
    BY <1>2, <2>1 DEF RunState, Phases
  <2>4. release \in [Build -> Release] /\ [stage |-> "half", lock |-> l] \in Release
    BY <1>2, <1>3 DEF TypeOK, Release, Stages
  <2>5. release' \in [Build -> Release] /\ release'[b] = [stage |-> "half", lock |-> l]
    BY <1>3, <1>4, <2>4
  <2>6. \A x \in Build : release'[x] = release[x] \/ release[x].stage = "none"
    BY <1>3, <1>4, <2>4
  <2>7. LockFits(s)
    BY <1>1, <1>2, <2>1, <2>3 DEF LockFits, Choosing, Held, Publishing, RunState
  <2>8. ReleaseFits(run[m])'
    <3>1. s.public # None =>
            s.text \in Text /\ release[BuildOf[s.text]] = [stage |-> "public", lock |-> s.public]
      BY <1>2, <2>1 DEF ReleaseFits, RunState
    <3>2. s.public # None =>
            release'[BuildOf[s.text]] = [stage |-> "public", lock |-> s.public]
      BY <2>6, <3>1 DEF Build
    <3>3. QED
      BY <2>2, <2>3, <2>5, <3>1, <3>2 DEF ReleaseFits
  <2>9. PublicFits(m, s)
    BY <2>3 DEF PublicFits, Held
  <2>10. SoundLocks'
    <3>1. \A x \in Build : release'[x].lock \in {release[x].lock, l, None}
      BY <1>3, <1>4, <2>4
    <3>2. /\ \A t \in Text : cache'[t] \in {cache[t], l, None} /\ kept'[t] \in {kept[t], l}
          /\ left' \in {left, l} /\ SoundLocks
      BY <1>1 DEF local, IInv
    <3>3. QED
      BY <1>3, <3>1, <3>2, StillSound
  <2>11. /\ cache' \in [Text -> Lock \cup {None}] /\ kept' \in [Text -> Lock \cup {None}]
         /\ left' \in Lock \cup {None} /\ archive' \in [Commit -> Digest \cup {None}]
         /\ UNCHANGED <<tag, served, head>>
    BY <1>1, <1>2 DEF TypeOK, local, world
  <2>12. Respects(m)
    BY <2>6 DEF Respects
  <2>13. s.pc = "upload" => s.lock.build \in Build /\ release[s.lock.build].stage = "none"
    BY <1>3, <1>4, <2>3
  <2>14. QED
    BY <1>1, <2>2, <2>3, <2>5, <2>7, <2>8, <2>9, <2>10, <2>11, <2>12, <2>13, Advances
<1>5. CASE release[b].stage = "draft" /\ Goes(m, "undraft") /\ UNCHANGED release
  <2>1. PICK s : s = [run[m] EXCEPT !.pc = "undraft"]
    OBVIOUS
  <2>2. run' = [run EXCEPT ![m] = s]
    BY <1>5, <2>1 DEF Goes
  <2>3. s \in RunState /\ s.pc = "undraft" /\ s.lock = l
    BY <1>2, <2>1 DEF RunState, Phases
  <2>4. LockFits(s)
    BY <1>1, <1>2, <2>1, <2>3 DEF LockFits, Choosing, Held, Publishing, RunState
  <2>5. ReleaseFits(s) /\ PublicFits(m, s)
    BY <1>2, <1>5, <2>1, <2>3 DEF ReleaseFits, PublicFits, Held, RunState
  <2>6. QED
    BY <1>1, <1>5, <2>2, <2>3, <2>4, <2>5, Walks
<1>6. CASE Fails(m) /\ UNCHANGED release
  BY <1>1, <1>6, Ends
<1>7. QED
  BY <1>4, <1>5, <1>6 DEF Publish

\* The release of the machine's lock gets another stage, and the machine goes on as s.
LEMMA Staged ==
  ASSUME IInv, NEW m \in Machine, NEW s \in RunState, NEW stage \in {"draft", "public"},
         NEW b \in Build, b = run[m].lock.build,
         run' = [run EXCEPT ![m] = s], release' = [release EXCEPT ![b].stage = stage],
         UNCHANGED <<world, cache, local, faults>>,
         \/ run[m].pc = "upload"
         \/ stage = "public" /\ release[b].stage \in {"draft", "public"},
         LockFits(s), PublicFits(m, s), s.pc # "upload", ReleaseFits(run[m])'
  PROVE  IInv'
<1>1. TypeOK /\ SoundLocks /\ ReleaseFits(run[m])
  BY AtWork DEF IInv
<1>2. release[b].stage # "none" /\ release[b] \in Release
  BY <1>1 DEF ReleaseFits, TypeOK
<1>3. release[b].lock \in Lock /\ release[b] = [stage |-> release[b].stage, lock |-> release[b].lock]
  BY <1>2 DEF Release
<1>4. /\ release'[b] = [stage |-> stage, lock |-> release[b].lock]
      /\ \A x \in Build : x # b => release'[x] = release[x]
  BY <1>1, <1>3 DEF TypeOK
<1>5. release' \in [Build -> Release]
  <2>1. release'[b] \in Release
    BY <1>3, <1>4 DEF Release, Stages
  <2>2. QED
    BY <1>1, <1>4, <2>1 DEF TypeOK
<1>6. SoundLocks'
  <2>1. \A x \in Build : release'[x].lock \in {release[x].lock, None}
    BY <1>4
  <2>2. /\ \A t \in Text : cache'[t] \in {cache[t], None} /\ kept'[t] \in {kept[t], None}
        /\ left' \in {left, None}
    BY DEF local
  <2>3. QED
    BY <1>1, <2>1, <2>2, StillSound
<1>7. Respects(m)
  BY <1>4 DEF Respects, At
<1>8. /\ cache' \in [Text -> Lock \cup {None}] /\ kept' \in [Text -> Lock \cup {None}]
      /\ left' \in Lock \cup {None} /\ archive' \in [Commit -> Digest \cup {None}]
      /\ UNCHANGED <<tag, served, head>> /\ faults' \in 0 .. MaxFaults
  BY <1>1 DEF TypeOK, local, world
<1>9. QED
  BY <1>5, <1>6, <1>7, <1>8, Advances

LEMMA UploadKeeps ==
  ASSUME IInv, NEW m \in Machine, Upload(m) PROVE IInv'
<1> DEFINE b == run[m].lock.build
<1>1. /\ UNCHANGED <<world, cache, local, faults>> /\ run[m].pc = "upload"
      /\ release' = [release EXCEPT ![b].stage = "draft"]
  BY DEF Upload, At
<1>2. LockFits(run[m]) /\ ReleaseFits(run[m]) /\ run[m] \in RunState /\ TypeOK
  BY AtWork DEF IInv
<1>3. b \in Build /\ release[b].stage = "half"
  BY <1>1, <1>2 DEF LockFits, ReleaseFits, Publishing, Lock
<1>4. PICK s : s = [run[m] EXCEPT !.pc = "undraft"]
  OBVIOUS
<1>5. run' = [run EXCEPT ![m] = s] /\ run'[m] = s
  BY <1>4, AtWork DEF Upload, Goes
<1>6. s \in RunState /\ s.pc = "undraft" /\ s.lock.build = b
  BY <1>2, <1>4 DEF RunState, Phases
<1>7. LockFits(s)
  BY <1>1, <1>2, <1>4, <1>6 DEF LockFits, Choosing, Held, Publishing, RunState
<1>8. PublicFits(m, s)
  BY <1>6 DEF PublicFits, Held
<1>9. ReleaseFits(run[m])'
  <2>1. s.public # None =>
          s.text \in Text /\ release[BuildOf[s.text]] = [stage |-> "public", lock |-> s.public]
    BY <1>2, <1>4 DEF ReleaseFits, RunState
  <2>2. s.public # None => release'[BuildOf[s.text]] = [stage |-> "public", lock |-> s.public]
    BY <1>1, <1>3, <2>1
  <2>3. release'[b].stage = "draft"
    BY <1>1, <1>2, <1>3 DEF TypeOK, Release
  <2>4. QED
    BY <1>5, <1>6, <2>1, <2>2, <2>3 DEF ReleaseFits
<1>10. QED
  BY <1>1, <1>3, <1>5, <1>6, <1>7, <1>8, <1>9, Staged

LEMMA UndraftKeeps ==
  ASSUME IInv, NEW m \in Machine, Undraft(m) PROVE IInv'
<1> DEFINE b == run[m].lock.build
<1>1. /\ UNCHANGED <<world, cache, local, faults>> /\ run[m].pc = "undraft"
      /\ release' = [release EXCEPT ![b].stage = "public"]
      /\ run' = [run EXCEPT ![m] = Idle]
  BY DEF Undraft, At, Fails
<1>2. LockFits(run[m]) /\ ReleaseFits(run[m])
  BY AtWork
<1>3. b \in Build /\ release[b].stage \in {"draft", "public"}
  BY <1>1, <1>2 DEF LockFits, ReleaseFits, Publishing, Lock
<1>4. run'[m] = Idle
  BY <1>1, AtWork
<1>5. ReleaseFits(run[m])'
  BY <1>4, IdleFits DEF ReleaseFits
<1>6. QED
  BY <1>1, <1>3, <1>5, IdleFits, Staged

LEMMA KeepLocalKeeps ==
  ASSUME IInv, KeepLocal PROVE IInv'
BY FaultsStay, Ends DEF KeepLocal, Machine

-----------------------------------------------------------------------------
(* What happens around them *)

LEMMA FaultCounted ==
  ASSUME IInv, Faulty PROVE faults' \in 0 .. MaxFaults
BY CoreLockAssumption DEF IInv, TypeOK, Faulty

\* A step that moves no machine and no release.
LEMMA WorldTurns ==
  ASSUME IInv, UNCHANGED <<run, release, local>>, faults' \in 0 .. MaxFaults,
         tag' \in Commit, served' \in [Commit -> Digest \cup {None}], head' \in Text,
         cache' \in [Text -> Lock \cup {None}],
         \A t \in Text : cache'[t] \in {cache[t], None}
  PROVE  IInv'
<1>1. TypeOK'
  BY DEF IInv, TypeOK, local
<1>2. SoundLocks'
  <2>1. /\ \A t \in Text : cache'[t] \in {cache[t], None} /\ kept'[t] \in {kept[t], None}
        /\ left' \in {left, None} /\ SoundLocks
        /\ \A b \in Build : release'[b].lock \in {release[b].lock, None}
    BY DEF IInv, local
  <2>2. QED
    BY <2>1, StillSound
<1>3. OneUploader'
  BY DEF IInv, OneUploader, At
<1>4. ASSUME NEW m \in Machine PROVE RunFits(m, run[m])'
  <2>1. LockFits(run[m]) /\ ReleaseFits(run[m]) /\ PublicFits(m, run[m])
    BY AtWork
  <2>2. QED
    BY <2>1 DEF RunFits, LockFits, ReleaseFits, PublicFits
<1>5. QED
  BY <1>1, <1>2, <1>3, <1>4 DEF IInv

LEMMA RegenerateKeeps ==
  ASSUME IInv, Regenerate PROVE IInv'
<1>1. TypeOK
  BY DEF IInv
<1>2. served' \in [Commit -> Digest \cup {None}] /\ UNCHANGED <<tag, head, cache, local, release, run>>
  BY <1>1 DEF Regenerate, TypeOK
<1>3. faults' \in 0 .. MaxFaults
  BY FaultCounted DEF Regenerate
<1>4. QED
  BY <1>1, <1>2, <1>3, WorldTurns DEF TypeOK

LEMMA EditRecipeKeeps ==
  ASSUME IInv, EditRecipe PROVE IInv'
<1>1. TypeOK
  BY DEF IInv
<1>2. head' \in Text /\ UNCHANGED <<tag, served, cache, local, release, run>>
  BY <1>1 DEF EditRecipe, TypeOK
<1>3. faults' \in 0 .. MaxFaults
  BY FaultCounted DEF EditRecipe
<1>4. QED
  BY <1>1, <1>2, <1>3, WorldTurns DEF TypeOK

LEMMA EvictKeeps ==
  ASSUME IInv, Evict PROVE IInv'
<1>1. TypeOK
  BY DEF IInv
<1>2. /\ cache' \in [Text -> Lock \cup {None}]
      /\ \A t \in Text : cache'[t] \in {cache[t], None}
      /\ UNCHANGED <<tag, served, head, local, release, run>>
  BY <1>1 DEF Evict, TypeOK, world
<1>3. faults' \in 0 .. MaxFaults
  BY FaultCounted DEF Evict
<1>4. QED
  BY <1>1, <1>2, <1>3, WorldTurns DEF TypeOK

LEMMA AbortKeeps ==
  ASSUME IInv, NEW m \in Machine, Abort(m) PROVE IInv'
BY FaultCounted, Ends DEF Abort

\* Whoever looked at the tag only learns that it named something more.
LEMMA MoveTagKeeps ==
  ASSUME IInv, MoveTag PROVE IInv'
<1>1. TypeOK /\ faults' \in 0 .. MaxFaults
  BY FaultCounted DEF IInv, MoveTag
<1>2. tag' \in Commit /\ UNCHANGED <<served, head, cache, local, release>>
  BY <1>1 DEF MoveTag, TypeOK
<1>3. ASSUME NEW m \in Machine
      PROVE  run'[m] = run[m] \/ run'[m] = [run[m] EXCEPT !.tags = run[m].tags \cup {tag'}]
  BY DEF MoveTag
<1>4. ASSUME NEW m \in Machine
      PROVE  run'[m] \in RunState /\ run'[m].pc = run[m].pc /\ run'[m].lock = run[m].lock
             /\ RunFits(m, run[m])'
  <2>1. /\ run[m] \in RunState
        /\ LockFits(run[m]) /\ ReleaseFits(run[m]) /\ PublicFits(m, run[m])
    BY AtWork
  <2>2. PICK s : s = run'[m]
    OBVIOUS
  <2>3. /\ s \in RunState
        /\ s.pc = run[m].pc /\ s.text = run[m].text /\ s.commit = run[m].commit
        /\ s.found = run[m].found /\ s.signed = run[m].signed /\ s.lock = run[m].lock
        /\ s.source = run[m].source /\ s.given = run[m].given /\ s.public = run[m].public
        /\ run[m].tags \subseteq s.tags
    <3>1. CASE s = run[m]
      BY <2>1, <3>1
    <3>2. CASE s # run[m]
      <4>1. PICK k : k = run[m].tags \cup {tag'}
        OBVIOUS
      <4>2. k \in SUBSET Commit /\ run[m].tags \subseteq k
        BY <1>2, <2>1, <4>1 DEF RunState
      <4>3. s = [run[m] EXCEPT !.tags = k]
        BY <1>3, <2>2, <3>2, <4>1
      <4>4. QED
        BY <2>1, <4>2, <4>3 DEF RunState
    <3>3. QED
      BY <3>1, <3>2
  <2>4. LockFits(s)
    BY <2>1, <2>3 DEF LockFits
  <2>5. ReleaseFits(s) /\ PublicFits(m, s)
    BY <2>1, <2>3 DEF ReleaseFits, PublicFits
  <2>6. RunFits(m, run[m])'
    BY <1>2, <2>2, <2>4, <2>5 DEF RunFits, LockFits, ReleaseFits, PublicFits
  <2>7. QED
    BY <2>2, <2>3, <2>6
<1>5. run' \in [Machine -> RunState]
  BY <1>4 DEF MoveTag
<1>6. TypeOK'
  BY <1>1, <1>2, <1>5 DEF TypeOK, local
<1>7. SoundLocks'
  <2>1. /\ \A t \in Text : cache'[t] \in {cache[t], None} /\ kept'[t] \in {kept[t], None}
        /\ left' \in {left, None} /\ SoundLocks
        /\ \A b \in Build : release'[b].lock \in {release[b].lock, None}
    BY <1>2 DEF IInv, local
  <2>2. QED
    BY <2>1, StillSound
<1>8. OneUploader'
  BY <1>4 DEF IInv, OneUploader, At
<1>9. QED
  BY <1>4, <1>6, <1>7, <1>8 DEF IInv

\* No machine is at work, and the public releases are still there.
LEMMA RemoveDraftKeeps ==
  ASSUME IInv, RemoveDraft PROVE IInv'
<1>1. TypeOK /\ UNCHANGED <<world, cache, local, run, faults>>
  BY DEF IInv, RemoveDraft
<1>2. PICK b \in Build : /\ release[b].stage \in {"half", "draft"}
                         /\ release' = [release EXCEPT ![b] = NoRelease]
  BY DEF RemoveDraft
<1>3. NoRelease \in Release
  BY DEF NoRelease, Release
<1>4. /\ release' \in [Build -> Release]
      /\ \A x \in Build : release'[x] = release[x] \/ release'[x] = NoRelease
      /\ \A x \in Build : release[x].stage = "public" => release'[x] = release[x]
  BY <1>1, <1>2, <1>3 DEF TypeOK
<1>5. TypeOK'
  BY <1>1, <1>4 DEF TypeOK, world, local
<1>6. SoundLocks'
  <2>1. \A x \in Build : release'[x].lock \in {release[x].lock, None}
    BY <1>4 DEF NoRelease
  <2>2. /\ \A t \in Text : cache'[t] \in {cache[t], None} /\ kept'[t] \in {kept[t], None}
        /\ left' \in {left, None} /\ SoundLocks
    BY <1>1 DEF IInv, local
  <2>3. QED
    BY <2>1, <2>2, StillSound
<1>7. OneUploader'
  BY <1>1 DEF IInv, OneUploader, At
<1>8. ASSUME NEW m \in Machine PROVE RunFits(m, run[m])'
  <2>1. LockFits(run[m]) /\ ReleaseFits(run[m]) /\ PublicFits(m, run[m]) /\ run[m].pc = "idle"
    BY AtWork DEF RemoveDraft, Quiet, At
  <2>2. LockFits(run[m])' /\ PublicFits(m, run[m])'
    BY <1>1, <2>1 DEF LockFits, PublicFits
  <2>3. run[m].public # None =>
          release'[BuildOf[run[m].text]] = [stage |-> "public", lock |-> run[m].public]
    BY <1>4, <2>1 DEF ReleaseFits, Build
  <2>4. ReleaseFits(run[m])'
    BY <1>1, <2>1, <2>3 DEF ReleaseFits
  <2>5. QED
    BY <2>2, <2>4 DEF RunFits
<1>9. QED
  BY <1>5, <1>6, <1>7, <1>8 DEF IInv

-----------------------------------------------------------------------------
(* The invariant *)

LEMMA InitInvariant ==
  ASSUME Init PROVE IInv
<1>1. \A m \in Machine : run[m] = Idle
  BY DEF Init
<1>2. TypeOK
  <2>1. tag \in Commit /\ faults \in 0 .. MaxFaults
    BY CoreLockAssumption DEF Init
  <2>2. run \in [Machine -> RunState]
    BY IdleFits DEF Init
  <2>3. NoRelease \in Release
    BY DEF NoRelease, Release
  <2>4. QED
    BY <2>1, <2>2, <2>3, CoreLockAssumption DEF Init, TypeOK
<1>3. SoundLocks
  BY DEF Init, SoundLocks, NoRelease
<1>4. OneUploader
  BY <1>1, IdleFits DEF OneUploader, At
<1>5. \A m \in Machine : RunFits(m, run[m])
  BY <1>1, IdleFits DEF RunFits
<1>6. QED
  BY <1>2, <1>3, <1>4, <1>5 DEF IInv

LEMMA StepInvariant ==
  ASSUME IInv, [Next]_vars PROVE IInv'
<1>1. CASE UNCHANGED vars
  <2>1. /\ UNCHANGED <<run, release, local, faults, tag, served, head, cache>>
        /\ IInv /\ TypeOK
    BY <1>1 DEF vars, local, IInv
  <2>2. QED
    BY <2>1, FaultsStay, WorldTurns DEF TypeOK
<1>2. CASE Workflow
  BY <1>2, DiscoverKeeps, ReadReleaseKeeps, SaveCacheKeeps, CheckTagKeeps, ReadFileKeeps,
     FetchKeeps, DownloadKeeps, CompileKeeps, PublishKeeps, UploadKeeps, UndraftKeeps
     DEF Workflow, Machine
<1>3. CASE Maintainer
  BY <1>3, BuildByHandKeeps, BuildFromKeeps, KeepLocalKeeps, RemoveDraftKeeps, CheckTagKeeps,
     ReadFileKeeps, FetchKeeps, DownloadKeeps, CompileKeeps, PublishKeeps, UploadKeeps,
     UndraftKeeps DEF Maintainer, Machine
<1>4. CASE Around
  BY <1>4, MoveTagKeeps, RegenerateKeeps, EditRecipeKeeps, EvictKeeps, AbortKeeps DEF Around
<1>5. QED
  BY <1>1, <1>2, <1>3, <1>4 DEF Next

\* The invariant holds always.
THEOREM Invariant == Spec => []IInv
<1>1. Init => IInv
  BY InitInvariant
<1>2. IInv /\ [Next]_vars => IInv'
  BY StepInvariant
<1>3. QED
  BY <1>1, <1>2, PTL DEF Spec

\* Every variable keeps its type, the lock a machine goes by and the stage of a
\* release among them.
THEOREM TypeCorrect == Spec => []TypeOK
<1>1. IInv => TypeOK
  BY DEF IInv
<1>2. QED
  BY <1>1, Invariant, PTL

\* Whatever is published or may be started from was made from a sound lock, for any
\* number of texts, commits and faults (resolve_core.py:24-65, 104-129).
THEOREM LocksAreSound == Spec => []SoundLocks
<1>1. IInv => SoundLocks
  BY DEF IInv
<1>2. QED
  BY <1>1, Invariant, PTL

\* What is compiled is what the lock names, by its recipe, and a commit the tag
\* named since the lock was asked for (resolve_core.py:106, build_core.py:57-68).
THEOREM SourceIsCurrent == Spec => []CurrentSource
<1>1. IInv => CurrentSource
  <2> SUFFICES ASSUME IInv, NEW m \in Machine, run[m].pc = "compile"
               PROVE  /\ run[m].source = run[m].lock.digest /\ run[m].text = run[m].lock.text
                      /\ run[m].given \/ run[m].lock.commit \in run[m].tags
    BY DEF CurrentSource, At
  <2>1. LockFits(run[m])
    BY AtWork
  <2>2. QED
    BY <2>1 DEF LockFits, Held
<1>2. QED
  BY <1>1, Invariant, PTL

\* A workflow run that found its release public compiles what was published
\* (resolve_core.py:68-101, 111-117).
THEOREM PublishedIsRebuilt == Spec => []RebuildsThePublished
<1>1. IInv => RebuildsThePublished
  <2> SUFFICES ASSUME IInv, run["ci"].pc = "compile", run["ci"].public # None
               PROVE  run["ci"].lock = run["ci"].public
    BY DEF RebuildsThePublished, At
  <2>1. PublicFits("ci", run["ci"])
    BY AtWork DEF Machine
  <2>2. QED
    BY <2>1 DEF PublicFits, Held
<1>2. QED
  BY <1>1, Invariant, PTL

-----------------------------------------------------------------------------
(* The moves of one machine *)

\* A machine that goes on keeps what it knows.
LEMMA GoesOn ==
  ASSUME IInv, NEW m \in Machine, NEW w, Goes(m, w)
  PROVE  /\ run'[m].pc = w
         /\ UNCHANGED <<run[m].text, run[m].commit, run[m].found, run[m].signed, run[m].lock>>
         /\ \A n \in Machine : n # m => run'[n] = run[n]
<1>1. run \in [Machine -> RunState] /\ run[m] \in RunState
  BY AtWork
<1> QED BY <1>1 DEF Goes, RunState

LEMMA FailsOff ==
  ASSUME IInv, NEW m \in Machine, Fails(m)
  PROVE  run'[m].pc = "idle" /\ \A n \in Machine : n # m => run'[n] = run[n]
<1>1. run \in [Machine -> RunState]
  BY AtWork
<1>2. run'[m] = Idle /\ \A n \in Machine : n # m => run'[n] = run[n]
  BY <1>1 DEF Fails
<1> QED BY <1>2, IdleFits

LEMMA HoldingIs ==
  ASSUME IInv, NEW m \in Machine, NEW l, run' = [run EXCEPT ![m] = Holding(m, l)]
  PROVE  /\ run'[m].pc = (IF m = "ci" THEN "save" ELSE "download")
         /\ run'[m].signed = None /\ run'[m].lock = l /\ run'[m].text = run[m].text
         /\ \A n \in Machine : n # m => run'[n] = run[n]
<1>1. run \in [Machine -> RunState] /\ run[m] \in RunState
  BY AtWork
<1>2. run'[m] = Holding(m, l) /\ \A n \in Machine : n # m => run'[n] = run[n]
  BY <1>1
<1> QED BY <1>1, <1>2 DEF Holding, RunState

\* The operations of a machine within a run.
Works(m) ==
  \/ CheckTag(m) \/ ReadFile(m) \/ Fetch(m) \/ Download(m) \/ Compile(m)
  \/ Publish(m) \/ Upload(m) \/ Undraft(m)
  \/ m = "ci" /\ (ReadRelease \/ SaveCache)
  \/ m = "hand" /\ KeepLocal

\* What a step is, seen from the runs.
LEMMA Steps ==
  ASSUME [Next]_vars
  PROVE  \/ \E m \in Machine : Works(m)
         \/ Discover \/ BuildByHand \/ BuildFrom
         \/ RemoveDraft \/ MoveTag
         \/ Regenerate \/ EditRecipe \/ Evict
         \/ \E m \in Machine : Abort(m)
         \/ UNCHANGED vars
BY DEF Next, Workflow, Maintainer, Around, Works, Machine

-----------------------------------------------------------------------------
(* Public releases *)

\* The lock of a public release stays what it is, on whichever machine the core is
\* made again (resolve_core.py:68-101, build_core.py:57-68).
PublicNeverChanges ==
  [][\A b \in Build : release[b].stage = "public" => release'[b] = release[b]]_vars

\* A release gets a lock when there is none, and keeps it until the maintainer
\* removes the draft.
LEMMA LockStays ==
  ASSUME IInv, [Next]_vars, NEW b \in Build
  PROVE  /\ release[b].stage = "public" => release'[b] = release[b]
         /\ ~Quiet /\ release[b].lock # None => release'[b].lock = release[b].lock
<1>0. release \in [Build -> Release] /\ release[b] \in Release
  BY DEF IInv, TypeOK
<1>1. release[b].lock # None => release[b].stage # "none"
  BY <1>0 DEF Release
<1>2. ASSUME NEW m \in Machine, Publish(m) PROVE release'[b] = release[b] \/ release[b].stage = "none"
  <2>1. CASE UNCHANGED release
    BY <2>1
  <2>2. CASE /\ release[run[m].lock.build].stage = "none"
             /\ release' = [release EXCEPT ![run[m].lock.build] =
                                             [stage |-> "half", lock |-> run[m].lock]]
    BY <1>0, <2>2
  <2> QED BY <1>2, <2>1, <2>2 DEF Publish
<1>3. ASSUME NEW m \in Machine, Upload(m)
      PROVE  /\ release[b].stage = "public" => release'[b] = release[b]
             /\ release'[b].lock = release[b].lock
  <2>1. release[run[m].lock.build].stage = "half"
    <3>1. ReleaseFits(run[m]) /\ run[m].pc = "upload"
      BY <1>3, AtWork DEF Upload, At
    <3> QED BY <3>1 DEF ReleaseFits
  <2>2. release' = [release EXCEPT ![run[m].lock.build].stage = "draft"]
    BY <1>3 DEF Upload
  <2> QED BY <1>0, <2>1, <2>2 DEF Release
<1>4. ASSUME NEW m \in Machine, Undraft(m)
      PROVE  /\ release[b].stage = "public" => release'[b] = release[b]
             /\ release'[b].lock = release[b].lock
  <2>2. release' = [release EXCEPT ![run[m].lock.build].stage = "public"]
    BY <1>4 DEF Undraft
  <2> QED BY <1>0, <2>2 DEF Release
<1>5. CASE RemoveDraft
  BY <1>0, <1>5 DEF RemoveDraft
<1>6. ASSUME NEW m \in Machine, Works(m), ~Publish(m), ~Upload(m), ~Undraft(m)
      PROVE  release' = release
  BY <1>6 DEF Works, CheckTag, ReadRelease, ReadFile, Fetch, SaveCache, Download, Compile,
              KeepLocal
<1>7. CASE Discover \/ BuildByHand \/ BuildFrom \/ MoveTag \/ Regenerate \/ EditRecipe \/ Evict
           \/ (\E m \in Machine : Abort(m)) \/ UNCHANGED vars
  BY <1>7 DEF Discover, BuildByHand, BuildFrom, MoveTag, Regenerate, EditRecipe, Evict, Abort, vars
<1> QED BY <1>1, <1>2, <1>3, <1>4, <1>5, <1>6, <1>7, Steps

\* What is published stays as it is for every router that has fetched it.
THEOREM PublishedStays == Spec => PublicNeverChanges
<1>1. IInv /\ [Next]_vars =>
        [\A b \in Build : release[b].stage = "public" => release'[b] = release[b]]_vars
  BY LockStays
<1> QED BY <1>1, Invariant, PTL DEF Spec, PublicNeverChanges

-----------------------------------------------------------------------------
(* The steps a run has left *)

StepsFrom ==
  [idle |-> 0, undraft |-> 1, upload |-> 2, publish |-> 3, compile |-> 4, download |-> 5,
   save |-> 6, fetch |-> 7, file |-> 8, release |-> 9, tag |-> 10]

StepsLeft(m) == StepsFrom[run[m].pc]

\* A machine never goes back in its run, and each step of the workflow brings its
\* run nearer to the end or starts one (resolve_core.py:104-137).
RunsEnd ==
  [][/\ \A m \in Machine : ~At(m, "idle") => StepsLeft(m)' <= StepsLeft(m)
     /\ Workflow /\ ~At("ci", "idle") => StepsLeft("ci")' < StepsLeft("ci")]_vars

LEMMA StepsFromIs ==
  /\ StepsFrom["idle"] = 0 /\ StepsFrom["undraft"] = 1 /\ StepsFrom["upload"] = 2
  /\ StepsFrom["publish"] = 3 /\ StepsFrom["compile"] = 4 /\ StepsFrom["download"] = 5
  /\ StepsFrom["save"] = 6 /\ StepsFrom["fetch"] = 7 /\ StepsFrom["file"] = 8
  /\ StepsFrom["release"] = 9 /\ StepsFrom["tag"] = 10
BY DEF StepsFrom

\* Each step of a machine within a run leaves fewer, and the other machine's as they
\* are.
LEMMA StepsGoOn ==
  ASSUME IInv, NEW m \in Machine, Works(m)
  PROVE  /\ ~At(m, "idle") /\ StepsLeft(m)' < StepsLeft(m)
         /\ \A n \in Machine : n # m => run'[n] = run[n]
<1> DEFINE here == run[m].pc
           there == run'[m].pc
           alone == \A n \in Machine : n # m => run'[n] = run[n]
<1>0. run \in [Machine -> RunState] /\ run[m] \in RunState
  BY AtWork
<1>1. \A w : Goes(m, w) => there = w /\ alone
  BY GoesOn
<1>2. Fails(m) => there = "idle" /\ alone
  BY FailsOff
<1>3. \A l : run' = [run EXCEPT ![m] = Holding(m, l)] =>
        there \in {"save", "download"} /\ alone
  BY HoldingIs
<1>4. CASE CheckTag(m)
  <2>1. CASE run' = [run EXCEPT ![m].pc = IF m = "ci" THEN "release" ELSE "file", ![m].tags = {tag}]
    <3>1. there \in {"release", "file"} /\ alone
      BY <1>0, <2>1 DEF RunState
    <3> QED BY <1>4, <3>1, StepsFromIs DEF CheckTag, At, StepsLeft
  <2> QED BY <1>2, <1>4, <2>1, StepsFromIs DEF CheckTag, At, StepsLeft
<1>5. CASE m = "ci" /\ ReadRelease
  <2>1. ASSUME NEW l, run' = [run EXCEPT !["ci"].pc = "file", !["ci"].signed = l]
        PROVE  there = "file" /\ alone
    BY <1>0, <1>5, <2>1 DEF RunState
  <2>2. At(m, "release") /\ there \in {"file", "idle"} /\ alone
    BY <1>1, <1>2, <1>5, <2>1 DEF ReadRelease
  <2> QED BY <2>2, StepsFromIs DEF At, StepsLeft
<1>6. CASE ReadFile(m)
  <2>1. At(m, "file") /\ there \in {"fetch", "save", "download", "idle"} /\ alone
    BY <1>1, <1>2, <1>3, <1>6 DEF ReadFile
  <2> QED BY <2>1, StepsFromIs DEF At, StepsLeft
<1>7. CASE Fetch(m)
  <2>1. At(m, "fetch") /\ there \in {"save", "download", "idle"} /\ alone
    BY <1>2, <1>3, <1>7 DEF Fetch
  <2> QED BY <2>1, StepsFromIs DEF At, StepsLeft
<1>8. CASE m = "ci" /\ SaveCache
  <2>1. At(m, "save") /\ there = "download" /\ alone
    BY <1>1, <1>8 DEF SaveCache
  <2> QED BY <2>1, StepsFromIs DEF At, StepsLeft
<1>9. CASE Download(m)
  <2>1. ASSUME NEW d, run' = [run EXCEPT ![m].pc = "compile", ![m].source = d]
        PROVE  there = "compile" /\ alone
    BY <1>0, <2>1 DEF RunState
  <2>2. At(m, "download") /\ there \in {"compile", "idle"} /\ alone
    BY <1>2, <1>9, <2>1 DEF Download
  <2> QED BY <2>2, StepsFromIs DEF At, StepsLeft
<1>10. CASE Compile(m)
  <2>1. At(m, "compile") /\ run' = [run EXCEPT ![m] = [Idle EXCEPT !.pc = "publish", !.lock = run[m].lock]]
    BY <1>10 DEF Compile
  <2>2. there = "publish" /\ alone
    BY <1>0, <2>1 DEF Idle
  <2> QED BY <2>1, <2>2, StepsFromIs DEF At, StepsLeft
<1>11. CASE Publish(m)
  <2>1. At(m, "publish") /\ there \in {"upload", "undraft", "idle"} /\ alone
    BY <1>1, <1>2, <1>11 DEF Publish
  <2> QED BY <2>1, StepsFromIs DEF At, StepsLeft
<1>12. CASE Upload(m)
  BY <1>1, <1>12, StepsFromIs DEF Upload, At, StepsLeft
<1>13. CASE Undraft(m) \/ (m = "hand" /\ KeepLocal)
  BY <1>2, <1>13, StepsFromIs DEF Undraft, KeepLocal, At, StepsLeft
<1> QED
  BY <1>4, <1>5, <1>6, <1>7, <1>8, <1>9, <1>10, <1>11, <1>12, <1>13 DEF Works

\* A run on either machine is over after at most ten of its steps.
THEOREM EveryRunEnds == Spec => [](\A m \in Machine : StepsLeft(m) \in 0 .. 10) /\ RunsEnd
<1>1. ASSUME IInv, NEW m \in Machine PROVE StepsLeft(m) \in 0 .. 10
  <2>1. run[m].pc \in Phases
    BY <1>1, AtWork DEF RunState
  <2> QED BY <2>1, StepsFromIs DEF Phases, StepsLeft
<1>2. ASSUME IInv, [Next]_vars, NEW m \in Machine, ~At(m, "idle")
      PROVE  /\ StepsLeft(m)' <= StepsLeft(m)
             /\ m = "ci" /\ Workflow => StepsLeft(m)' < StepsLeft(m)
  <2>0. run \in [Machine -> RunState] /\ run[m] \in RunState /\ StepsLeft(m) \in 0 .. 10
    BY <1>1, <1>2, AtWork
  <2>1. StepsLeft(m)' \in 0 .. 10
    <3>1. IInv'
      BY <1>2, StepInvariant
    <3>2. run'[m].pc \in Phases
      BY <3>1 DEF IInv, TypeOK, RunState
    <3> QED BY <3>2, StepsFromIs DEF Phases, StepsLeft
  <2>2. Workflow => Discover \/ Works("ci")
    BY DEF Workflow, Works
  <2>3. m = "ci" /\ Workflow => StepsLeft(m)' < StepsLeft(m)
    BY <1>2, <2>2, StepsGoOn DEF Discover, At
  <2>4. ASSUME NEW n \in Machine, Works(n) PROVE StepsLeft(m)' <= StepsLeft(m)
    <3>1. CASE n = m
      BY <1>2, <2>0, <2>1, <2>4, <3>1, StepsGoOn
    <3>2. CASE n # m
      BY <1>2, <2>0, <2>4, <3>2, StepsGoOn DEF StepsLeft
    <3> QED BY <3>1, <3>2
  <2>5. ASSUME run'[m] = run[m] PROVE StepsLeft(m)' <= StepsLeft(m)
    BY <2>0, <2>5 DEF StepsLeft
  <2>6. ASSUME Discover \/ BuildByHand \/ BuildFrom PROVE StepsLeft(m)' <= StepsLeft(m)
    <3>1. run'[m] = run[m]
      BY <1>2, <2>0, <2>6 DEF Discover, BuildByHand, BuildFrom, At
    <3> QED BY <2>5, <3>1
  <2>7. ASSUME RemoveDraft \/ Regenerate \/ EditRecipe \/ Evict \/ UNCHANGED vars
        PROVE  StepsLeft(m)' <= StepsLeft(m)
    BY <2>5, <2>7 DEF RemoveDraft, Regenerate, EditRecipe, Evict, vars
  <2>8. ASSUME MoveTag PROVE StepsLeft(m)' <= StepsLeft(m)
    <3>1. run'[m].pc = run[m].pc
      BY <2>0, <2>8 DEF MoveTag, RunState
    <3> QED BY <2>0, <3>1 DEF StepsLeft
  <2>9. ASSUME NEW n \in Machine, Abort(n) PROVE StepsLeft(m)' <= StepsLeft(m)
    <3>1. run'[m] = run[m] \/ run'[m].pc = "idle"
      BY <1>2, <2>9, FailsOff DEF Abort
    <3>2. CASE run'[m].pc = "idle"
      BY <2>0, <3>2, StepsFromIs DEF StepsLeft
    <3> QED BY <2>5, <3>1, <3>2
  <2> QED BY <1>2, <2>3, <2>4, <2>6, <2>7, <2>8, <2>9, Steps
<1>3. IInv /\ [Next]_vars =>
        [/\ \A m \in Machine : ~At(m, "idle") => StepsLeft(m)' <= StepsLeft(m)
         /\ Workflow /\ ~At("ci", "idle") => StepsLeft("ci")' < StepsLeft("ci")]_vars
  BY <1>2 DEF Machine
<1>4. IInv => \A m \in Machine : StepsLeft(m) \in 0 .. 10
  BY <1>1
<1> QED BY <1>3, <1>4, Invariant, PTL DEF Spec, RunsEnd

-----------------------------------------------------------------------------
(* What a run of the workflow that no fault touches comes to *)

\* What the workflow's run has seen is still so: of the recipe and the tag, of the
\* cache and of the release, which the maintainer may have brought on meanwhile.
Fresh ==
  LET s == run["ci"] IN
  /\ s.pc \in {"tag"} \cup Choosing \cup Held => s.text = head
  /\ s.pc \in {"tag"} \cup Choosing => s.commit = tag
  /\ s.pc \in {"tag", "release", "file"} => s.found = cache[head]
  /\ s.pc = "fetch" => cache[head] = None
  /\ s.signed # None => release[BuildOf[head]].lock = s.signed
  /\ s.pc = "save" => cache[head] \in {None, s.lock}
  /\ s.pc \in Held \cup Publishing => s.lock.text = head
  /\ s.pc \in {"download", "compile"} \cup Publishing => cache[head] = s.lock

\* A run that starts sees what is so; without a fault it does to its end; and at its
\* end the core is published or one of the named refusals stands
\* (resolve_core.py:104-137, publish_core.py:117-163).
RunsDeliver ==
  [][faults' = faults =>
       /\ At("ci", "idle") /\ ~At("ci", "idle")' => Fresh'
       /\ ~At("ci", "idle") /\ ~At("ci", "idle")' /\ Fresh => Fresh'
       /\ ~At("ci", "idle") /\ At("ci", "idle")' /\ Fresh => Delivered' \/ Blocked]_vars

LEMMA TwoLocks ==
  ASSUME NEW a, NEW b
  PROVE  Cardinality({a, b} \ {None}) = 2 <=> a # None /\ b # None /\ a # b
<1> DEFINE S == {a, b} \ {None}
<1>1. CASE a # None /\ b # None /\ a # b
  <2>1. S = {a} \cup {b} /\ b \notin {a}
    BY <1>1
  <2>2. IsFiniteSet({a}) /\ Cardinality({a}) = 1
    BY FS_Singleton
  <2>3. Cardinality({a} \cup {b}) = 2
    BY <2>1, <2>2, FS_AddElement
  <2> QED BY <1>1, <2>1, <2>3
<1>2. CASE ~(a # None /\ b # None /\ a # b)
  <2>1. S = {} \/ \E c : S = {c}
    <3>1. CASE a = None
      <4>1. S = {} \/ S = {b}
        BY <3>1
      <4> QED BY <4>1
    <3>2. CASE a # None /\ (b = None \/ a = b)
      <4>1. S = {a}
        BY <3>2
      <4> QED BY <4>1
    <3> QED BY <1>2, <3>1, <3>2
  <2>2. Cardinality(S) \in {0, 1}
    BY <2>1, FS_EmptySet, FS_Singleton
  <2> QED BY <1>2, <2>2
<1> QED BY <1>1, <1>2

\* The refusals that a step can meet.
LEMMA BlockedBy ==
  /\ tag \notin Genuine \/ served[tag] = None => Blocked
  /\ \A p \in {PinOf[head]} :
       p # None /\ (p.commit # tag \/ p.digest # served[tag]) => Blocked
  /\ release[BuildOf[head]].stage = "half" => Blocked
  /\ LET r == release[BuildOf[head]] IN
       cache[head] # None /\ r.lock # None /\ cache[head] # r.lock => Blocked
  /\ \A l \in {cache[head], release[BuildOf[head]].lock} :
       l # None /\ (l.commit # tag \/ l.digest # served[tag] \/ l.text # head) => Blocked
<1> DEFINE r == release[BuildOf[head]]
           locks == {cache[head], r.lock} \ {None}
<1>1. cache[head] # None /\ r.lock # None /\ cache[head] # r.lock => Cardinality(locks) = 2
  BY TwoLocks
<1>2. ASSUME NEW p, p.commit # tag \/ p.digest # served[tag]
      PROVE  p # [commit |-> tag, digest |-> served[tag]]
  BY <1>2
<1>3. ASSUME NEW l, l.commit # tag \/ l.digest # served[tag] \/ l.text # head
      PROVE  <<l.commit, l.digest, l.text>> # <<tag, served[tag], head>>
  BY <1>3
<1> QED BY <1>1, <1>2, <1>3 DEF Blocked

\* What a run of the workflow knows of its lock.
LEMMA OwnLock ==
  ASSUME IInv, run["ci"].pc \in Held \cup Publishing
  PROVE  LET l == run["ci"].lock IN l \in Lock /\ l # None /\ Sound(l)
<1>1. LockFits(run["ci"])
  BY AtWork DEF Machine
<1>2. run["ci"].lock \in Lock
  BY <1>1 DEF LockFits
<1>3. run["ci"].lock # None
  BY <1>2, CoreLockAssumption
<1> QED BY <1>1, <1>2, <1>3 DEF LockFits

LEMMA Known ==
  ASSUME IInv
  PROVE  /\ head \in Text /\ tag \in Commit /\ BuildOf[head] \in Build
         /\ release[BuildOf[head]] \in Release
         /\ release[BuildOf[head]].stage = "none" => release[BuildOf[head]].lock = None
         /\ release[BuildOf[head]].stage # "none" =>
              release[BuildOf[head]].lock \in Lock /\ release[BuildOf[head]].lock # None
<1>1. head \in Text /\ tag \in Commit /\ BuildOf[head] \in Build /\ release[BuildOf[head]] \in Release
  BY DEF IInv, TypeOK, Build
<1> QED BY <1>1, CoreLockAssumption DEF Release

\* A step of the workflow keeps its run fresh, or the run ends with the core
\* published or with one of the refusals.
LEMMA OwnSteps ==
  ASSUME IInv, [Next]_vars, Works("ci"), Fresh
  PROVE  IF At("ci", "idle")' THEN Delivered' \/ Blocked ELSE Fresh'
<1> DEFINE s == run["ci"]
           t == run'["ci"]
           b == BuildOf[head]
           r == release[b]
<1>0. "ci" \in Machine /\ run \in [Machine -> RunState] /\ s \in RunState /\ s.pc # "idle"
  BY AtWork, StepsGoOn DEF Machine, At
<1>1. \A w : Goes("ci", w) =>
        /\ t.pc = w
        /\ t.text = s.text /\ t.commit = s.commit /\ t.found = s.found
        /\ t.signed = s.signed /\ t.lock = s.lock
  BY <1>0, GoesOn
<1>2. Fails("ci") => t.pc = "idle"
  BY <1>0, FailsOff
<1>3. \A l : run' = [run EXCEPT !["ci"] = Holding("ci", l)] =>
        t.pc = "save" /\ t.signed = None /\ t.lock = l /\ t.text = s.text
  BY <1>0, HoldingIs
<1>4. r.lock # None => release'[b].lock = r.lock
  BY <1>0, Known, LockStays DEF Quiet, At
<1> HIDE DEF s, t
<1> USE DEF At
<1>5. CASE CheckTag("ci")
  <2>1. s.pc = "tag" /\ s.text = head /\ s.commit = tag /\ s.found = cache[head]
        /\ UNCHANGED <<head, tag, cache, release>>
    BY <1>5 DEF CheckTag, Fresh, s, world
  <2>2. CASE Fails("ci") /\ PinOf[head] # None /\ PinOf[head].commit # tag
    BY <1>2, <2>2, BlockedBy DEF t
  <2>3. CASE run' = [run EXCEPT !["ci"].pc = "release", !["ci"].tags = {tag}]
    <3>1. t.pc = "release" /\ t.text = s.text /\ t.commit = s.commit /\ t.found = s.found
          /\ t.signed = s.signed /\ t.lock = s.lock
      BY <1>0, <2>3 DEF s, t, RunState
    <3> QED BY <2>1, <3>1 DEF Fresh, s, t, Choosing, Held, Publishing
  <2> QED BY <1>5, <2>1, <2>2, <2>3 DEF CheckTag, PinFor, s
<1>6. CASE ReadRelease
  <2>1. s.pc = "release" /\ s.text = head /\ s.commit = tag /\ s.found = cache[head]
        /\ ReleaseFor("ci") = r /\ UNCHANGED <<head, tag, cache, release>>
    BY <1>6 DEF ReadRelease, ReleaseFor, Fresh, s, world, Choosing
  <2>2. CASE Goes("ci", "file")
    BY <1>1, <2>1, <2>2 DEF Fresh, s, t, Choosing, Held, Publishing
  <2>3. CASE run' = [run EXCEPT !["ci"].pc = "file", !["ci"].signed = r.lock]
    <3>1. t.pc = "file" /\ t.text = s.text /\ t.commit = s.commit /\ t.found = s.found
          /\ t.signed = r.lock
      BY <1>0, <2>3 DEF s, t, RunState
    <3> QED BY <2>1, <3>1 DEF Fresh, t, Choosing, Held, Publishing
  <2>4. CASE Fails("ci") /\ r.stage # "none" /\ (r.stage = "half" \/ r.lock.text # head)
    BY <1>2, <2>4, Known, BlockedBy DEF t
  <2> QED BY <1>6, <2>1, <2>2, <2>3, <2>4 DEF ReadRelease, s
<1>7. CASE ReadFile("ci")
  <2> DEFINE locks == {s.found, s.signed} \ {None}
  <2>1. s.pc = "file" /\ s.text = head /\ s.commit = tag /\ s.found = cache[head]
        /\ (s.signed # None => r.lock = s.signed) /\ UNCHANGED <<head, tag, cache, release>>
    BY <1>7 DEF ReadFile, Fresh, s, world, Choosing
  <2>2. CASE locks = {} /\ Goes("ci", "fetch")
    <3>1. s.found = None /\ s.signed = None
      BY <2>2
    <3> QED BY <1>1, <2>1, <2>2, <3>1 DEF Fresh, s, t, Choosing, Held, Publishing
  <2>3. ASSUME NEW l \in locks, locks = {l}, l.text = s.text,
               run' = [run EXCEPT !["ci"] = Holding("ci", l)]
        PROVE  Fresh' /\ t.pc = "save"
    <3>1. s.found \in {None, l}
      BY <2>3
    <3> QED BY <1>3, <2>1, <2>3, <3>1 DEF Fresh, t, Choosing, Held, Publishing
  <2>4. ASSUME Fails("ci"),
               \/ Cardinality(locks) = 2
               \/ \E l \in locks : l.text # s.text \/ ~(l.build = BuildOf[s.text] /\ l.commit = s.commit)
        PROVE  Blocked /\ t.pc = "idle"
    <3>1. CASE Cardinality(locks) = 2
      <4>1. s.found # None /\ s.signed # None /\ s.found # s.signed
        BY <3>1, TwoLocks
      <4> QED BY <1>2, <2>1, <2>4, <4>1, BlockedBy
    <3>2. ASSUME NEW l \in locks,
                 l.text # s.text \/ ~(l.build = BuildOf[s.text] /\ l.commit = s.commit)
          PROVE  Blocked
      <4>1. l # None /\ l \in {cache[head], r.lock}
        BY <2>1
      <4>2. l.text # head \/ l.commit # tag
        <5>1. Sound(l)
          BY <1>0, AtWork DEF LockFits, s
        <5> QED BY <2>1, <3>2, <5>1 DEF Sound
      <4> QED BY <4>1, <4>2, BlockedBy
    <3> QED BY <1>2, <2>4, <3>1, <3>2
  <2>5. \/ locks = {} /\ Goes("ci", "fetch")
        \/ \E l \in locks : /\ locks = {l} /\ l.text = s.text
                            /\ run' = [run EXCEPT !["ci"] = Holding("ci", l)]
        \/ /\ Fails("ci")
           /\ \/ Cardinality(locks) = 2
              \/ \E l \in locks :
                   l.text # s.text \/ ~(l.build = BuildOf[s.text] /\ l.commit = s.commit)
    BY <1>7 DEF ReadFile, s
  <2> QED BY <2>2, <2>3, <2>4, <2>5 DEF t
<1>8. CASE Fetch("ci")
  <2>1. s.pc = "fetch" /\ s.text = head /\ s.commit = tag /\ cache[head] = None
        /\ UNCHANGED <<head, tag, cache, release>>
    BY <1>8 DEF Fetch, Fresh, s, world, Choosing
  <2>2. ASSUME NEW l, l.text = s.text, run' = [run EXCEPT !["ci"] = Holding("ci", l)]
        PROVE  Fresh' /\ t.pc = "save"
    BY <1>3, <2>1, <2>2 DEF Fresh, t, Choosing, Held, Publishing
  <2> DEFINE pin == PinOf[head]
             d == Downloaded("ci", tag, IF pin = None THEN None ELSE pin.digest)
  <2>3. d # None \/ served[tag] = None \/ (pin # None /\ pin.digest # served[tag])
    BY DEF Downloaded
  <2>4. ASSUME ~(d # None /\ tag \in Genuine), Fails("ci") PROVE Blocked /\ t.pc = "idle"
    BY <1>2, <2>3, <2>4, BlockedBy
  <2>5. \/ run' = [run EXCEPT !["ci"] =
                     Holding("ci", [build |-> BuildOf[s.text], commit |-> s.commit,
                                    digest |-> d, text |-> s.text])]
        \/ ~(d # None /\ tag \in Genuine) /\ Fails("ci")
    BY <1>8, <2>1 DEF Fetch, PinFor, s
  <2> HIDE DEF d
  <2> QED BY <2>2, <2>4, <2>5 DEF t
<1>9. CASE SaveCache
  <2>1. s.pc = "save" /\ s.text = head /\ s.lock.text = head /\ cache[head] \in {None, s.lock}
        /\ (s.signed # None => r.lock = s.signed) /\ UNCHANGED <<head, tag, release>>
    BY <1>9 DEF SaveCache, Fresh, s, world, Held
  <2>2. cache'[head] = s.lock
    BY <1>9, <2>1, Known DEF SaveCache, s, IInv, TypeOK
  <2> QED BY <1>1, <1>9, <2>1, <2>2 DEF SaveCache, Fresh, t, Choosing, Held, Publishing
<1>10. CASE Download("ci")
  <2>1. s.pc = "download" /\ s.text = head /\ s.lock.text = head /\ cache[head] = s.lock
        /\ (s.signed # None => r.lock = s.signed) /\ UNCHANGED <<head, tag, cache, release>>
    BY <1>10 DEF Download, Fresh, s, world, Held
  <2>2. s.lock \in Lock /\ s.lock # None /\ s.lock.commit \in Genuine
    BY <2>1, OwnLock DEF s, Held, Sound
  <2>3. ASSUME NEW d, run' = [run EXCEPT !["ci"].pc = "compile", !["ci"].source = d]
        PROVE  Fresh' /\ t.pc = "compile"
    <3>1. t.pc = "compile" /\ t.text = s.text /\ t.signed = s.signed /\ t.lock = s.lock
      BY <1>0, <2>3 DEF s, t, RunState
    <3> QED BY <2>1, <3>1 DEF Fresh, t, Choosing, Held, Publishing
  <2>4. ASSUME Fails("ci"),
               Downloaded("ci", s.lock.commit, s.lock.digest) = None \/ s.lock.commit \notin Genuine
        PROVE  Blocked /\ t.pc = "idle"
    <3>1. served[s.lock.commit] # s.lock.digest
      BY <2>2, <2>4, CoreLockAssumption DEF Downloaded, Lock
    <3>2. s.lock.commit # tag \/ s.lock.digest # served[tag]
      BY <3>1
    <3> QED BY <1>2, <2>1, <2>2, <2>4, <3>2, BlockedBy
  <2> QED BY <1>10, <2>3, <2>4 DEF Download, s, t
<1>11. CASE Compile("ci")
  <2>1. s.pc = "compile" /\ s.lock.text = head /\ cache[head] = s.lock
        /\ UNCHANGED <<head, tag, cache, release>>
    BY <1>11 DEF Compile, Fresh, s, world, Held
  <2>2. t = [Idle EXCEPT !.pc = "publish", !.lock = s.lock]
    BY <1>0, <1>11 DEF Compile, s, t
  <2>3. t.pc = "publish" /\ t.signed = None /\ t.lock = s.lock
    BY <2>2 DEF Idle
  <2> QED BY <2>1, <2>3 DEF Fresh, t, Choosing, Held, Publishing
<1>12. CASE Publish("ci")
  <2>1. s.pc = "publish" /\ s.lock.text = head /\ cache[head] = s.lock /\ s.lock # None
        /\ (s.signed # None => r.lock = s.signed) /\ s.lock.build = b
        /\ UNCHANGED <<head, tag, cache>>
    BY <1>12, OwnLock DEF Publish, Fresh, s, world, Publishing, Sound
  <2>2. ASSUME NEW w \in {"upload", "undraft"}, Goes("ci", w) PROVE Fresh' /\ t.pc # "idle"
    <3>1. s.signed # None => release'[b].lock = s.signed
      BY <1>4, <2>1
    <3> QED BY <1>1, <2>1, <2>2, <3>1 DEF Fresh, t, Choosing, Held, Publishing
  <2>3. ASSUME Fails("ci"), UNCHANGED release, r.stage # "none", r.stage = "draft" => r.lock # s.lock
        PROVE  (Delivered' \/ Blocked) /\ t.pc = "idle"
    <3>1. r.stage \in {"half", "draft", "public"}
      BY <2>3, Known DEF Release, Stages
    <3>2. CASE r.stage = "public"
      BY <1>2, <2>1, <2>3, <3>2 DEF Delivered
    <3>3. CASE r.stage = "half"
      BY <1>2, <2>3, <3>3, BlockedBy
    <3>4. CASE r.stage = "draft"
      <4>1. cache[head] # None /\ r.lock # None /\ cache[head] # r.lock
        BY <2>1, <2>3, <3>4, Known
      <4> QED BY <1>2, <2>3, <4>1, BlockedBy
    <3> QED BY <3>1, <3>2, <3>3, <3>4
  <2> QED BY <1>12, <2>1, <2>2, <2>3 DEF Publish, s, t
<1>13. CASE Upload("ci")
  <2>1. s.pc = "upload" /\ s.lock.text = head /\ cache[head] = s.lock
        /\ (s.signed # None => r.lock = s.signed)
        /\ Goes("ci", "undraft") /\ UNCHANGED <<head, tag, cache>>
    BY <1>13 DEF Upload, Fresh, s, world, Publishing
  <2>2. s.signed # None => release'[b].lock = s.signed
    BY <1>4, <2>1
  <2> QED BY <1>1, <2>1, <2>2 DEF Fresh, t, Choosing, Held, Publishing
<1>14. CASE Undraft("ci")
  <2>1. s.pc = "undraft" /\ s.lock.text = head /\ Fails("ci") /\ UNCHANGED head
        /\ release' = [release EXCEPT ![s.lock.build].stage = "public"]
    BY <1>14 DEF Undraft, Fresh, s, world, Publishing
  <2>2. s.lock.build = b
    BY <2>1, OwnLock DEF s, Publishing, Sound
  <2>3. release'[b].stage = "public"
    BY <2>1, <2>2, Known DEF IInv, TypeOK, Release
  <2> QED BY <1>2, <2>1, <2>3 DEF Delivered, t
<1> QED
  BY <1>5, <1>6, <1>7, <1>8, <1>9, <1>10, <1>11, <1>12, <1>13, <1>14 DEF Works, Machine

\* Nothing the maintainer does without a fault makes it stale.
LEMMA OthersSteps ==
  ASSUME IInv, [Next]_vars, faults' = faults, ~Works("ci"), ~At("ci", "idle")
  PROVE  run'["ci"] = run["ci"] /\ UNCHANGED <<head, tag, cache>>
<1>0. faults \in Nat /\ run \in [Machine -> RunState]
  BY AtWork, CoreLockAssumption DEF IInv, TypeOK
<1>1. ~Faulty
  BY <1>0 DEF Faulty
<1>2. ~Discover /\ ~RemoveDraft /\ ~MoveTag /\ ~Regenerate /\ ~EditRecipe /\ ~Evict
      /\ \A m \in Machine : ~Abort(m)
  BY <1>1 DEF Discover, RemoveDraft, Quiet, Machine, MoveTag, Regenerate, EditRecipe, Evict, Abort
<1>3. CASE Works("hand")
  <2>1. run'["ci"] = run["ci"]
    BY <1>3, StepsGoOn DEF Machine
  <2> QED BY <1>3, <2>1 DEF Works, CheckTag, ReadFile, Fetch, Download, Compile, Publish, Upload,
                            Undraft, KeepLocal, world
<1>4. CASE BuildByHand \/ BuildFrom
  BY <1>0, <1>4 DEF BuildByHand, BuildFrom, world, Machine
<1>5. CASE UNCHANGED vars
  BY <1>5 DEF vars
<1> QED BY <1>2, <1>3, <1>4, <1>5, Steps DEF Machine

\* Whatever the maintainer does meanwhile, a run of the workflow that meets no fault
\* leaves the core of the current recipe published or one of the refusals standing.
THEOREM NoRunEndsInVain == Spec => RunsDeliver
<1>1. IInv /\ [Next]_vars =>
        [faults' = faults =>
           /\ At("ci", "idle") /\ ~At("ci", "idle")' => Fresh'
           /\ ~At("ci", "idle") /\ ~At("ci", "idle")' /\ Fresh => Fresh'
           /\ ~At("ci", "idle") /\ At("ci", "idle")' /\ Fresh => Delivered' \/ Blocked]_vars
  <2> SUFFICES ASSUME IInv, [Next]_vars, faults' = faults
               PROVE  /\ At("ci", "idle") /\ ~At("ci", "idle")' => Fresh'
                      /\ ~At("ci", "idle") /\ Fresh =>
                           IF At("ci", "idle")' THEN Delivered' \/ Blocked ELSE Fresh'
    OBVIOUS
  <2>1. ASSUME At("ci", "idle"), ~At("ci", "idle")' PROVE Fresh'
    <3>0. "ci" \in Machine /\ run \in [Machine -> RunState]
      BY AtWork DEF Machine
    <3>1. ~Works("ci")
      BY <2>1, <3>0, StepsGoOn
    <3>2. ~Works("hand")
      <4>1. Works("hand") => run'["ci"] = run["ci"]
        BY StepsGoOn DEF Machine
      <4> QED BY <2>1, <4>1 DEF At
    <3>3. Discover
      <4>1. ~BuildByHand /\ ~BuildFrom /\ ~RemoveDraft /\ ~Regenerate /\ ~EditRecipe /\ ~Evict
            /\ ~UNCHANGED vars
        BY <2>1, <3>0 DEF At, BuildByHand, BuildFrom, RemoveDraft, Regenerate, EditRecipe, Evict,
                          vars
      <4>2. faults \in Nat
        BY CoreLockAssumption DEF IInv, TypeOK
      <4>3. ~MoveTag /\ \A m \in Machine : ~Abort(m)
        BY <4>2 DEF MoveTag, Abort, Faulty
      <4> QED BY <3>1, <3>2, <4>1, <4>3, Steps DEF Machine
    <3>4. run'["ci"] = [Started("tag") EXCEPT !.found = cache[head]]
      BY <3>0, <3>3 DEF Discover
    <3>5. /\ run'["ci"].pc = "tag" /\ run'["ci"].text = head /\ run'["ci"].commit = tag
          /\ run'["ci"].found = cache[head] /\ run'["ci"].signed = None
      BY <3>4 DEF Started, Idle
    <3> QED BY <3>3, <3>5 DEF Discover, Fresh, world, Choosing, Held, Publishing
  <2>2. ASSUME ~At("ci", "idle"), Fresh, ~Works("ci") PROVE Fresh' /\ ~At("ci", "idle")'
    <3>1. run'["ci"] = run["ci"] /\ UNCHANGED <<head, tag, cache>>
      BY <2>2, OthersSteps
    <3>2. release[BuildOf[head]].lock # None =>
            release'[BuildOf[head]].lock = release[BuildOf[head]].lock
      BY <2>2, Known, LockStays DEF Quiet, Machine
    <3> QED BY <2>2, <3>1, <3>2 DEF Fresh, At
  <2> QED BY <2>1, <2>2, OwnSteps
<1> QED BY <1>1, Invariant, PTL DEF Spec, RunsDeliver
=============================================================================
