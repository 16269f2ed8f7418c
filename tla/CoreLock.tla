------------------------------ MODULE CoreLock ------------------------------
(***************************************************************************)
(* The dependency lock of a core (tools/resolve_core.py, build_core.py,    *)
(* check_stable.py): from the upstream tag over the archive of its commit  *)
(* to the compiled and published core of one upstream version.             *)
(*                                                                         *)
(* Two machines make cores.  The workflow's runs (ci) follow one another;  *)
(* each starts on a fresh machine and finds the lock of an earlier run     *)
(* only in the cache of the Actions or in the published release.  The      *)
(* maintainer's machine (hand) keeps its locks and archives.  Meanwhile    *)
(* upstream may move its tag, the archive of a commit may be served with   *)
(* other bytes, the recipe is edited, the cache is evicted, and runs die.  *)
(*                                                                         *)
(* A text is the content of the recipe and of the scripts recipe_hash      *)
(* covers; it fixes the build number and, for the initial version, the     *)
(* pinned commit and digest.  The Go part of a lock is a function of the   *)
(* source and is left out, as is the verification of the compiled core.    *)
(***************************************************************************)
EXTENDS Naturals, FiniteSets

CONSTANTS Commit,     \* upstream commits the tag may name
          Genuine,    \* those whose VERSION.txt is the version of the tag
          Digest,     \* SHA-256 of the archives a commit may be served as
          FirstDigest,\* the one every archive has at first
          Text,       \* contents of the recipe
          BuildOf,    \* RECIPE["build"] of each text
          PinOf,      \* initial_source_commit and _sha256 of each text, or None
          None,       \* no lock, no pin, not served
          MaxFaults   \* bound on faults and edits

Machine == {"ci", "hand"}
Build == {BuildOf[t] : t \in Text}
Pin == [commit : Commit, digest : Digest]
Lock == [build : Build, commit : Commit, digest : Digest, text : Text]

ASSUME CoreLockAssumption ==
  /\ Genuine \subseteq Commit
  /\ FirstDigest \in Digest
  /\ BuildOf \in [Text -> Nat]
  /\ PinOf \in [Text -> Pin \cup {None}]
  /\ None \notin Digest \cup Pin \cup Lock
  /\ MaxFaults \in Nat

VARIABLES
  tag,       \* the commit upstream's tag names
  served,    \* the archive codeload serves for each commit
  head,      \* the recipe in the repository
  cache,     \* the lock in the Actions cache under the key of each text
  kept,      \* hand: .cache/locks, a lock for each text
  left,      \* hand: build/core-lock.json
  archive,   \* hand: .cache/downloads, an archive for each commit
  release,   \* the release of each build
  run,       \* what each machine is doing
  faults

vars == <<tag, served, head, cache, kept, left, archive, release, run, faults>>
local == <<kept, left, archive>>
world == <<tag, served, head>>

-----------------------------------------------------------------------------
\* A release is none, a draft that lacks assets, a whole draft, or public.
Stages == {"none", "half", "draft", "public"}
Release == [stage : {"none"}, lock : {None}] \cup [stage : Stages \ {"none"}, lock : Lock]

Phases == {"idle", "tag", "release", "file", "fetch", "save",
           "download", "compile", "publish", "upload", "undraft"}

\* found: the lock in the file resolve is given; signed: the one published_lock
\* returned; lock: the one the machine goes by; source: the archive it extracted.
\* The rest is kept for the properties: given tells that the lock came with
\* --lock, tags what the tag named since resolve looked at it, and public the lock
\* of a release that was public at the start.
RunState == [pc : Phases, text : Text \cup {None}, commit : Commit \cup {None},
             found : Lock \cup {None}, signed : Lock \cup {None}, lock : Lock \cup {None},
             source : Digest \cup {None},
             given : BOOLEAN, tags : SUBSET Commit, public : Lock \cup {None}]

TypeOK ==
  /\ tag \in Commit
  /\ served \in [Commit -> Digest \cup {None}]
  /\ head \in Text
  /\ cache \in [Text -> Lock \cup {None}] /\ kept \in [Text -> Lock \cup {None}]
  /\ left \in Lock \cup {None}
  /\ archive \in [Commit -> Digest \cup {None}]
  /\ release \in [Build -> Release]
  /\ run \in [Machine -> RunState]
  /\ faults \in 0 .. MaxFaults

Idle == [pc |-> "idle", text |-> None, commit |-> None, found |-> None, signed |-> None,
         lock |-> None, source |-> None, given |-> FALSE, tags |-> {}, public |-> None]

NoRelease == [stage |-> "none", lock |-> None]

Init ==
  /\ tag \in Genuine
  /\ served = [c \in Commit |-> FirstDigest]
  /\ head \in Text
  /\ cache = [t \in Text |-> None] /\ kept = [t \in Text |-> None]
  /\ left = None
  /\ archive = [c \in Commit |-> None]
  /\ release = [b \in Build |-> NoRelease]
  /\ run = [m \in Machine |-> Idle]
  /\ faults = 0

At(m, where) == run[m].pc = where
Quiet == \A m \in Machine : At(m, "idle")
Goes(m, where) == run' = [run EXCEPT ![m].pc = where]
Fails(m) == run' = [run EXCEPT ![m] = Idle]
PinFor(m) == PinOf[run[m].text]
ReleaseFor(m) == release[BuildOf[run[m].text]]

\* resolve returns a lock: what it was chosen from is not looked at again.
Holding(m, l) ==
  [run[m] EXCEPT !.pc = IF m = "ci" THEN "save" ELSE "download",
                 !.found = None, !.signed = None, !.lock = l]

Started(where) ==
  [Idle EXCEPT !.pc = where, !.text = head, !.commit = tag,
               !.public = LET r == release[BuildOf[head]] IN
                          IF r.stage = "public" THEN r.lock ELSE None]

-----------------------------------------------------------------------------
(* Starting *)

\* check_stable.py asks for the commit of the tag, and the lock is restored from
\* the cache, whose key holds version, build and recipe key but not the commit.
Discover ==
  /\ At("ci", "idle")
  /\ run' = [run EXCEPT !["ci"] = [Started("tag") EXCEPT !.found = cache[head]]]
  /\ UNCHANGED <<world, cache, local, release, faults>>

\* build_core.py without --lock.
BuildByHand ==
  /\ At("hand", "idle")
  /\ run' = [run EXCEPT !["hand"] = [Started("tag") EXCEPT !.found = kept[head]]]
  /\ UNCHANGED <<world, cache, local, release, faults>>

\* build_core.py --lock build/core-lock.json.
BuildFrom ==
  /\ At("hand", "idle")
  /\ left # None /\ left.text = head /\ left.build = BuildOf[head]
  /\ run' = [run EXCEPT !["hand"] = [Started("download") EXCEPT
                                       !.lock = left, !.given = TRUE]]
  /\ UNCHANGED <<world, cache, local, release, faults>>

-----------------------------------------------------------------------------
(* resolve *)

\* Mutant: the pin is not looked at.
CheckTagUnpinned(m) ==
  /\ At(m, "tag")
  /\ \/ /\ tag = run[m].commit
        /\ run' = [run EXCEPT ![m].pc = IF m = "ci" THEN "release" ELSE "file",
                              ![m].tags = {tag}]
     \/ tag # run[m].commit /\ Fails(m)
  /\ UNCHANGED <<world, cache, local, release, faults>>

\* The tag must still name the discovered commit, and the pinned one.  Only the
\* workflow looks for a published lock.
CheckTag(m) ==
  /\ At(m, "tag")
  /\ LET stands == /\ tag = run[m].commit
                   /\ PinFor(m) # None => run[m].commit = PinFor(m).commit IN
     \/ /\ stands
        /\ run' = [run EXCEPT ![m].pc = IF m = "ci" THEN "release" ELSE "file",
                              ![m].tags = {tag}]
     \/ ~stands /\ Fails(m)
  /\ UNCHANGED <<world, cache, local, release, faults>>

\* Mutant: only a public release is read.
ReadReleasePublic ==
  /\ At("ci", "release")
  /\ LET r == ReleaseFor("ci") IN
     \/ r.stage = "none" /\ Goes("ci", "file")
     \/ /\ r.stage = "public" /\ r.lock.text = run["ci"].text
        /\ run' = [run EXCEPT !["ci"].pc = "file", !["ci"].signed = r.lock]
     \/ /\ r.stage # "none"
        /\ r.stage = "public" => r.lock.text # run["ci"].text
        /\ Fails("ci")
  /\ UNCHANGED <<world, cache, local, release, faults>>

\* published_lock: a release without its manifest or metadata is an error, and so
\* is a lock made by another recipe.
ReadRelease ==
  /\ At("ci", "release")
  /\ LET r == ReleaseFor("ci") IN
     \/ r.stage = "none" /\ Goes("ci", "file")
     \/ /\ r.stage \in {"draft", "public"} /\ r.lock.text = run["ci"].text
        /\ run' = [run EXCEPT !["ci"].pc = "file", !["ci"].signed = r.lock]
     \/ r.stage = "half" /\ Fails("ci")
     \/ r.stage \in {"draft", "public"} /\ r.lock.text # run["ci"].text /\ Fails("ci")
  /\ UNCHANGED <<world, cache, local, release, faults>>

\* Mutant: the lock of the file is preferred to the published one.
ReadFilePreferred(m) ==
  LET chosen == IF run[m].found # None THEN run[m].found ELSE run[m].signed
      fits(l) == l.build = BuildOf[run[m].text] /\ l.commit = run[m].commit IN
  /\ At(m, "file")
  /\ \/ chosen = None /\ Goes(m, "fetch") /\ UNCHANGED kept
     \/ /\ chosen # None /\ fits(chosen)
        /\ run' = [run EXCEPT ![m] = Holding(m, chosen)]
        /\ kept' = IF m = "ci" THEN kept ELSE [kept EXCEPT ![run[m].text] = chosen]
     \/ chosen # None /\ ~fits(chosen) /\ Fails(m) /\ UNCHANGED kept
  /\ UNCHANGED <<world, cache, left, archive, release, faults>>

\* The lock of the file and the published one must agree, and be for this commit.
\* Without either the source is fetched.
ReadFile(m) ==
  LET locks == {run[m].found, run[m].signed} \ {None}
      fits(l) == l.build = BuildOf[run[m].text] /\ l.commit = run[m].commit IN
  /\ At(m, "file")
  /\ \/ locks = {} /\ Goes(m, "fetch") /\ UNCHANGED kept
     \/ \E l \in locks :
          /\ locks = {l} /\ l.text = run[m].text /\ fits(l)
          /\ run' = [run EXCEPT ![m] = Holding(m, l)]
          /\ kept' = IF m = "ci" THEN kept ELSE [kept EXCEPT ![run[m].text] = l]
     \/ /\ \/ Cardinality(locks) = 2
           \/ \E l \in locks : l.text # run[m].text \/ ~fits(l)
        /\ Fails(m) /\ UNCHANGED kept
  /\ UNCHANGED <<world, cache, left, archive, release, faults>>

\* What download(url, archive, expected) returns and leaves, or None.
Downloaded(m, c, expected) ==
  IF m = "hand" /\ archive[c] # None /\ archive[c] = expected THEN expected
  ELSE IF expected \in {None, served[c]} THEN served[c] ELSE None

\* Without a pin the archive is removed and fetched afresh: it makes the digest
\* of the lock.
Fetch(m) ==
  LET c == run[m].commit
      d == Downloaded(m, c, IF PinFor(m) = None THEN None ELSE PinFor(m).digest)
      l == [build |-> BuildOf[run[m].text], commit |-> c, digest |-> d, text |-> run[m].text] IN
  /\ At(m, "fetch")
  /\ archive' = IF m = "hand" /\ (d # None \/ PinFor(m) = None)
                THEN [archive EXCEPT ![c] = d] ELSE archive
  /\ \/ /\ d # None /\ c \in Genuine
        /\ run' = [run EXCEPT ![m] = Holding(m, l)]
        /\ kept' = IF m = "ci" THEN kept ELSE [kept EXCEPT ![run[m].text] = l]
     \/ ~(d # None /\ c \in Genuine) /\ Fails(m) /\ UNCHANGED kept
  /\ UNCHANGED <<world, cache, left, release, faults>>

\* An entry of the cache is never replaced.
SaveCache ==
  /\ At("ci", "save")
  /\ cache' = [cache EXCEPT ![run["ci"].text] = IF @ = None THEN run["ci"].lock ELSE @]
  /\ Goes("ci", "download")
  /\ UNCHANGED <<world, local, release, faults>>

-----------------------------------------------------------------------------
(* build_core.py and publication *)

\* Mutant: the digest of the lock is not handed to download.
DownloadUnchecked(m) ==
  LET c == run[m].lock.commit
      d == Downloaded(m, c, None) IN
  /\ At(m, "download")
  /\ archive' = IF m = "hand" /\ d # None THEN [archive EXCEPT ![c] = d] ELSE archive
  /\ \/ /\ d # None /\ c \in Genuine
        /\ run' = [run EXCEPT ![m].pc = "compile", ![m].source = d]
     \/ ~(d # None /\ c \in Genuine) /\ Fails(m)
  /\ UNCHANGED <<world, cache, kept, left, release, faults>>

\* The archive must have the digest of the lock and be of the version.
Download(m) ==
  LET c == run[m].lock.commit
      d == Downloaded(m, c, run[m].lock.digest) IN
  /\ At(m, "download")
  /\ archive' = IF m = "hand" /\ d # None THEN [archive EXCEPT ![c] = d] ELSE archive
  /\ \/ /\ d # None /\ c \in Genuine
        /\ run' = [run EXCEPT ![m].pc = "compile", ![m].source = d]
     \/ ~(d # None /\ c \in Genuine) /\ Fails(m)
  /\ UNCHANGED <<world, cache, kept, left, release, faults>>

Compile(m) ==
  /\ At(m, "compile")
  /\ left' = IF m = "hand" THEN run[m].lock ELSE left
  /\ run' = [run EXCEPT ![m] = [Idle EXCEPT !.pc = "publish", !.lock = run[m].lock]]
  /\ UNCHANGED <<world, cache, kept, archive, release, faults>>

\* publish_core.py, whose steps are those of module Publish: a release with other
\* artifacts, and a draft that lacks some, are refused.
Publish(m) ==
  LET b == run[m].lock.build IN
  /\ At(m, "publish")
  /\ \/ /\ release[b].stage = "none"
        /\ release' = [release EXCEPT ![b] = [stage |-> "half", lock |-> run[m].lock]]
        /\ Goes(m, "upload")
     \/ /\ release[b].stage = "draft" /\ release[b].lock = run[m].lock
        /\ Goes(m, "undraft") /\ UNCHANGED release
     \/ /\ release[b].stage # "none"
        /\ release[b].stage = "draft" => release[b].lock # run[m].lock
        /\ Fails(m) /\ UNCHANGED release
  /\ UNCHANGED <<world, cache, local, faults>>

Upload(m) ==
  /\ At(m, "upload")
  /\ release' = [release EXCEPT ![run[m].lock.build].stage = "draft"]
  /\ Goes(m, "undraft")
  /\ UNCHANGED <<world, cache, local, faults>>

\* With this the release is public and the machine is done.
Undraft(m) ==
  /\ At(m, "undraft")
  /\ release' = [release EXCEPT ![run[m].lock.build].stage = "public"]
  /\ Fails(m)
  /\ UNCHANGED <<world, cache, local, faults>>

\* The maintainer built a core without publishing it.
KeepLocal ==
  /\ At("hand", "publish")
  /\ Fails("hand")
  /\ UNCHANGED <<world, cache, local, release, faults>>

-----------------------------------------------------------------------------
(* What happens around them *)

Faulty == faults < MaxFaults /\ faults' = faults + 1

MoveTag ==
  /\ Faulty
  /\ tag' \in Commit \ {tag}
  /\ run' = [m \in Machine |-> IF run[m].tags = {} THEN run[m]
                               ELSE [run[m] EXCEPT !.tags = @ \cup {tag'}]]
  /\ UNCHANGED <<served, head, cache, local, release>>

\* codeload serves the same commit with other bytes, or not at all.
Regenerate ==
  /\ Faulty
  /\ \E c \in Commit : \E d \in (Digest \cup {None}) \ {served[c]} :
       served' = [served EXCEPT ![c] = d]
  /\ UNCHANGED <<tag, head, cache, local, release, run>>

\* A commit changes the recipe; runs go by the commit they checked out.
EditRecipe ==
  /\ Faulty
  /\ head' \in Text \ {head}
  /\ UNCHANGED <<tag, served, cache, local, release, run>>

Evict ==
  /\ Faulty
  /\ \E t \in Text : cache[t] # None /\ cache' = [cache EXCEPT ![t] = None]
  /\ UNCHANGED <<world, local, release, run>>

Abort(m) ==
  /\ ~At(m, "idle")
  /\ Faulty
  /\ Fails(m)
  /\ UNCHANGED <<world, cache, local, release>>

\* The maintainer removes a draft when nobody works on it.
RemoveDraft ==
  /\ Quiet
  /\ \E b \in Build : release[b].stage \in {"half", "draft"}
                      /\ release' = [release EXCEPT ![b] = NoRelease]
  /\ UNCHANGED <<world, cache, local, run, faults>>

Workflow ==
  \/ Discover \/ ReadRelease \/ SaveCache
  \/ CheckTag("ci") \/ ReadFile("ci") \/ Fetch("ci") \/ Download("ci") \/ Compile("ci")
  \/ Publish("ci") \/ Upload("ci") \/ Undraft("ci")

Maintainer ==
  \/ BuildByHand \/ BuildFrom \/ KeepLocal \/ RemoveDraft
  \/ CheckTag("hand") \/ ReadFile("hand") \/ Fetch("hand") \/ Download("hand")
  \/ Compile("hand") \/ Publish("hand") \/ Upload("hand") \/ Undraft("hand")

Around ==
  \/ MoveTag \/ Regenerate \/ EditRecipe \/ Evict
  \/ \E m \in Machine : Abort(m)

Next == Workflow \/ Maintainer \/ Around

\* The schedule goes on and the runner works; nobody owes anything else.
Spec == Init /\ [][Next]_vars /\ WF_vars(Workflow)

-----------------------------------------------------------------------------
(* Properties *)

\* A lock is sound when its source is of the version, its build number is its
\* recipe's, and it obeys the pin of its recipe.
Sound(l) ==
  /\ l.commit \in Genuine
  /\ l.build = BuildOf[l.text]
  /\ PinOf[l.text] # None => [commit |-> l.commit, digest |-> l.digest] = PinOf[l.text]

\* Whatever is published was made from a sound lock, and so is whatever a later
\* build may start from: no cache, file or draft can bring in another source
\* (resolve_core.py:24-65, 104-129).
SoundLocks ==
  \A l \in ({cache[t] : t \in Text} \cup {kept[t] : t \in Text} \cup {left}
            \cup {release[b].lock : b \in Build}) \ {None} : Sound(l)

\* What is compiled is the archive the lock names, by the recipe the lock was made
\* for, although archive, lock and recipe are looked at in different jobs; and
\* unless the lock came with --lock, it is a commit the tag still named when the
\* lock was resolved, wherever the lock had been kept before
\* (resolve_core.py:106, 46, 116, build_core.py:57-68, 98, 111).
CurrentSource ==
  \A m \in Machine : At(m, "compile") =>
    /\ run[m].source = run[m].lock.digest /\ run[m].text = run[m].lock.text
    /\ run[m].given \/ run[m].lock.commit \in run[m].tags

\* A workflow run that starts when the release is public compiles exactly what was
\* published or nothing (resolve_core.py:68-101, 111-117).
RebuildsThePublished ==
  At("ci", "compile") /\ run["ci"].public # None => run["ci"].lock = run["ci"].public

\* What stops the workflow for good, each a refusal the code makes on purpose: the
\* tag names no source of the version or another than the pin or an earlier lock;
\* the archive is not served as locked; a release was made by another recipe or
\* lock, or lacks assets.
Blocked ==
  LET r == release[BuildOf[head]]
      locks == {cache[head], r.lock} \ {None} IN
  \/ tag \notin Genuine \/ served[tag] = None
  \/ PinOf[head] # None /\ PinOf[head] # [commit |-> tag, digest |-> served[tag]]
  \/ r.stage = "half"
  \/ Cardinality(locks) = 2
  \/ \E l \in locks : <<l.commit, l.digest, l.text>> # <<tag, served[tag], head>>

Delivered == release[BuildOf[head]].stage = "public"

\* Once the faults are over the current recipe's core gets published unless one of
\* the named refusals stands: no cache entry, draft or file left by a dead run
\* keeps the workflow from it (core-release.yml, resolve_core.py:104-137).
DeliveredUnlessBlocked == <>[](Delivered \/ Blocked)
=============================================================================
