--------------------------- MODULE PublishProofs ---------------------------
(***************************************************************************)
(* Proofs about Publish, for every set of publishers, identities and       *)
(* contents and every bound: what the feed names is released, releases are *)
(* immutable, the feed does not go backwards, and the runs together        *)
(* implement ReleaseFeed.                                                  *)
(*                                                                         *)
(* None of this is inductive by itself.  A run relies on what it found out *)
(* about its release many requests ago, so the invariant says what is true *)
(* of the release at each place of the run (JobFits); that this stays true *)
(* while others work rests on there being one run that uploads to a draft. *)
(*                                                                         *)
(* At the end what can be proved of progress: each request leaves fewer,   *)
(* and a run that is alone ends with its version released and named, or    *)
(* for a cause that only a maintainer can remove.                          *)
(***************************************************************************)
EXTENDS Publish, TLAPS

Finishing == {"undraft", "readback", "advance", "create", "replace", "put"}
Opened == {"readback", "advance", "create", "replace", "put"}
Feeding == {"create", "replace", "put"}
Sound == {"advance", "create", "replace", "put"}
Checked == {"apply", "upload"} \cup Finishing

\* What a run at work relies on of its release.
JobFits(j, r) ==
  /\ j.pc \in Finishing => Complete(r) /\ r.manifest = j.manifest /\ r.state # "none"
  /\ j.pc \in Opened => r.state = "public"
  /\ j.pc \in Sound => r.archives = "whole"
  /\ j.pc = "upload" =>
       r.state = "draft" /\ ~Complete(r) /\ r.manifest \in {None, j.manifest}
  /\ j.seen = "public" => r.state = "public"

ReleaseFits(i, r) ==
  /\ r.state = "none" => r = NoRelease
  /\ r.manifest # None => r.manifest.id = i
  /\ r.state = "public" => Complete(r)

JobsFit == \A p \in Publisher : ~At(p, "idle") => JobFits(job[p], release[Tag(p)])
ReleasesFit == \A i \in Identity : ReleaseFits(i, release[i])
OneUploader ==
  \A p, q \in Publisher : At(p, "upload") /\ At(q, "upload") /\ Tag(p) = Tag(q) => p = q

\* core-stable never stops being public, and nothing is named before it is.
StableFits ==
  /\ stable # "public" => feed = None /\ high = 0
  /\ \A p \in Publisher :
       job[p].listed \/ job[p].pc \in {"replace", "put"} => stable = "public"

\* What one run at a time, never broken off in the replacement, keeps.
OrderFits ==
  /\ \A p, q \in Publisher : p # q => At(p, "idle") \/ At(q, "idle")
  /\ feed # None => feed.id = high
  /\ feed = None => high = 0 \/ \E p \in Publisher : At(p, "put")
  /\ \A p \in Publisher : job[p].pc \in Checked /\ ~job[p].same => high <= Tag(p)
  /\ \A p \in Publisher : job[p].pc \in Feeding => ~job[p].same

HistoryFits == lost \/ together \/ OrderFits

IInv == TypeOK /\ JobsFit /\ ReleasesFit /\ OneUploader /\ FeedIsReleased
        /\ StableFits /\ HistoryFits

-----------------------------------------------------------------------------
(* What a single step may change *)

Bounds == latest \in Identity /\ lost \in BOOLEAN /\ together \in BOOLEAN
          /\ asks \in 0 .. MaxAsks /\ faults \in 0 .. MaxFaults

\* What the order of the feed asks of a run p that goes on as j.
InOrder(p, j) ==
  /\ At(p, "idle") /\ j.pc # "idle" => \A q \in Publisher \ {p} : At(q, "idle")
  /\ At(p, "put") /\ j.pc # "put" => feed # None \/ high = 0
  /\ j.pc \in Checked /\ ~j.same => high <= j.manifest.id
  /\ j.pc \in Feeding => ~j.same

\* A step of a run that only moves the run itself, to a place whose demands on
\* the release are met, keeps the invariant.
LEMMA Quiet ==
  ASSUME IInv, Bounds', NEW p \in Publisher, NEW j \in Job,
         job' = [job EXCEPT ![p] = j],
         UNCHANGED <<release, stable, feed, high>>,
         j.pc # "upload",
         j.pc # "idle" =>
           j.manifest \in Manifest /\ JobFits(j, release[j.manifest.id]),
         j.listed \/ j.pc \in {"replace", "put"} => stable = "public",
         lost => lost', together => together',
         OrderFits => lost' \/ together' \/ InOrder(p, j)
  PROVE  IInv'
<1> USE DEF At, Tag
<1>1. /\ job' \in [Publisher -> Job]
      /\ job'[p] = j
      /\ \A q \in Publisher : q # p => job'[q] = job[q]
  BY DEF IInv, TypeOK
<1>2. TypeOK'
  BY <1>1 DEF IInv, TypeOK, Bounds
<1>3. JobsFit'
  BY <1>1 DEF IInv, JobsFit, JobFits, Complete
<1>4. ReleasesFit' /\ FeedIsReleased'
  BY DEF IInv, ReleasesFit, ReleaseFits, FeedIsReleased, Complete
<1>5. OneUploader'
  BY <1>1 DEF IInv, OneUploader
<1>6. StableFits'
  BY <1>1 DEF IInv, StableFits
<1>7. HistoryFits'
  <2>1. CASE lost' \/ together'
    BY <2>1 DEF HistoryFits
  <2>2. CASE OrderFits /\ InOrder(p, j)
    <3>1. (\A q, r \in Publisher : q # r => At(q, "idle") \/ At(r, "idle"))'
      BY <1>1, <2>2 DEF OrderFits, InOrder
    <3>2. (feed # None => feed.id = high)'
      BY <2>2 DEF OrderFits
    <3>3. (feed = None => high = 0 \/ \E q \in Publisher : At(q, "put"))'
      BY <1>1, <2>2 DEF OrderFits, InOrder
    <3>4. (\A q \in Publisher : job[q].pc \in Checked /\ ~job[q].same => high <= Tag(q))'
      BY <1>1, <2>2 DEF OrderFits, InOrder
    <3>5. (\A q \in Publisher : job[q].pc \in Feeding => ~job[q].same)'
      BY <1>1, <2>2 DEF OrderFits, InOrder
    <3> QED BY <3>1, <3>2, <3>3, <3>4, <3>5 DEF HistoryFits, OrderFits
  <2> QED BY <2>1, <2>2 DEF IInv, HistoryFits
<1> QED BY <1>2, <1>3, <1>4, <1>5, <1>6, <1>7 DEF IInv

\* A run that ends relies on nothing any more; only the end of one that has
\* deleted the manifest matters to the order of the feed.
LEMMA Ending ==
  ASSUME IInv, Bounds', NEW p \in Publisher, Ends(p),
         UNCHANGED <<release, stable, feed, high>>,
         lost => lost', together => together',
         At(p, "put") => lost' \/ feed # None \/ high = 0
  PROVE  IInv'
<1>1. /\ Idle \in Job /\ Idle.pc = "idle" /\ ~Idle.listed
      /\ Idle.pc \notin Checked /\ Idle.pc \notin Feeding
  BY DEF Idle, Job, Phases, Checked, Finishing, Feeding
<1>2. job' = [job EXCEPT ![p] = Idle]
  BY DEF Ends
<1>3. OrderFits => lost' \/ InOrder(p, Idle)
  BY <1>1 DEF InOrder
<1> HIDE DEF Idle
<1> QED BY <1>1, <1>2, <1>3, Quiet

-----------------------------------------------------------------------------
(* The steps of a run that only look *)

\* What the type invariant says of a run at work and of its release.
LEMMA AtWork ==
  ASSUME IInv, NEW p \in Publisher, ~At(p, "idle")
  PROVE  /\ job[p] \in Job /\ job[p].manifest \in Manifest
         /\ Tag(p) \in Identity /\ release[Tag(p)] \in Release
         /\ JobFits(job[p], release[Tag(p)])
         /\ ReleaseFits(Tag(p), release[Tag(p)])
BY DEF IInv, TypeOK, At, Tag, Manifest, JobsFit, ReleasesFit

LEMMA Numbers ==
  ASSUME IInv
  PROVE  /\ Identity \subseteq Nat \ {0}
         /\ high \in Nat
<1>1. Identity \subseteq Nat \ {0}
  BY PublishAssumption
<1>2. high \in Identity \cup {0}
  BY DEF IInv, TypeOK
<1> QED BY <1>1, <1>2

LEMMA StartsStep ==
  ASSUME IInv, NEW p \in Publisher, NEW i \in Identity, NEW c \in Content,
         NEW o \in BOOLEAN, Starts(p, Candidate(p, i, c), o),
         asks' \in 0 .. MaxAsks, faults' \in 0 .. MaxFaults
  PROVE  IInv'
<1> DEFINE m == Candidate(p, i, c)
           j == [Idle EXCEPT !.pc = "release", !.manifest = m, !.only = o]
<1>1. m \in Manifest
  BY DEF Candidate, Manifest
<1>2. /\ j \in Job /\ j.pc = "release" /\ j.manifest = m
      /\ j.seen = "none" /\ ~j.listed
  BY <1>1 DEF Idle, Job, Phases
<1>3. job' = [job EXCEPT ![p] = j] /\ UNCHANGED <<release, stable, feed, high>>
  BY DEF Starts
<1>4. Bounds' /\ (lost => lost') /\ (together => together')
  BY DEF Starts, IInv, TypeOK, Bounds
<1>5. JobFits(j, release[m.id])
  BY <1>2 DEF JobFits, Finishing, Opened, Sound
<1>6. together' \/ InOrder(p, j)
  BY <1>2 DEF Starts, InOrder, At, Checked, Finishing, Feeding
<1> HIDE DEF j, m
<1> QED BY <1>1, <1>2, <1>3, <1>4, <1>5, <1>6, Quiet

LEMMA ReadReleaseStep ==
  ASSUME IInv, NEW p \in Publisher, ReadRelease(p)
  PROVE  IInv'
<1> DEFINE r == release[Tag(p)]
           j == [job[p] EXCEPT !.pc = "stable", !.seen = Listing(r)]
<1>1. At(p, "release")
  BY DEF ReadRelease
<1>2. /\ job[p] \in Job /\ job[p].manifest \in Manifest /\ r \in Release
      /\ JobFits(job[p], r)
  BY <1>1, AtWork DEF At
<1>3. /\ Listing(r) \in {"none", "partial", "complete", "public"}
      /\ Listing(r) = "public" => r.state = "public"
  BY <1>2 DEF Listing, Release
<1>4. /\ j \in Job /\ j.pc = "stable" /\ j.manifest = job[p].manifest
      /\ j.seen = Listing(r) /\ j.listed = job[p].listed
  BY <1>2, <1>3 DEF Job, Phases
<1>5. job' = [job EXCEPT ![p] = j] /\ UNCHANGED <<release, stable, feed, high>>
  BY <1>1 DEF ReadRelease, Elsewhere, history, IInv, TypeOK
<1>6. Bounds' /\ UNCHANGED <<lost, together>>
  BY DEF ReadRelease, Elsewhere, history, bounds, IInv, TypeOK, Bounds
<1>7. JobFits(j, r) /\ (j.listed => stable = "public")
  BY <1>3, <1>4 DEF JobFits, Finishing, Opened, Sound, IInv, StableFits
<1>8. InOrder(p, j)
  BY <1>1, <1>4 DEF InOrder, At, Checked, Finishing, Feeding
<1> HIDE DEF j
<1> QED BY <1>2, <1>4, <1>5, <1>6, <1>7, <1>8, Quiet DEF Tag

\* At this place no other run is between the deletion and the upload.
LEMMA ReadStableStep ==
  ASSUME IInv, NEW p \in Publisher, ReadStable(p)
  PROVE  IInv'
<1>1. At(p, "stable") /\ ~At(p, "put")
  BY DEF ReadStable, At
<1>2. /\ job[p] \in Job /\ job[p].manifest \in Manifest
      /\ JobFits(job[p], release[Tag(p)])
  BY <1>1, AtWork DEF At
<1>3. Bounds' /\ UNCHANGED <<release, stable, feed, high, lost, together>>
  BY DEF ReadStable, Elsewhere, history, bounds, IInv, TypeOK, Bounds
<1>4. CASE stable = "draft" /\ Ends(p)
  BY <1>1, <1>3, <1>4, Ending
<1>5. CASE stable = "absent" /\ Goes(p, "apply")
  <2> DEFINE j == [job[p] EXCEPT !.pc = "apply"]
  <2>1. /\ j \in Job /\ j.pc = "apply" /\ j.manifest = job[p].manifest
        /\ j.seen = job[p].seen /\ j.listed = job[p].listed
    BY <1>2 DEF Job, Phases
  <2>2. job' = [job EXCEPT ![p] = j]
    BY <1>5 DEF Goes, IInv, TypeOK
  <2>3. JobFits(j, release[Tag(p)]) /\ (j.listed => stable = "public")
    BY <1>2, <2>1 DEF JobFits, Finishing, Opened, Sound, IInv, StableFits
  <2>4. high = 0 /\ j.manifest.id \in Nat
    BY <1>2, <1>5, <2>1, PublishAssumption DEF IInv, StableFits, Manifest
  <2>5. InOrder(p, j)
    BY <1>1, <2>1, <2>4 DEF InOrder, At, Feeding
  <2> HIDE DEF j
  <2> QED BY <1>2, <1>3, <2>1, <2>2, <2>3, <2>5, Quiet DEF Tag
<1>6. CASE stable = "public" /\ job' = [job EXCEPT ![p].pc = "feed", ![p].listed = TRUE]
  <2> DEFINE j == [job[p] EXCEPT !.pc = "feed", !.listed = TRUE]
  <2>1. /\ j \in Job /\ j.pc = "feed" /\ j.manifest = job[p].manifest
        /\ j.seen = job[p].seen
    BY <1>2 DEF Job, Phases
  <2>2. job' = [job EXCEPT ![p] = j]
    BY <1>6 DEF IInv, TypeOK
  <2>3. JobFits(j, release[Tag(p)])
    BY <1>2, <2>1 DEF JobFits, Finishing, Opened, Sound
  <2>4. InOrder(p, j)
    BY <1>1, <2>1 DEF InOrder, At, Feeding, Checked, Finishing
  <2> HIDE DEF j
  <2> QED BY <1>2, <1>3, <1>6, <2>1, <2>2, <2>3, <2>4, Quiet DEF Tag
<1> QED BY <1>4, <1>5, <1>6 DEF ReadStable

\* Here the order of the feed is decided: the manifest that was read is older,
\* or the run will not replace it, or there is none and has never been one.
LEMMA ReadFeedStep ==
  ASSUME IInv, NEW p \in Publisher, ReadFeed(p)
  PROVE  IInv'
<1>1. At(p, "feed") /\ ~At(p, "put") /\ ~At(p, "idle")
  BY DEF ReadFeed, At
<1>2. /\ job[p] \in Job /\ job[p].manifest \in Manifest
      /\ JobFits(job[p], release[Tag(p)])
  BY <1>1, AtWork
<1>3. Bounds' /\ UNCHANGED <<release, stable, feed, high, lost, together>>
  BY DEF ReadFeed, Elsewhere, history, bounds, IInv, TypeOK, Bounds
<1>4. ASSUME NEW j, j = [job[p] EXCEPT !.pc = "apply"]
                    \/ j = [job[p] EXCEPT !.pc = "apply", !.same = TRUE],
             job' = [job EXCEPT ![p] = j],
             OrderFits => InOrder(p, j)
      PROVE  IInv'
  <2>1. /\ j \in Job /\ j.pc = "apply" /\ j.manifest = job[p].manifest
        /\ j.seen = job[p].seen /\ j.listed = job[p].listed
    BY <1>2, <1>4 DEF Job, Phases
  <2>2. JobFits(j, release[Tag(p)]) /\ (j.listed => stable = "public")
    BY <1>2, <2>1 DEF JobFits, Finishing, Opened, Sound, IInv, StableFits
  <2> QED BY <1>2, <1>3, <1>4, <2>1, <2>2, Quiet DEF Tag
<1>5. CASE (feed = None \/ Older(feed, job[p].manifest)) /\ Goes(p, "apply")
  <2> DEFINE j == [job[p] EXCEPT !.pc = "apply"]
  <2>1. j.pc = "apply" /\ j.manifest = job[p].manifest
    BY <1>2 DEF Job
  <2>2. job' = [job EXCEPT ![p] = j]
    BY <1>5 DEF Goes, IInv, TypeOK
  <2>3. OrderFits => high <= j.manifest.id
    <3>1. CASE feed = None
      <4>1. OrderFits => high = 0
        BY <1>1, <3>1 DEF OrderFits, At
      <4> QED BY <1>2, <2>1, <4>1, PublishAssumption DEF Manifest
    <3>2. CASE feed # None /\ Older(feed, job[p].manifest)
      <4>1. OrderFits => high = feed.id
        BY <3>2 DEF OrderFits
      <4>2. feed.id \in Nat /\ j.manifest.id \in Nat
        BY <1>2, <2>1, <3>2, PublishAssumption DEF Manifest, IInv, TypeOK
      <4> QED BY <2>1, <3>2, <4>1, <4>2 DEF Older
    <3> QED BY <1>5, <3>1, <3>2
  <2>4. OrderFits => InOrder(p, j)
    BY <1>1, <2>1, <2>3 DEF InOrder, Feeding
  <2> HIDE DEF j
  <2> QED BY <1>4, <2>2, <2>4 DEF j
<1>6. CASE job' = [job EXCEPT ![p].pc = "apply", ![p].same = TRUE]
  <2> DEFINE j == [job[p] EXCEPT !.pc = "apply", !.same = TRUE]
  <2>1. j.pc = "apply" /\ j.same
    BY <1>2 DEF Job
  <2>2. job' = [job EXCEPT ![p] = j]
    BY <1>6 DEF IInv, TypeOK
  <2>3. InOrder(p, j)
    BY <1>1, <2>1 DEF InOrder, Feeding
  <2> HIDE DEF j
  <2> QED BY <1>4, <2>2, <2>3 DEF j
<1>7. CASE Ends(p)
  BY <1>1, <1>3, <1>7, Ending
<1> QED BY <1>5, <1>6, <1>7 DEF ReadFeed

\* A run that takes up an existing release has seen that everything agrees.
LEMMA TakeUpStep ==
  ASSUME IInv, NEW p \in Publisher, NEW w, At(p, "apply"), TakeUp(p, w),
         \/ w = "advance" /\ job[p].seen = "public"
         \/ w = "undraft",
         UNCHANGED <<release, stable, feed>>, Elsewhere
  PROVE  IInv'
<1> DEFINE r == release[Tag(p)]
<1>1. ~At(p, "put") /\ ~At(p, "idle")
  BY DEF At
<1>2. /\ job[p] \in Job /\ job[p].manifest \in Manifest /\ r \in Release
      /\ JobFits(job[p], r) /\ ReleaseFits(Tag(p), r)
  BY <1>1, AtWork
<1>3. Bounds' /\ UNCHANGED <<release, stable, feed, high, lost, together>>
  BY DEF Elsewhere, history, bounds, IInv, TypeOK, Bounds
<1>4. CASE Agrees(r, job[p].manifest) /\ job' = [job EXCEPT ![p].pc = w, ![p].manifest = r.manifest]
  <2> DEFINE j == [job[p] EXCEPT !.pc = w, !.manifest = r.manifest]
  <2>1. /\ r.manifest # None /\ r.manifest \in Manifest /\ r.manifest.id = Tag(p)
        /\ Complete(r) /\ r.archives = "whole" /\ r.state # "none"
    BY <1>2, <1>4 DEF Agrees, Complete, Release, ReleaseFits, NoRelease
  <2>2. /\ j \in Job /\ j.pc = w /\ j.manifest = r.manifest /\ j.same = job[p].same
        /\ j.seen = job[p].seen /\ j.listed = job[p].listed
    BY <1>2, <2>1 DEF Job, Phases
  <2>3. job' = [job EXCEPT ![p] = j]
    BY <1>4 DEF IInv, TypeOK
  <2>4. JobFits(j, r)
    BY <1>2, <2>1, <2>2 DEF JobFits, Finishing, Opened, Sound
  <2>5. j.listed => stable = "public"
    BY <2>2 DEF IInv, StableFits
  <2>6. OrderFits => InOrder(p, j)
    BY <1>1, <2>1, <2>2 DEF InOrder, OrderFits, At, Tag, Checked, Finishing, Feeding
  <2> HIDE DEF j
  <2> QED BY <1>3, <2>1, <2>2, <2>3, <2>4, <2>5, <2>6, Quiet
<1>5. CASE Ends(p)
  BY <1>1, <1>3, <1>5, Ending
<1> QED BY <1>4, <1>5 DEF TakeUp

LEMMA ResumeStep ==
  ASSUME IInv, NEW p \in Publisher, ResumePublic(p) \/ ResumeDraft(p)
  PROVE  IInv'
BY TakeUpStep DEF ResumePublic, ResumeDraft

LEMMA RefuseDraftStep ==
  ASSUME IInv, NEW p \in Publisher, RefuseDraft(p)
  PROVE  IInv'
<1>1. Bounds' /\ UNCHANGED <<release, stable, feed, high, lost, together>> /\ ~At(p, "put")
  BY DEF RefuseDraft, Elsewhere, history, bounds, IInv, TypeOK, Bounds, At
<1> QED BY <1>1, Ending DEF RefuseDraft

LEMMA ReadBackStep ==
  ASSUME IInv, NEW p \in Publisher, ReadBack(p)
  PROVE  IInv'
<1> DEFINE r == release[Tag(p)]
<1>1. At(p, "readback") /\ ~At(p, "put") /\ ~At(p, "idle")
  BY DEF ReadBack, At
<1>2. /\ job[p] \in Job /\ job[p].manifest \in Manifest /\ JobFits(job[p], r)
  BY <1>1, AtWork
<1>3. Bounds' /\ UNCHANGED <<release, stable, feed, high, lost, together>>
  BY DEF ReadBack, Elsewhere, history, bounds, IInv, TypeOK, Bounds
<1>4. CASE r.archives = "whole" /\ Goes(p, "advance")
  <2> DEFINE j == [job[p] EXCEPT !.pc = "advance"]
  <2>1. /\ j \in Job /\ j.pc = "advance" /\ j.manifest = job[p].manifest
        /\ j.same = job[p].same /\ j.seen = job[p].seen /\ j.listed = job[p].listed
    BY <1>2 DEF Job, Phases
  <2>2. job' = [job EXCEPT ![p] = j]
    BY <1>4 DEF Goes, IInv, TypeOK
  <2>3. JobFits(j, r) /\ (j.listed => stable = "public")
    BY <1>1, <1>2, <1>4, <2>1
    DEF JobFits, Finishing, Opened, Sound, At, IInv, StableFits
  <2>4. OrderFits => InOrder(p, j)
    BY <1>1, <2>1 DEF InOrder, OrderFits, At, Tag, Checked, Finishing, Feeding
  <2> HIDE DEF j
  <2> QED BY <1>2, <1>3, <2>1, <2>2, <2>3, <2>4, Quiet DEF Tag
<1>5. CASE Ends(p)
  BY <1>1, <1>3, <1>5, Ending
<1> QED BY <1>4, <1>5 DEF ReadBack

LEMMA AdvanceStep ==
  ASSUME IInv, NEW p \in Publisher, Advance(p)
  PROVE  IInv'
<1>1. At(p, "advance") /\ ~At(p, "put") /\ ~At(p, "idle")
  BY DEF Advance, At
<1>2. /\ job[p] \in Job /\ job[p].manifest \in Manifest
      /\ JobFits(job[p], release[Tag(p)])
  BY <1>1, AtWork
<1>3. Bounds' /\ UNCHANGED <<release, stable, feed, high, lost, together>>
  BY DEF Advance, Elsewhere, history, bounds, IInv, TypeOK, Bounds
<1>4. CASE Ends(p)
  BY <1>1, <1>3, <1>4, Ending
<1>5. CASE ~job[p].same /\ Goes(p, IF job[p].listed THEN "replace" ELSE "create")
  <2> DEFINE w == IF job[p].listed THEN "replace" ELSE "create"
             j == [job[p] EXCEPT !.pc = w]
  <2>1. /\ j \in Job /\ j.pc = w /\ j.manifest = job[p].manifest
        /\ j.same = job[p].same /\ j.seen = job[p].seen /\ j.listed = job[p].listed
    BY <1>2 DEF Job, Phases
  <2>2. job' = [job EXCEPT ![p] = j]
    BY <1>5 DEF Goes, IInv, TypeOK
  <2>3. JobFits(j, release[Tag(p)])
    BY <1>1, <1>2, <2>1 DEF JobFits, Finishing, Opened, Sound, At
  <2>4. j.listed \/ j.pc \in {"replace", "put"} => stable = "public"
    BY <2>1 DEF IInv, StableFits
  <2>5. OrderFits => InOrder(p, j)
    BY <1>1, <1>5, <2>1 DEF InOrder, OrderFits, At, Tag, Checked, Finishing, Feeding
  <2>6. j.pc # "upload" /\ j.pc # "idle"
    BY <2>1
  <2> HIDE DEF j
  <2> QED BY <1>2, <1>3, <2>1, <2>2, <2>3, <2>4, <2>5, <2>6, Quiet DEF Tag
<1> QED BY <1>4, <1>5 DEF Advance

\* A run broken off between the deletion and the upload is remembered.
LEMMA AbortStep ==
  ASSUME IInv, NEW p \in Publisher, Abort(p)
  PROVE  IInv'
<1>1. lost' = (lost \/ (At(p, "put") /\ high # 0 /\ feed = None))
  BY DEF Abort
<1>2. /\ lost' \in BOOLEAN /\ (lost => lost')
      /\ At(p, "put") => lost' \/ feed # None \/ high = 0
  BY <1>1, Zenon DEF IInv, TypeOK
<1>3. faults' \in 0 .. MaxFaults
  BY PublishAssumption DEF Abort, IInv, TypeOK
<1>4. Bounds' /\ UNCHANGED <<release, stable, feed, high, together>>
  BY <1>2, <1>3 DEF Abort, IInv, TypeOK, Bounds
<1> QED BY <1>2, <1>4, Ending DEF Abort

-----------------------------------------------------------------------------
(* The steps that change a release, core-stable or the feed *)

\* gh makes a draft only where there is no release, so nobody at work on the
\* tag relies on what was there.
LEMMA CreateDraftStep ==
  ASSUME IInv, NEW p \in Publisher, CreateDraft(p)
  PROVE  IInv'
<1> DEFINE i == Tag(p)
           r == [NoRelease EXCEPT !.state = "draft"]
           j == [job[p] EXCEPT !.pc = "upload"]
<1>1. At(p, "apply") /\ job[p].seen = "none" /\ ~At(p, "put") /\ ~At(p, "idle")
  BY DEF CreateDraft, At
<1>2. /\ job[p] \in Job /\ job[p].manifest \in Manifest /\ i \in Identity
      /\ JobFits(job[p], release[i]) /\ ReleaseFits(i, release[i])
  BY <1>1, AtWork
<1>3. Bounds' /\ UNCHANGED <<stable, feed, high, lost, together>>
  BY DEF CreateDraft, Elsewhere, history, bounds, IInv, TypeOK, Bounds
<1>4. CASE Ends(p) /\ UNCHANGED release
  BY <1>1, <1>3, <1>4, Ending
<1>5. CASE /\ release[i].state = "none" /\ Goes(p, "upload")
           /\ release' = [release EXCEPT ![i].state = "draft"]
  <2>1. r \in Release /\ r.state = "draft" /\ r.manifest = None /\ ~Complete(r)
    BY DEF NoRelease, Release, Complete
  <2>2. /\ release' \in [Identity -> Release] /\ release'[i] = r
        /\ \A k \in Identity : k # i => release'[k] = release[k]
    BY <1>2, <1>5, <2>1 DEF IInv, TypeOK, ReleaseFits
  <2>3. /\ j \in Job /\ j.pc = "upload" /\ j.manifest = job[p].manifest
        /\ j.seen = "none" /\ j.same = job[p].same /\ j.listed = job[p].listed
    BY <1>1, <1>2 DEF Job, Phases
  <2>4. /\ job' \in [Publisher -> Job] /\ job'[p] = j
        /\ \A q \in Publisher : q # p => job'[q] = job[q]
    BY <1>5, <2>3 DEF Goes, IInv, TypeOK
  <2> HIDE DEF j, r
  <2>5. TypeOK'
    BY <1>2, <1>3, <2>2, <2>3, <2>4 DEF IInv, TypeOK, Bounds
  <2>6. \A q \in Publisher : ~At(q, "idle") /\ Tag(q) = i =>
          job[q].pc \notin Finishing /\ ~At(q, "upload") /\ job[q].seen # "public"
    BY <1>5 DEF IInv, JobsFit, JobFits, At
  <2>7. JobsFit'
    <3>1. ASSUME NEW q \in Publisher, q # p, ~At(q, "idle")
          PROVE  JobFits(job[q], release'[Tag(q)])
      <4>1. CASE Tag(q) = i
        BY <2>6, <3>1, <4>1 DEF JobFits, At, Finishing, Opened, Sound
      <4>2. CASE Tag(q) # i
        BY <2>2, <3>1, <4>2, AtWork
      <4> QED BY <4>1, <4>2
    <3>2. JobFits(j, r)
      BY <2>1, <2>3 DEF JobFits, Finishing, Opened, Sound
    <3> QED BY <2>2, <2>3, <2>4, <3>1, <3>2 DEF JobsFit, At, Tag
  <2>8. ReleasesFit'
    BY <2>1, <2>2 DEF IInv, ReleasesFit, ReleaseFits
  <2>9. OneUploader'
    BY <2>3, <2>4, <2>6 DEF IInv, OneUploader, At, Tag
  <2>10. FeedIsReleased'
    BY <1>3, <1>5, <2>2, PublishAssumption DEF IInv, TypeOK, Manifest, FeedIsReleased
  <2>11. StableFits'
    BY <1>3, <2>3, <2>4 DEF IInv, StableFits
  <2>12. HistoryFits'
    BY <1>1, <1>3, <2>3, <2>4
    DEF IInv, HistoryFits, OrderFits, At, Tag, Checked, Finishing, Feeding
  <2> QED BY <2>5, <2>7, <2>8, <2>9, <2>10, <2>11, <2>12 DEF IInv
<1> QED BY <1>4, <1>5 DEF CreateDraft

\* Only one run uploads to a draft, and nobody takes it up before it is
\* complete.
LEMMA UploadAssetStep ==
  ASSUME IInv, NEW p \in Publisher, UploadAsset(p)
  PROVE  IInv'
<1> DEFINE i == Tag(p)
           r == release'[i]
           j == [job[p] EXCEPT !.pc = IF Complete(r) THEN "undraft" ELSE "upload"]
<1>1. At(p, "upload") /\ ~At(p, "put") /\ ~At(p, "idle")
  BY DEF UploadAsset, At
<1>2. /\ job[p] \in Job /\ job[p].manifest \in Manifest /\ i \in Identity
      /\ release[i] \in Release
      /\ JobFits(job[p], release[i]) /\ ReleaseFits(i, release[i])
  BY <1>1, AtWork
<1>3. /\ UNCHANGED <<stable, feed, latest, high, lost, together, asks>>
      /\ faults' \in 0 .. MaxFaults
  BY PublishAssumption DEF UploadAsset, history, IInv, TypeOK
<1>4. Bounds'
  BY <1>3 DEF IInv, TypeOK, Bounds
<1>5. /\ release' \in [Identity -> Release]
      /\ \A k \in Identity : k # i => release'[k] = release[k]
      /\ r.state = "draft" /\ r.manifest \in {None, job[p].manifest}
  <2>1. release[i].state = "draft" /\ release[i].manifest \in {None, job[p].manifest}
    BY <1>1, <1>2 DEF JobFits, At
  <2>2. CASE release' = [release EXCEPT ![i].manifest = job[p].manifest]
    BY <1>2, <2>1, <2>2 DEF IInv, TypeOK, Release
  <2>3. CASE release' = [release EXCEPT ![i].rest = TRUE]
    BY <1>2, <2>1, <2>3 DEF IInv, TypeOK, Release
  <2>4. CASE \E a \in {"whole", "damaged"} : release' = [release EXCEPT ![i].archives = a]
    BY <1>2, <2>1, <2>4 DEF IInv, TypeOK, Release
  <2> QED BY <2>2, <2>3, <2>4 DEF UploadAsset
<1>6. /\ j \in Job /\ j.pc \in {"undraft", "upload"} /\ j.manifest = job[p].manifest
      /\ j.pc = "undraft" <=> Complete(r)
      /\ j.seen = job[p].seen /\ j.same = job[p].same /\ j.listed = job[p].listed
  BY <1>2 DEF Job, Phases
<1>7. /\ job' \in [Publisher -> Job] /\ job'[p] = j
      /\ \A q \in Publisher : q # p => job'[q] = job[q]
  BY <1>6 DEF UploadAsset, Goes, IInv, TypeOK
<1>8. \A q \in Publisher : q # p /\ ~At(q, "idle") /\ Tag(q) = i =>
        job[q].pc \notin Finishing /\ ~At(q, "upload") /\ job[q].seen # "public"
  <2>1. release[i].state = "draft" /\ ~Complete(release[i])
    BY <1>1, <1>2 DEF JobFits, At
  <2> QED BY <1>1, <2>1 DEF IInv, JobsFit, JobFits, OneUploader, Tag
<1> HIDE DEF j, r
<1>9. TypeOK'
  BY <1>2, <1>4, <1>3, <1>5, <1>6, <1>7 DEF IInv, TypeOK, Bounds
<1>10. JobsFit'
  <2>1. ASSUME NEW q \in Publisher, q # p, ~At(q, "idle")
        PROVE  JobFits(job[q], release'[Tag(q)])
    <3>1. CASE Tag(q) = i
      BY <1>8, <2>1, <3>1 DEF JobFits, At, Finishing, Opened, Sound
    <3>2. CASE Tag(q) # i
      BY <1>5, <2>1, <3>2, AtWork
    <3> QED BY <3>1, <3>2
  <2>2. JobFits(j, r)
    <3>1. job[p].seen # "public"
      BY <1>1, <1>2 DEF JobFits, At
    <3>2. Complete(r) => r.manifest = job[p].manifest
      BY <1>5 DEF Complete
    <3> QED BY <1>5, <1>6, <3>1, <3>2 DEF JobFits, Finishing, Opened, Sound
  <2> QED BY <1>6, <1>7, <2>1, <2>2 DEF JobsFit, At, Tag, r
<1>11. ReleasesFit'
  <2>1. ReleaseFits(i, r)
    BY <1>5 DEF ReleaseFits, Tag
  <2> QED BY <1>5, <2>1 DEF IInv, ReleasesFit, r
<1>12. OneUploader'
  BY <1>1, <1>6, <1>7 DEF IInv, OneUploader, At, Tag
<1>13. FeedIsReleased'
  <2>1. release[i].state = "draft"
    BY <1>1, <1>2 DEF JobFits, At
  <2> QED BY <1>3, <1>5, <2>1, PublishAssumption DEF IInv, TypeOK, Manifest, FeedIsReleased
<1>14. StableFits'
  BY <1>3, <1>6, <1>7 DEF IInv, StableFits
<1>15. HistoryFits'
  BY <1>1, <1>3, <1>6, <1>7
  DEF IInv, HistoryFits, OrderFits, At, Tag, Checked, Finishing, Feeding
<1> QED BY <1>9, <1>10, <1>11, <1>12, <1>13, <1>14, <1>15 DEF IInv

\* Publishing changes nothing but the state of a complete release.
LEMMA UndraftStep ==
  ASSUME IInv, NEW p \in Publisher, Undraft(p)
  PROVE  IInv'
<1> DEFINE i == Tag(p)
           r == [release[i] EXCEPT !.state = "public"]
           j == [job[p] EXCEPT !.pc = "readback"]
<1>1. At(p, "undraft") /\ ~At(p, "put") /\ ~At(p, "idle")
  BY DEF Undraft, At
<1>2. /\ job[p] \in Job /\ job[p].manifest \in Manifest /\ i \in Identity
      /\ release[i] \in Release
      /\ JobFits(job[p], release[i]) /\ ReleaseFits(i, release[i])
  BY <1>1, AtWork
<1>3. Bounds' /\ UNCHANGED <<stable, feed, high, lost, together>>
  BY DEF Undraft, Elsewhere, history, bounds, IInv, TypeOK, Bounds
<1>4. /\ Complete(release[i]) /\ release[i].manifest = job[p].manifest
  BY <1>1, <1>2 DEF JobFits, At, Finishing
<1>5. /\ r \in Release /\ r.state = "public" /\ r.manifest = release[i].manifest
      /\ r.archives = release[i].archives /\ r.rest = release[i].rest
  BY <1>2 DEF Release
<1>6. /\ release' \in [Identity -> Release] /\ release'[i] = r
      /\ \A k \in Identity : k # i => release'[k] = release[k]
  BY <1>2, <1>5 DEF Undraft, IInv, TypeOK
<1>7. /\ j \in Job /\ j.pc = "readback" /\ j.manifest = job[p].manifest
      /\ j.seen = job[p].seen /\ j.same = job[p].same /\ j.listed = job[p].listed
  BY <1>2 DEF Job, Phases
<1>8. /\ job' \in [Publisher -> Job] /\ job'[p] = j
      /\ \A q \in Publisher : q # p => job'[q] = job[q]
  BY <1>7 DEF Undraft, Goes, IInv, TypeOK
<1> HIDE DEF j, r
<1>9. TypeOK'
  BY <1>2, <1>3, <1>6, <1>7, <1>8 DEF IInv, TypeOK, Bounds
<1>10. JobsFit'
  <2>1. ASSUME NEW q \in Publisher, q # p, ~At(q, "idle")
        PROVE  JobFits(job[q], release'[Tag(q)])
    <3>1. CASE Tag(q) = i
      <4>1. JobFits(job[q], release[i])
        BY <2>1, <3>1, AtWork
      <4> QED BY <1>4, <1>5, <1>6, <3>1, <4>1 DEF JobFits, Complete
    <3>2. CASE Tag(q) # i
      BY <1>6, <2>1, <3>2, AtWork
    <3> QED BY <3>1, <3>2
  <2>2. JobFits(j, r)
    BY <1>4, <1>5, <1>7 DEF JobFits, Finishing, Opened, Sound, Complete
  <2> QED BY <1>6, <1>7, <1>8, <2>1, <2>2 DEF JobsFit, At, Tag
<1>11. ReleasesFit'
  <2>1. ReleaseFits(i, r)
    BY <1>2, <1>4, <1>5 DEF ReleaseFits, Complete
  <2> QED BY <1>6, <2>1 DEF IInv, ReleasesFit
<1>12. OneUploader'
  BY <1>7, <1>8 DEF IInv, OneUploader, At, Tag
<1>13. FeedIsReleased'
  BY <1>3, <1>5, <1>6, PublishAssumption DEF IInv, TypeOK, Manifest, FeedIsReleased
<1>14. StableFits'
  BY <1>3, <1>7, <1>8 DEF IInv, StableFits
<1>15. HistoryFits'
  BY <1>1, <1>3, <1>7, <1>8
  DEF IInv, HistoryFits, OrderFits, At, Tag, Checked, Finishing, Feeding
<1> QED BY <1>9, <1>10, <1>11, <1>12, <1>13, <1>14, <1>15 DEF IInv

\* core-stable is made public with no manifest; before that it had named none.
LEMMA CreateFeedStep ==
  ASSUME IInv, NEW p \in Publisher, CreateFeed(p)
  PROVE  IInv'
<1>1. At(p, "create") /\ ~At(p, "put") /\ ~At(p, "idle")
  BY DEF CreateFeed, At
<1>2. /\ job[p] \in Job /\ job[p].manifest \in Manifest
      /\ JobFits(job[p], release[Tag(p)])
  BY <1>1, AtWork
<1>3. Bounds' /\ UNCHANGED <<release, feed, high, lost, together>>
  BY DEF CreateFeed, Elsewhere, history, bounds, IInv, TypeOK, Bounds
<1>4. CASE Ends(p) /\ UNCHANGED stable
  BY <1>1, <1>3, <1>4, Ending
<1>5. CASE stable' = "public" /\ Goes(p, "replace")
  <2> DEFINE j == [job[p] EXCEPT !.pc = "replace"]
  <2>1. /\ j \in Job /\ j.pc = "replace" /\ j.manifest = job[p].manifest
        /\ j.same = job[p].same /\ j.seen = job[p].seen
    BY <1>2 DEF Job, Phases
  <2>2. /\ job' \in [Publisher -> Job] /\ job'[p] = j
        /\ \A q \in Publisher : q # p => job'[q] = job[q]
    BY <1>5, <2>1 DEF Goes, IInv, TypeOK
  <2> HIDE DEF j
  <2>3. TypeOK'
    BY <1>2, <1>3, <1>5, <2>1, <2>2 DEF IInv, TypeOK, Bounds
  <2>4. JobFits(j, release[Tag(p)])
    BY <1>1, <1>2, <2>1 DEF JobFits, Finishing, Opened, Sound, At
  <2>5. JobsFit' /\ ReleasesFit' /\ OneUploader' /\ FeedIsReleased'
    BY <1>3, <2>1, <2>2, <2>4 DEF IInv, JobsFit, JobFits, Complete, ReleasesFit, ReleaseFits,
       OneUploader, FeedIsReleased, At, Tag
  <2>6. StableFits'
    BY <1>5 DEF StableFits
  <2>7. HistoryFits'
    BY <1>1, <1>3, <2>1, <2>2
    DEF IInv, HistoryFits, OrderFits, At, Tag, Checked, Finishing, Feeding
  <2> QED BY <2>3, <2>5, <2>6, <2>7 DEF IInv
<1> QED BY <1>4, <1>5 DEF CreateFeed

LEMMA RemoveOldStep ==
  ASSUME IInv, NEW p \in Publisher, RemoveOld(p)
  PROVE  IInv'
<1> DEFINE j == [job[p] EXCEPT !.pc = "put"]
<1>1. At(p, "replace") /\ ~At(p, "put") /\ ~At(p, "idle")
  BY DEF RemoveOld, At
<1>2. /\ job[p] \in Job /\ job[p].manifest \in Manifest
      /\ JobFits(job[p], release[Tag(p)])
  BY <1>1, AtWork
<1>3. Bounds' /\ UNCHANGED <<release, stable, high, lost, together>> /\ feed' = None
  BY DEF RemoveOld, Elsewhere, history, bounds, IInv, TypeOK, Bounds
<1>4. /\ j \in Job /\ j.pc = "put" /\ j.manifest = job[p].manifest
      /\ j.same = job[p].same /\ j.seen = job[p].seen /\ j.listed = job[p].listed
  BY <1>2 DEF Job, Phases
<1>5. /\ job' \in [Publisher -> Job] /\ job'[p] = j
      /\ \A q \in Publisher : q # p => job'[q] = job[q]
  BY <1>4 DEF RemoveOld, Goes, IInv, TypeOK
<1> HIDE DEF j
<1>6. TypeOK'
  BY <1>2, <1>3, <1>4, <1>5 DEF IInv, TypeOK, Bounds
<1>7. JobFits(j, release[Tag(p)])
  BY <1>1, <1>2, <1>4 DEF JobFits, Finishing, Opened, Sound, At
<1>8. JobsFit' /\ ReleasesFit' /\ OneUploader'
  BY <1>3, <1>4, <1>5, <1>7 DEF IInv, JobsFit, JobFits, Complete, ReleasesFit, ReleaseFits,
     OneUploader, At, Tag
<1>9. FeedIsReleased' /\ StableFits'
  BY <1>1, <1>3, <1>4, <1>5 DEF IInv, FeedIsReleased, StableFits, At
<1>10. HistoryFits'
  BY <1>1, <1>3, <1>4, <1>5
  DEF IInv, HistoryFits, OrderFits, At, Tag, Checked, Finishing, Feeding
<1> QED BY <1>6, <1>8, <1>9, <1>10 DEF IInv

\* What is put into the feed is the envelope of a release that was read back.
LEMMA PutStep ==
  ASSUME IInv, NEW p \in Publisher, Put(p)
  PROVE  IInv'
<1> DEFINE m == job[p].manifest
<1>1. At(p, "put") /\ ~At(p, "idle")
  BY DEF Put, At
<1>2. /\ job[p] \in Job /\ m \in Manifest /\ Tag(p) \in Identity
      /\ JobFits(job[p], release[Tag(p)])
  BY <1>1, AtWork
<1>3. Bounds' /\ UNCHANGED <<release, stable, lost, together>> /\ Ends(p)
  BY DEF Put, bounds, IInv, TypeOK, Bounds
<1>4. CASE feed # None /\ UNCHANGED <<feed, high>>
  BY <1>1, <1>3, <1>4, Ending
<1>5. CASE /\ feed = None /\ feed' = m
           /\ high' = IF Tag(p) > high THEN Tag(p) ELSE high
  <2>1. /\ Idle \in Job /\ Idle.pc = "idle" /\ ~Idle.listed
    BY DEF Idle, Job, Phases
  <2>2. /\ job' \in [Publisher -> Job] /\ job'[p] = Idle
        /\ \A q \in Publisher : q # p => job'[q] = job[q]
    BY <1>3, <2>1 DEF Ends, IInv, TypeOK
  <2> HIDE DEF Idle
  <2>3. TypeOK'
    BY <1>2, <1>3, <1>5, <2>1, <2>2 DEF IInv, TypeOK, Bounds
  <2>4. JobsFit' /\ ReleasesFit' /\ OneUploader'
    BY <1>3, <2>1, <2>2 DEF IInv, JobsFit, JobFits, Complete, ReleasesFit, ReleaseFits,
       OneUploader, At, Tag
  <2>5. FeedIsReleased'
    BY <1>1, <1>2, <1>3, <1>5
    DEF JobFits, At, Tag, Finishing, Opened, Sound, FeedIsReleased, Complete
  <2>6. StableFits'
    BY <1>1, <1>3, <2>1, <2>2 DEF IInv, StableFits, At
  <2>7. HistoryFits'
    <3>1. Tag(p) \in Nat \ {0} /\ high \in Nat /\ m.id = Tag(p)
      BY <1>2, Numbers DEF Tag
    <3>4. m # None
      BY <1>2, PublishAssumption
    <3>2. ASSUME OrderFits PROVE OrderFits'
      <4>1. high <= Tag(p)
        BY <1>1, <3>2 DEF OrderFits, At, Checked, Finishing, Feeding
      <4>2. feed'.id = high'
        BY <1>5, <3>1, <4>1
      <4>3. \A q \in Publisher : job'[q].pc = "idle"
        BY <1>1, <2>1, <2>2, <3>2 DEF OrderFits, At
      <4> QED BY <1>5, <3>4, <4>2, <4>3 DEF OrderFits, At, Checked, Finishing, Feeding
    <3> QED BY <1>3, <3>2 DEF IInv, HistoryFits
  <2> QED BY <2>3, <2>4, <2>5, <2>6, <2>7 DEF IInv
<1> QED BY <1>4, <1>5 DEF Put

-----------------------------------------------------------------------------
(* The surroundings, and the invariant *)

LEMMA UpstreamStep ==
  ASSUME IInv, UpstreamReleases
  PROVE  IInv'
<1>1. latest' \in Identity
      /\ UNCHANGED <<release, stable, feed, job, high, lost, together, asks, faults>>
  BY DEF UpstreamReleases, history, bounds
<1> QED BY <1>1 DEF IInv, TypeOK, JobsFit, JobFits, ReleasesFit, ReleaseFits, Complete,
    OneUploader, FeedIsReleased, StableFits, HistoryFits, OrderFits, At, Tag

LEMMA ResolveStableStep ==
  ASSUME IInv, ResolveStable
  PROVE  IInv'
<1>1. /\ stable = "draft" /\ stable' \in {"absent", "public"}
      /\ UNCHANGED <<release, feed, job, latest, high, lost, together, asks, faults>>
  BY DEF ResolveStable, Elsewhere, history, bounds
<1>2. TypeOK' /\ StableFits'
  BY <1>1 DEF IInv, TypeOK, StableFits
<1> QED BY <1>1, <1>2 DEF IInv, JobsFit, JobFits, ReleasesFit, ReleaseFits, Complete,
    OneUploader, FeedIsReleased, HistoryFits, OrderFits, At, Tag

LEMMA RemoveDraftStep ==
  ASSUME IInv, NEW i \in Identity, RemoveDraft(i)
  PROVE  IInv'
<1>1. /\ release[i].state = "draft" /\ release' = [release EXCEPT ![i] = NoRelease]
      /\ \A p \in Publisher : ~At(p, "idle") => Tag(p) # i
      /\ UNCHANGED <<stable, feed, job, latest, high, lost, together, asks, faults>>
  BY DEF RemoveDraft, Elsewhere, history, bounds
<1>2. /\ NoRelease \in Release /\ ReleaseFits(i, NoRelease)
  BY DEF NoRelease, Release, ReleaseFits
<1>3. /\ release' \in [Identity -> Release] /\ release'[i] = NoRelease
      /\ \A k \in Identity : k # i => release'[k] = release[k]
  BY <1>1, <1>2 DEF IInv, TypeOK
<1> HIDE DEF NoRelease
<1>4. TypeOK'
  BY <1>1, <1>3 DEF IInv, TypeOK
<1>5. JobsFit'
  BY <1>1, <1>3, AtWork DEF JobsFit, At, Tag
<1>6. ReleasesFit'
  BY <1>2, <1>3 DEF IInv, ReleasesFit
<1>7. FeedIsReleased'
  BY <1>1, <1>3, PublishAssumption DEF IInv, TypeOK, Manifest, FeedIsReleased
<1> QED BY <1>1, <1>4, <1>5, <1>6, <1>7
    DEF IInv, OneUploader, StableFits, HistoryFits, OrderFits, At, Tag

LEMMA InitInvariant == Init => IInv
<1> SUFFICES ASSUME Init PROVE IInv
  OBVIOUS
<1>1. /\ Idle \in Job /\ Idle.pc = "idle" /\ ~Idle.listed
      /\ Idle.pc \notin Checked /\ Idle.pc \notin Feeding
  BY DEF Idle, Job, Phases, Checked, Finishing, Feeding
<1>2. NoRelease \in Release /\ \A i \in Identity : ReleaseFits(i, NoRelease)
  BY DEF NoRelease, Release, ReleaseFits
<1>3. \A p \in Publisher : job[p] = Idle
  BY DEF Init
<1> HIDE DEF Idle, NoRelease
<1>4. TypeOK
  <2>1. /\ release \in [Identity -> Release] /\ job \in [Publisher -> Job]
        /\ stable \in {"absent", "draft", "public"} /\ feed \in Manifest \cup {None}
        /\ lost \in BOOLEAN /\ together \in BOOLEAN
    BY <1>1, <1>2 DEF Init
  <2>2. \A p \in Publisher : job[p].pc = "idle"
    BY <1>1, <1>3
  <2>3. /\ latest \in Identity /\ high \in Identity \cup {0}
        /\ asks \in 0 .. MaxAsks /\ faults \in 0 .. MaxFaults
    BY PublishAssumption DEF Init
  <2> QED BY <2>1, <2>2, <2>3 DEF TypeOK
<1> QED BY <1>1, <1>2, <1>3, <1>4
    DEF Init, IInv, JobsFit, ReleasesFit, OneUploader, FeedIsReleased, StableFits,
        HistoryFits, OrderFits, At

LEMMA StepInvariant == IInv /\ [Next]_vars => IInv'
<1> SUFFICES ASSUME IInv, [Next]_vars PROVE IInv'
  OBVIOUS
<1>1. CASE Scheduled
  <2>1. Workflow \in Publisher /\ Built \in Content /\ latest \in Identity
        /\ asks' \in 0 .. MaxAsks /\ faults' \in 0 .. MaxFaults
    BY <1>1, PublishAssumption DEF Scheduled, bounds, IInv, TypeOK
  <2> QED BY <1>1, <2>1, StartsStep DEF Scheduled
<1>2. CASE Dispatched
  <2>1. Workflow \in Publisher /\ Built \in Content
        /\ asks' \in 0 .. MaxAsks /\ faults' \in 0 .. MaxFaults
    BY <1>2, PublishAssumption DEF Dispatched, IInv, TypeOK
  <2> QED BY <1>2, <2>1, StartsStep DEF Dispatched
<1>3. ASSUME NEW p \in Publisher, ByHand(p) PROVE IInv'
  <2>1. asks' \in 0 .. MaxAsks /\ faults' \in 0 .. MaxFaults
    BY <1>3, PublishAssumption DEF ByHand, IInv, TypeOK
  <2> QED BY <1>3, <2>1, StartsStep DEF ByHand
<1>4. ASSUME NEW p \in Publisher, Publishes(p) PROVE IInv'
  BY <1>4, ReadReleaseStep, ReadStableStep, ReadFeedStep, ResumeStep, RefuseDraftStep,
     CreateDraftStep, UploadAssetStep, UndraftStep, ReadBackStep, AdvanceStep,
     CreateFeedStep, RemoveOldStep, PutStep DEF Publishes
<1>5. ASSUME NEW p \in Publisher, Abort(p) PROVE IInv'
  BY <1>5, AbortStep
<1>6. CASE Maintains
  BY <1>6, UpstreamStep, ResolveStableStep, RemoveDraftStep DEF Maintains
<1>7. CASE UNCHANGED vars
  BY <1>7 DEF vars, history, bounds, IInv, TypeOK, JobsFit, JobFits, ReleasesFit,
     ReleaseFits, Complete, OneUploader, FeedIsReleased, StableFits, HistoryFits,
     OrderFits, At, Tag
<1> QED BY <1>1, <1>2, <1>3, <1>4, <1>5, <1>6, <1>7 DEF Next

\* The invariant holds in every state of every behaviour.
THEOREM Invariant == Spec => []IInv
BY InitInvariant, StepInvariant, PTL DEF Spec

-----------------------------------------------------------------------------
(* What follows *)

\* Every variable keeps its type, for all publishers, identities and bounds.
THEOREM TypeCorrect == Spec => []TypeOK
<1>1. IInv => TypeOK
  BY DEF IInv
<1> QED BY <1>1, Invariant, PTL

\* The feed only ever names a whole public release by its very envelope.
THEOREM NamedIsReleased == Spec => []FeedIsReleased
<1>1. IInv => FeedIsReleased
  BY DEF IInv
<1> QED BY <1>1, Invariant, PTL

\* With one run at a time, and no replacement of the manifest broken off, the
\* feed never goes backwards.
THEOREM FeedGoesForward == Spec => []FeedNeverLower
<1>1. IInv => FeedNeverLower
  <2> SUFFICES ASSUME IInv, OrderFits, feed # None PROVE feed.id >= high
    BY DEF IInv, HistoryFits, FeedNeverLower
  <2>1. feed.id = high
    BY DEF OrderFits
  <2>2. high \in Nat
    BY Numbers
  <2> QED BY <2>1, <2>2
<1> QED BY <1>1, Invariant, PTL

\* A step changes a release only while it is not public.
LEMMA PublicStays ==
  ASSUME IInv, [Next]_vars, NEW i \in Identity, release[i].state = "public"
  PROVE  release'[i] = release[i]
<1>1. release \in [Identity -> Release] /\ release[i] \in Release
  BY DEF IInv, TypeOK
<1>2. CASE UNCHANGED release
  BY <1>2
<1>3. ASSUME NEW p \in Publisher, CreateDraft(p) PROVE release'[i] = release[i]
  BY <1>1, <1>3 DEF CreateDraft
<1>4. ASSUME NEW p \in Publisher, UploadAsset(p) PROVE release'[i] = release[i]
  <2>1. release[Tag(p)].state = "draft"
    BY <1>4, AtWork DEF UploadAsset, At, JobFits
  <2> QED BY <1>1, <1>4, <2>1 DEF UploadAsset
<1>5. ASSUME NEW p \in Publisher, Undraft(p) PROVE release'[i] = release[i]
  BY <1>1, <1>5 DEF Undraft, Release
<1>6. ASSUME NEW k \in Identity, RemoveDraft(k) PROVE release'[i] = release[i]
  BY <1>1, <1>6 DEF RemoveDraft
<1> QED
  BY <1>2, <1>3, <1>4, <1>5, <1>6
  DEF Next, vars, Scheduled, Dispatched, ByHand, Starts, Publishes, Abort, Maintains,
      ReadRelease, ReadStable, ReadFeed, ResumePublic, ResumeDraft, RefuseDraft, ReadBack,
      Advance, CreateFeed, RemoveOld, Put, UpstreamReleases, ResolveStable

\* A public release is never changed, whoever works on its tag.
THEOREM ReleasesAreImmutable == Spec => Immutable
<1>1. IInv /\ [Next]_vars =>
        [\A i \in Identity : release[i].state = "public" => release'[i] = release[i]]_vars
  BY PublicStays
<1> QED BY <1>1, Invariant, PTL DEF Spec, Immutable

\* All runs together do no more than offer releases and name them in the feed.
THEOREM FeedIsImplemented == Spec => FeedImplemented
<1> DEFINE shown == [i \in Identity |-> IF release[i].state = "public"
                                        THEN release[i].manifest ELSE None]
<1>1. Init => Offering!Init
  BY DEF Init, NoRelease, Offering!Init
<1>2. IInv /\ [Next]_vars => [Offering!Next]_<<shown, feed>>
  <2> SUFFICES ASSUME IInv, [Next]_vars, ~UNCHANGED <<shown, feed>>
               PROVE  Offering!Next
    OBVIOUS
  <2>1. release \in [Identity -> Release] /\ release' \in [Identity -> Release]
    BY StepInvariant DEF IInv, TypeOK
  <2>2. UNCHANGED release => UNCHANGED shown
    OBVIOUS
  <2>3. ASSUME NEW p \in Publisher, Undraft(p) PROVE Offering!Next
    <3> DEFINE i == Tag(p)
    <3>1. /\ i \in Identity /\ Complete(release[i]) /\ release[i].manifest = job[p].manifest
          /\ job[p].manifest \in Manifest /\ job[p].manifest.id = i
      BY <2>3, AtWork DEF Undraft, At, JobFits, Finishing, Tag
    <3>2. UNCHANGED feed /\ release' = [release EXCEPT ![i].state = "public"]
      BY <2>3 DEF Undraft
    <3>3. release[i].state # "public"
      <4>1. ASSUME release[i].state = "public" PROVE UNCHANGED shown
        BY <2>1, <3>1, <3>2, <4>1 DEF Release
      <4> QED BY <3>2, <4>1
    <3>4. shown[i] = None /\ shown' = [shown EXCEPT ![i] = job[p].manifest]
      BY <2>1, <3>1, <3>2, <3>3 DEF Release
    <3> HIDE DEF shown, i
    <3> QED BY <3>1, <3>2, <3>4 DEF shown, Offering!Next, Offering!Offer
  <2>4. ASSUME NEW p \in Publisher, RemoveOld(p) PROVE Offering!Next
    BY <2>2, <2>4 DEF RemoveOld, Offering!Next, Offering!Withdraw
  <2>5. ASSUME NEW p \in Publisher, Put(p) PROVE Offering!Next
    <3> DEFINE i == Tag(p)
    <3>1. UNCHANGED shown /\ feed' = job[p].manifest
      BY <2>2, <2>5 DEF Put
    <3>2. /\ i \in Identity /\ release[i].state = "public"
          /\ release[i].manifest = job[p].manifest /\ job[p].manifest # None
      BY <2>5, AtWork, PublishAssumption
      DEF Put, At, JobFits, Finishing, Opened
    <3>3. Offering!Name(i)
      BY <3>1, <3>2 DEF Offering!Name
    <3> QED BY <3>2, <3>3 DEF Offering!Next
  <2>6. ASSUME UNCHANGED feed,
               \A i \in Identity : release'[i] = release[i]
                 \/ (release[i].state # "public" /\ release'[i].state # "public")
        PROVE  Offering!Next
    BY <2>6
  <2>7. ASSUME NEW p \in Publisher, CreateDraft(p) PROVE Offering!Next
    BY <2>1, <2>6, <2>7 DEF CreateDraft, Release
  <2>8. ASSUME NEW p \in Publisher, UploadAsset(p) PROVE Offering!Next
    <3>1. /\ Tag(p) \in Identity /\ release[Tag(p)].state = "draft"
          /\ release[Tag(p)] \in Release
      BY <2>8, AtWork DEF UploadAsset, At, JobFits
    <3>2. \A i \in Identity : release'[i] = release[i] \/ i = Tag(p)
      BY <2>1, <2>8 DEF UploadAsset
    <3>3. release'[Tag(p)].state = "draft" /\ UNCHANGED feed
      BY <2>1, <2>8, <3>1 DEF UploadAsset, Release
    <3> QED BY <2>6, <3>1, <3>2, <3>3
  <2>9. ASSUME NEW i \in Identity, RemoveDraft(i) PROVE Offering!Next
    BY <2>1, <2>6, <2>9 DEF RemoveDraft, NoRelease
  <2>10. ASSUME UNCHANGED <<release, feed>> PROVE Offering!Next
    BY <2>2, <2>10
  <2> HIDE DEF shown
  <2> QED
    BY <2>3, <2>4, <2>5, <2>7, <2>8, <2>9, <2>10
    DEF Next, vars, Scheduled, Dispatched, ByHand, Starts, Publishes, Abort, Maintains,
        ReadRelease, ReadStable, ReadFeed, ResumePublic, ResumeDraft, RefuseDraft, TakeUp,
        ReadBack, Advance, CreateFeed, UpstreamReleases, ResolveStable
<1> QED BY <1>1, <1>2, Invariant, PTL DEF Spec, FeedImplemented, Offering!Spec

-----------------------------------------------------------------------------
(* The steps a run has left *)

StepsFrom ==
  [idle |-> 0, put |-> 1, replace |-> 2, create |-> 3, advance |-> 4, readback |-> 5,
   undraft |-> 6, upload |-> 6, apply |-> 10, feed |-> 11, stable |-> 12, release |-> 13]

\* The assets a release still lacks.
Missing(r) == (IF r.manifest = None THEN 1 ELSE 0) + (IF r.archives = "none" THEN 1 ELSE 0)
              + (IF r.rest THEN 0 ELSE 1)

StepsLeft(p) ==
  StepsFrom[job[p].pc] + (IF At(p, "upload") THEN Missing(release[Tag(p)]) ELSE 0)

\* A run gets nearer to its end with each of its steps, and no other run, nor the
\* maintainer, sends it back (publish_core.py:96-206).
RunsEnd ==
  [][\A p \in Publisher :
       /\ Publishes(p) => StepsLeft(p)' < StepsLeft(p)
       /\ ~At(p, "idle") => StepsLeft(p)' <= StepsLeft(p)]_vars

\* A run takes at most 13 steps.
StepsBounded == \A p \in Publisher : StepsLeft(p) \in 0 .. 13

LEMMA StepsFromIs ==
  /\ StepsFrom["idle"] = 0 /\ StepsFrom["put"] = 1 /\ StepsFrom["replace"] = 2
  /\ StepsFrom["create"] = 3 /\ StepsFrom["advance"] = 4 /\ StepsFrom["readback"] = 5
  /\ StepsFrom["undraft"] = 6 /\ StepsFrom["upload"] = 6 /\ StepsFrom["apply"] = 10
  /\ StepsFrom["feed"] = 11 /\ StepsFrom["stable"] = 12 /\ StepsFrom["release"] = 13
BY DEF StepsFrom

\* They are a number, and positive while the run is at work.
LEMMA StepsType ==
  ASSUME IInv, NEW p \in Publisher
  PROVE  /\ StepsLeft(p) \in 0 .. 13
         /\ ~At(p, "idle") => StepsLeft(p) > 0
<1>1. job[p].pc \in Phases
  BY DEF IInv, TypeOK, Job
<1>2. Missing(release[Tag(p)]) \in 0 .. 3
  BY DEF Missing
<1> QED BY <1>1, <1>2, StepsFromIs DEF StepsLeft, At, Phases

LEMMA StepsTypeNext ==
  ASSUME IInv', NEW p \in Publisher
  PROVE  StepsLeft(p)' \in 0 .. 13
<1>1. job'[p].pc \in Phases
  BY DEF IInv, TypeOK, Job
<1>2. Missing(release[Tag(p)])' \in 0 .. 3
  BY DEF Missing
<1> QED BY <1>1, <1>2, StepsFromIs DEF StepsLeft, At, Phases

\* Each step of a run leaves fewer.
LEMMA OwnSteps ==
  ASSUME IInv, NEW p \in Publisher, Publishes(p)
  PROVE  StepsLeft(p)' < StepsLeft(p)
<1> DEFINE here == job[p].pc
           there == job'[p].pc
<1>0. /\ job \in [Publisher -> Job] /\ job[p] \in Job
      /\ Idle.pc = "idle"
  BY DEF IInv, TypeOK, Idle
<1>0a. Ends(p) => there = "idle"
  <2>1. Ends(p) => job'[p] = Idle
    BY <1>0 DEF Ends
  <2> QED BY <1>0, <2>1
<1>0b. \A w : Goes(p, w) => there = w
  BY <1>0 DEF Goes
<1>1. ASSUME here \in Phases \ {"upload"}, there \in Phases \ {"upload"},
             StepsFrom[there] < StepsFrom[here]
      PROVE  StepsLeft(p)' < StepsLeft(p)
  BY <1>1, StepsFromIs DEF StepsLeft, At, Phases
<1>2. ASSUME here # "idle", there = "idle"
      PROVE  StepsLeft(p)' < StepsLeft(p)
  <2>1. StepsLeft(p)' = 0
    BY <1>2, StepsFromIs DEF StepsLeft, At
  <2> QED BY <1>2, <2>1, StepsType DEF At
<1> USE StepsFromIs DEF Phases, At
<1>3. CASE ReadRelease(p)
  <2>1. here = "release" /\ there = "stable"
    BY <1>0, <1>3 DEF ReadRelease
  <2> QED BY <1>1, <2>1
<1>4. CASE ReadStable(p)
  <2>1. here = "stable" /\ there \in {"idle", "apply", "feed"}
    BY <1>0, <1>0a, <1>0b, <1>4 DEF ReadStable, Job
  <2> QED BY <1>1, <2>1
<1>5. CASE ReadFeed(p)
  <2>1. here = "feed" /\ there \in {"idle", "apply"}
    BY <1>0, <1>0a, <1>0b, <1>5 DEF ReadFeed, Job
  <2> QED BY <1>1, <2>1
<1>6. CASE ResumePublic(p) \/ ResumeDraft(p) \/ RefuseDraft(p)
  <2>1. here = "apply" /\ there \in {"idle", "advance", "undraft"}
    BY <1>0, <1>0a, <1>6 DEF ResumePublic, ResumeDraft, RefuseDraft, TakeUp, Job
  <2> QED BY <1>1, <2>1
<1>7. CASE CreateDraft(p)
  <2>1. here = "apply" /\ there \in {"idle", "upload"}
    BY <1>0, <1>0a, <1>0b, <1>7 DEF CreateDraft
  <2>2. CASE there = "upload"
    <3>1. Missing(release[Tag(p)])' \in 0 .. 3
      BY DEF Missing
    <3> QED BY <2>1, <2>2, <3>1 DEF StepsLeft
  <2> QED BY <1>2, <2>1, <2>2
<1>8. CASE UploadAsset(p)
  <2> DEFINE i == Tag(p)
  <2>1. /\ here = "upload" /\ there = IF Complete(release'[i]) THEN "undraft" ELSE "upload"
        /\ job'[p].manifest = job[p].manifest
    BY <1>0, <1>8 DEF UploadAsset, Goes, Job
  <2>2. /\ i \in Identity /\ release \in [Identity -> Release] /\ release[i] \in Release
        /\ job[p].manifest # None
    BY <1>8, AtWork, PublishAssumption DEF UploadAsset, IInv, TypeOK
  <2>3. Missing(release'[i]) = Missing(release[i]) - 1
    <3>1. CASE release[i].manifest = None /\ release' = [release EXCEPT ![i].manifest = job[p].manifest]
      BY <2>2, <3>1 DEF Missing, Release
    <3>2. CASE ~release[i].rest /\ release' = [release EXCEPT ![i].rest = TRUE]
      BY <2>2, <3>2 DEF Missing, Release
    <3>3. CASE release[i].archives = "none" /\ release' = [release EXCEPT ![i].archives = "whole"]
      BY <2>2, <3>3 DEF Missing, Release
    <3>4. CASE release[i].archives = "none" /\ release' = [release EXCEPT ![i].archives = "damaged"]
      BY <2>2, <3>4 DEF Missing, Release
    <3> QED BY <1>8, <3>1, <3>2, <3>3, <3>4 DEF UploadAsset
  <2>4. /\ Missing(release[i]) \in 0 .. 3 /\ Missing(release'[i]) \in 0 .. 3
    BY DEF Missing
  <2>5. /\ StepsLeft(p) = 6 + Missing(release[i])
        /\ StepsLeft(p)' = IF there = "upload" THEN 6 + Missing(release'[i]) ELSE 6
    BY <2>1 DEF StepsLeft, Tag
  <2> QED BY <2>3, <2>4, <2>5
<1>9. CASE Undraft(p)
  <2>1. here = "undraft" /\ there = "readback"
    BY <1>0, <1>0b, <1>9 DEF Undraft
  <2> QED BY <1>1, <2>1
<1>10. CASE ReadBack(p)
  <2>1. here = "readback" /\ there \in {"idle", "advance"}
    BY <1>0, <1>0a, <1>0b, <1>10 DEF ReadBack
  <2> QED BY <1>1, <2>1
<1>11. CASE Advance(p)
  <2>1. here = "advance" /\ there \in {"idle", "create", "replace"}
    BY <1>0, <1>0a, <1>0b, <1>11 DEF Advance
  <2> QED BY <1>1, <2>1
<1>12. CASE CreateFeed(p)
  <2>1. here = "create" /\ there \in {"idle", "replace"}
    BY <1>0, <1>0a, <1>0b, <1>12 DEF CreateFeed
  <2> QED BY <1>1, <2>1
<1>13. CASE RemoveOld(p)
  <2>1. here = "replace" /\ there = "put"
    BY <1>0, <1>0b, <1>13 DEF RemoveOld
  <2> QED BY <1>1, <2>1
<1>14. CASE Put(p)
  <2>1. here = "put" /\ there = "idle"
    BY <1>0, <1>0a, <1>14 DEF Put
  <2> QED BY <1>1, <2>1
<1> QED
  BY <1>3, <1>4, <1>5, <1>6, <1>7, <1>8, <1>9, <1>10, <1>11, <1>12, <1>13, <1>14
  DEF Publishes

\* What others do to the release of a run at work: at most they publish it, and
\* never while the run uploads its assets.
LEMMA OthersLeave ==
  ASSUME IInv, [Next]_vars, NEW p \in Publisher, ~At(p, "idle"), ~Publishes(p)
  PROVE  /\ job'[p] = job[p] \/ job'[p] = Idle
         /\ At(p, "upload") => release'[Tag(p)] = release[Tag(p)]
<1> DEFINE i == Tag(p)
<1> USE DEF At
<1>0. /\ job \in [Publisher -> Job] /\ release \in [Identity -> Release]
      /\ i \in Identity
      /\ At(p, "upload") => release[i].state = "draft"
  BY AtWork DEF IInv, TypeOK, JobFits
<1>1. ASSUME NEW q \in Publisher, Publishes(q)
      PROVE  job'[p] = job[p]
  <2>1. q # p
    BY <1>1
  <2>2. \E j : job' = [job EXCEPT ![q] = j]
    BY <1>1
    DEF Publishes, ReadRelease, ReadStable, ReadFeed, ResumePublic, ResumeDraft, RefuseDraft,
        TakeUp, CreateDraft, UploadAsset, Undraft, ReadBack, Advance, CreateFeed, RemoveOld,
        Put, Ends, Goes
  <2> QED BY <1>0, <2>1, <2>2
<1>2. ASSUME NEW q \in Publisher, Publishes(q), At(p, "upload")
      PROVE  release'[i] = release[i]
  <2>1. CASE UploadAsset(q)
    <3>1. At(q, "upload") /\ q # p
      BY <1>2, <2>1 DEF UploadAsset
    <3>2. Tag(q) # i
      BY <1>2, <3>1 DEF IInv, OneUploader
    <3> QED BY <1>0, <2>1, <3>2 DEF UploadAsset
  <2>2. CASE CreateDraft(q)
    BY <1>0, <1>2, <2>2 DEF CreateDraft
  <2>3. CASE Undraft(q)
    <3>1. Complete(release[Tag(q)]) /\ ~Complete(release[i])
      BY <1>2, <2>3, AtWork DEF Undraft, JobFits, Finishing
    <3> QED BY <1>0, <2>3, <3>1 DEF Undraft
  <2> QED
    BY <1>2, <2>1, <2>2, <2>3
    DEF Publishes, ReadRelease, ReadStable, ReadFeed, ResumePublic, ResumeDraft, RefuseDraft,
        ReadBack, Advance, CreateFeed, RemoveOld, Put
<1>3. ASSUME NEW q \in Publisher, Abort(q)
      PROVE  (job'[p] = job[p] \/ job'[p] = Idle) /\ release' = release
  BY <1>0, <1>3 DEF Abort, Ends
<1>4. ASSUME NEW q \in Publisher, NEW m, NEW o, Starts(q, m, o)
      PROVE  job'[p] = job[p] /\ release' = release
  BY <1>0, <1>4 DEF Starts
<1>5. ASSUME NEW k \in Identity, RemoveDraft(k)
      PROVE  job'[p] = job[p] /\ release'[i] = release[i]
  BY <1>0, <1>5 DEF RemoveDraft
<1>6. CASE UpstreamReleases \/ ResolveStable \/ UNCHANGED vars
  BY <1>6 DEF UpstreamReleases, ResolveStable, vars
<1>7. CASE Scheduled \/ Dispatched \/ \E q \in Publisher : ByHand(q)
  BY <1>4, <1>7, PublishAssumption DEF Scheduled, Dispatched, ByHand
<1> QED BY <1>1, <1>2, <1>3, <1>5, <1>6, <1>7 DEF Next, Maintains

\* A run is over after at most 13 of its steps, whoever else is at work.
THEOREM EveryRunEnds == Spec => []StepsBounded /\ RunsEnd
<1>1. IInv => StepsBounded
  BY StepsType DEF StepsBounded
<1>2. IInv /\ [Next]_vars =>
        [\A p \in Publisher :
           /\ Publishes(p) => StepsLeft(p)' < StepsLeft(p)
           /\ ~At(p, "idle") => StepsLeft(p)' <= StepsLeft(p)]_vars
  <2> SUFFICES ASSUME IInv, [Next]_vars, NEW p \in Publisher
               PROVE  /\ Publishes(p) => StepsLeft(p)' < StepsLeft(p)
                      /\ ~At(p, "idle") => StepsLeft(p)' <= StepsLeft(p)
    OBVIOUS
  <2>1. StepsLeft(p) \in 0 .. 13 /\ StepsLeft(p)' \in 0 .. 13
    BY StepsType, StepsTypeNext, StepInvariant
  <2>2. ASSUME ~At(p, "idle"), ~Publishes(p) PROVE StepsLeft(p)' <= StepsLeft(p)
    <3>1. CASE job'[p] = Idle
      <4>1. StepsLeft(p)' = 0
        BY <3>1, StepsFromIs DEF StepsLeft, At, Idle
      <4> QED BY <2>1, <4>1
    <3>2. CASE job'[p] = job[p] /\ (At(p, "upload") => release'[Tag(p)] = release[Tag(p)])
      <4>1. StepsLeft(p)' = StepsLeft(p)
        BY <3>2 DEF StepsLeft, At, Tag
      <4> QED BY <2>1, <4>1
    <3> QED BY <2>2, <3>1, <3>2, OthersLeave
  <2> QED BY <2>1, <2>2, OwnSteps
<1> QED BY <1>1, <1>2, Invariant, PTL DEF Spec, RunsEnd

-----------------------------------------------------------------------------
(* What a run that ends has done *)

\* What p has seen is still so: of its release, of core-stable and of the feed.
StillSo(p) ==
  /\ job[p].pc \in {"stable", "feed", "apply"} => Listing(release[Tag(p)]) = job[p].seen
  /\ job[p].pc \in {"feed", "apply", "upload", "undraft", "readback", "advance"} /\ ~job[p].listed
       => stable = "absent"
  /\ At(p, "create") => stable = "absent"
  /\ job[p].same => job[p].pc \notin Feeding /\ feed # None /\ feed.id = Tag(p)
  /\ At(p, "put") => feed = None

Lone ==
  /\ \A p, q \in Publisher : p # q => At(p, "idle") \/ At(q, "idle")
  /\ \A p \in Publisher : ~At(p, "idle") => StillSo(p)

\* Unless two runs have been at work at once.
LoneFits == together \/ Lone

\* When a run ends without a failure the release is there, as asked, and the feed
\* names it or a later one; or a maintainer has to help with the release or with
\* core-stable; or another run was at work (publish_core.py:96-206).
EndsForCause(p) ==
  \/ faults' > faults
  \/ together
  \/ stable = "draft" \/ ~Agrees(release[Tag(p)], job[p].manifest)
  \/ job[p].only /\ release[Tag(p)].state = "public"
  \/ feed' # None /\ feed'.id >= Tag(p)

RunsEndForCause ==
  [][\A p \in Publisher : ~At(p, "idle") /\ At(p, "idle")' => EndsForCause(p)]_vars

\* A run that goes on keeps what it knows.
LEMMA GoesOn ==
  ASSUME IInv, NEW p \in Publisher, NEW w, Goes(p, w)
  PROVE  /\ job'[p].pc = w
         /\ UNCHANGED <<job[p].manifest, job[p].seen, job[p].listed, job[p].same>>
BY DEF Goes, IInv, TypeOK, Job

\* Only the run that is alone moves.
LEMMA OnlyOne ==
  ASSUME IInv, Lone, NEW p \in Publisher, NEW j, job' = [job EXCEPT ![p] = j],
         ~At(p, "idle") \/ \A q \in Publisher \ {p} : At(q, "idle"),
         ~At(p, "idle")' => StillSo(p)'
  PROVE  Lone'
<1>1. /\ job'[p] = j
      /\ \A q \in Publisher : q # p => job'[q] = job[q]
  BY DEF IInv, TypeOK
<1>2. \A q \in Publisher \ {p} : At(q, "idle")'
  BY <1>1 DEF Lone, At
<1> QED BY <1>2 DEF Lone

\* What a step of the lone run leaves true of what it has seen.
LEMMA StaysSo ==
  ASSUME IInv, NEW p \in Publisher, Publishes(p), StillSo(p), ~At(p, "idle")'
  PROVE  StillSo(p)'
<1>0. /\ job \in [Publisher -> Job] /\ job[p] \in Job
      /\ release \in [Identity -> Release] /\ Idle.pc = "idle"
  BY DEF IInv, TypeOK, Idle
<1>1. ~Ends(p)
  <2>1. Ends(p) => job'[p] = Idle
    BY <1>0 DEF Ends
  <2> QED BY <1>0, <2>1 DEF At
<1>2. \A w : Goes(p, w) =>
        /\ job'[p].pc = w
        /\ UNCHANGED <<job[p].manifest, job[p].seen, job[p].listed, job[p].same>>
  BY GoesOn
<1> USE DEF At, Tag, Job, Feeding
<1>3. CASE ReadRelease(p)
  <2>1. job'[p] = [job[p] EXCEPT !.pc = "stable", !.seen = Listing(release[Tag(p)])]
    BY <1>0, <1>3 DEF ReadRelease
  <2> QED BY <1>0, <1>3, <2>1 DEF ReadRelease, StillSo, Listing
<1>4. CASE ReadStable(p)
  <2>1. CASE stable = "absent" /\ Goes(p, "apply")
    BY <1>0, <1>2, <1>4, <2>1 DEF ReadStable, StillSo, Listing
  <2>2. CASE job' = [job EXCEPT ![p].pc = "feed", ![p].listed = TRUE]
    <3>1. job'[p] = [job[p] EXCEPT !.pc = "feed", !.listed = TRUE]
      BY <1>0, <2>2
    <3> QED BY <1>0, <1>4, <3>1 DEF ReadStable, StillSo, Listing
  <2> QED BY <1>1, <1>4, <2>1, <2>2 DEF ReadStable
<1>5. CASE ReadFeed(p)
  <2>1. CASE Goes(p, "apply")
    BY <1>0, <1>2, <1>5, <2>1 DEF ReadFeed, StillSo, Listing
  <2>2. CASE /\ feed # None /\ SameArtifacts(feed, job[p].manifest)
             /\ job' = [job EXCEPT ![p].pc = "apply", ![p].same = TRUE]
    <3>1. job'[p] = [job[p] EXCEPT !.pc = "apply", !.same = TRUE]
      BY <1>0, <2>2
    <3> QED BY <1>0, <1>5, <2>2, <3>1 DEF ReadFeed, StillSo, Listing, SameArtifacts
  <2> QED BY <1>1, <1>5, <2>1, <2>2 DEF ReadFeed
<1>6. CASE ResumePublic(p) \/ ResumeDraft(p)
  <2>1. PICK w \in {"advance", "undraft"} :
          /\ At(p, "apply") /\ TakeUp(p, w) /\ UNCHANGED <<release, stable, feed>>
    BY <1>6 DEF ResumePublic, ResumeDraft
  <2>2. /\ Agrees(release[Tag(p)], job[p].manifest)
        /\ job' = [job EXCEPT ![p].pc = w, ![p].manifest = release[Tag(p)].manifest]
    BY <1>1, <2>1 DEF TakeUp
  <2>3. /\ job'[p] = [job[p] EXCEPT !.pc = w, !.manifest = release[Tag(p)].manifest]
        /\ Tag(p)' = Tag(p)
    BY <1>0, <2>2 DEF Agrees, SameArtifacts
  <2> QED BY <1>0, <2>1, <2>3 DEF StillSo
<1>7. CASE RefuseDraft(p) \/ Put(p)
  BY <1>1, <1>7 DEF RefuseDraft, Put
<1>8. CASE CreateDraft(p)
  <2>1. At(p, "apply") /\ Goes(p, "upload") /\ UNCHANGED <<stable, feed>>
    BY <1>1, <1>8 DEF CreateDraft
  <2> QED BY <1>0, <1>2, <2>1 DEF StillSo
<1>9. CASE UploadAsset(p)
  <2>1. PICK w \in {"undraft", "upload"} :
          At(p, "upload") /\ Goes(p, w) /\ UNCHANGED <<stable, feed>>
    BY <1>9 DEF UploadAsset
  <2> QED BY <1>0, <1>2, <2>1 DEF StillSo
<1>10. CASE Undraft(p) \/ ReadBack(p)
  <2>1. PICK w \in {"readback", "advance"} :
          /\ At(p, "undraft") \/ At(p, "readback")
          /\ Goes(p, w) /\ UNCHANGED <<stable, feed>>
    BY <1>1, <1>10 DEF Undraft, ReadBack
  <2> QED BY <1>0, <1>2, <2>1 DEF StillSo
<1>11. CASE Advance(p)
  <2>1. /\ ~job[p].same /\ Goes(p, IF job[p].listed THEN "replace" ELSE "create")
    BY <1>1, <1>11 DEF Advance
  <2> QED BY <1>0, <1>2, <1>11, <2>1 DEF Advance, StillSo
<1>12. CASE CreateFeed(p)
  <2>1. Goes(p, "replace")
    BY <1>1, <1>12 DEF CreateFeed
  <2> QED BY <1>0, <1>2, <1>12, <2>1 DEF CreateFeed, StillSo
<1>13. CASE RemoveOld(p)
  BY <1>0, <1>2, <1>13 DEF RemoveOld, StillSo
<1> QED
  BY <1>3, <1>4, <1>5, <1>6, <1>7, <1>8, <1>9, <1>10, <1>11, <1>12, <1>13 DEF Publishes

LEMMA LoneStep == IInv /\ LoneFits /\ [Next]_vars => LoneFits'
<1> SUFFICES ASSUME IInv, LoneFits, [Next]_vars, ~together' PROVE Lone'
  BY DEF LoneFits
<1>0. job \in [Publisher -> Job] /\ Idle.pc = "idle" /\ ~Idle.same
  BY DEF IInv, TypeOK, Idle
<1>1. ASSUME NEW p \in Publisher, NEW m, NEW o, Starts(p, m, o) PROVE Lone'
  <2>1. ~together /\ \A q \in Publisher \ {p} : At(q, "idle")
    BY <1>1 DEF Starts
  <2>2. job'[p].pc = "release" /\ ~job'[p].same
    BY <1>0, <1>1 DEF Starts, Idle
  <2>3. StillSo(p)'
    BY <2>2 DEF StillSo, At
  <2>4. \E j : job' = [job EXCEPT ![p] = j]
    BY <1>1 DEF Starts
  <2> QED BY <2>1, <2>3, <2>4, OnlyOne DEF LoneFits
<1>2. ASSUME NEW p \in Publisher, Publishes(p) PROVE Lone'
  <2>1. ~At(p, "idle") /\ together' = together
    BY <1>2
    DEF At, Publishes, ReadRelease, ReadStable, ReadFeed, ResumePublic, ResumeDraft, RefuseDraft,
        CreateDraft, UploadAsset, Undraft, ReadBack, Advance, CreateFeed, RemoveOld, Put,
        Elsewhere, history
  <2>2. \E j : job' = [job EXCEPT ![p] = j]
    BY <1>2
    DEF Publishes, ReadRelease, ReadStable, ReadFeed, ResumePublic, ResumeDraft, RefuseDraft,
        TakeUp, CreateDraft, UploadAsset, Undraft, ReadBack, Advance, CreateFeed, RemoveOld,
        Put, Ends, Goes
  <2>3. Lone /\ StillSo(p)
    BY <2>1 DEF LoneFits, Lone
  <2>4. ~At(p, "idle")' => StillSo(p)'
    BY <1>2, <2>3, StaysSo
  <2> QED BY <2>1, <2>2, <2>3, <2>4, OnlyOne
<1>3. ASSUME NEW p \in Publisher, Abort(p) PROVE Lone'
  <2>1. job' = [job EXCEPT ![p] = Idle] /\ ~At(p, "idle") /\ Lone
    BY <1>3 DEF Abort, Ends, LoneFits
  <2>2. At(p, "idle")'
    BY <1>0, <2>1 DEF At
  <2> QED BY <2>1, <2>2, OnlyOne
<1>4. ASSUME NEW i \in Identity, RemoveDraft(i) PROVE Lone'
  <2>1. /\ UNCHANGED <<stable, feed, job>> /\ Lone
        /\ \A p \in Publisher : ~At(p, "idle") => Tag(p) # i
        /\ release' = [release EXCEPT ![i] = NoRelease]
    BY <1>4 DEF RemoveDraft, Elsewhere, history, LoneFits
  <2>2. \A p \in Publisher : ~At(p, "idle") => release'[Tag(p)] = release[Tag(p)]
    BY <2>1, AtWork DEF IInv, TypeOK
  <2> QED BY <2>1, <2>2 DEF Lone, StillSo, At, Tag
<1>5. CASE ResolveStable
  BY <1>5 DEF ResolveStable, Elsewhere, history, LoneFits, Lone, At
<1>6. CASE UpstreamReleases \/ UNCHANGED vars
  BY <1>6 DEF UpstreamReleases, vars, history, LoneFits, Lone, StillSo, At, Tag, Listing
<1>7. CASE Scheduled \/ Dispatched \/ \E p \in Publisher : ByHand(p)
  BY <1>1, <1>7, PublishAssumption DEF Scheduled, Dispatched, ByHand
<1> QED BY <1>1, <1>2, <1>3, <1>4, <1>5, <1>6, <1>7 DEF Next, Maintains

\* What a run that is alone has seen stays so until it ends.
THEOREM LoneRunSeesTrue == Spec => []LoneFits
<1>1. Init => LoneFits
  BY DEF Init, LoneFits, Lone, At, Idle
<1> QED BY <1>1, LoneStep, Invariant, PTL DEF Spec

\* A step with which a lone run ends has one of the causes.
LEMMA OwnEnd ==
  ASSUME IInv, Lone, NEW p \in Publisher, Publishes(p), At(p, "idle")'
  PROVE  EndsForCause(p)
<1> DEFINE r == release[Tag(p)]
<1>0. /\ job \in [Publisher -> Job] /\ job[p] \in Job
  BY DEF IInv, TypeOK
<1>1. \A w : w # "idle" => ~Goes(p, w)
  BY GoesOn DEF At
<1>2. ~At(p, "idle") /\ StillSo(p)
  BY DEF At, Publishes, ReadRelease, ReadStable, ReadFeed, ResumePublic, ResumeDraft,
     RefuseDraft, CreateDraft, UploadAsset, Undraft, ReadBack, Advance, CreateFeed, RemoveOld,
     Put, Lone
<1>3. Tag(p) \in Nat /\ (feed # None => feed.id \in Nat) /\ JobFits(job[p], r)
  <2>1. feed # None => feed.id \in Identity
    BY DEF IInv, TypeOK, Manifest
  <2> QED BY <1>2, <2>1, AtWork, Numbers
<1>4. CASE ReadRelease(p) \/ UploadAsset(p) \/ Undraft(p) \/ RemoveOld(p)
  <2>1. CASE ReadRelease(p)
    BY <1>0, <2>1 DEF ReadRelease, At, Job
  <2>2. CASE UploadAsset(p)
    <3>1. \E w \in {"undraft", "upload"} : Goes(p, w)
      BY <2>2 DEF UploadAsset
    <3> QED BY <1>1, <3>1
  <2> QED BY <1>1, <1>4, <2>1, <2>2 DEF Undraft, RemoveOld
<1>5. CASE ReadStable(p)
  <2>1. job' # [job EXCEPT ![p].pc = "feed", ![p].listed = TRUE]
    BY <1>0 DEF At, Job
  <2> QED BY <1>1, <1>5, <2>1 DEF ReadStable, EndsForCause
<1>6. CASE ReadFeed(p)
  <2>1. job' # [job EXCEPT ![p].pc = "apply", ![p].same = TRUE]
    BY <1>0 DEF At, Job
  <2>2. feed # None /\ ~Older(feed, job[p].manifest) /\ UNCHANGED feed
    BY <1>1, <1>6, <2>1 DEF ReadFeed
  <2> QED BY <1>3, <2>2 DEF EndsForCause, Older, Tag
<1>7. CASE ResumePublic(p) \/ ResumeDraft(p)
  <2>1. \A w \in {"advance", "undraft"} :
          job' # [job EXCEPT ![p].pc = w, ![p].manifest = r.manifest]
    BY <1>0 DEF At, Job
  <2> QED BY <1>7, <2>1 DEF ResumePublic, ResumeDraft, TakeUp, EndsForCause
<1>8. CASE RefuseDraft(p)
  <2>1. Listing(r) = "partial"
    BY <1>2, <1>8 DEF RefuseDraft, StillSo, At
  <2>2. r.state \in {"none", "draft", "public"}
    BY <1>2, AtWork DEF Release
  <2>3. ~Complete(r)
    BY <2>1, <2>2 DEF Listing
  <2> QED BY <2>3 DEF Agrees, EndsForCause
<1>9. CASE CreateDraft(p)
  BY <1>1, <1>2, <1>9 DEF CreateDraft, StillSo, At, Listing
<1>10. CASE ReadBack(p)
  BY <1>1, <1>10 DEF ReadBack, Agrees, EndsForCause
<1>11. CASE Advance(p)
  <2>1. job[p].only \/ job[p].same
    BY <1>1, <1>11 DEF Advance
  <2> QED BY <1>2, <1>3, <1>11, <2>1
      DEF Advance, StillSo, JobFits, Opened, At, EndsForCause
<1>12. CASE CreateFeed(p)
  BY <1>1, <1>2, <1>12 DEF CreateFeed, StillSo
<1>13. CASE Put(p)
  BY <1>2, <1>3, <1>13, AtWork, PublishAssumption DEF Put, StillSo, EndsForCause, Tag
<1> QED
  BY <1>4, <1>5, <1>6, <1>7, <1>8, <1>9, <1>10, <1>11, <1>12, <1>13 DEF Publishes

\* No run ends without a failure unless it has done its work, or there is
\* something for the maintainer, or it met another.
THEOREM NoRunEndsInVain == Spec => RunsEndForCause
<1>1. IInv /\ LoneFits /\ [Next]_vars =>
        [\A p \in Publisher : ~At(p, "idle") /\ At(p, "idle")' => EndsForCause(p)]_vars
  <2> SUFFICES ASSUME IInv, LoneFits, [Next]_vars,
                      NEW p \in Publisher, ~At(p, "idle"), At(p, "idle")'
               PROVE  EndsForCause(p)
    OBVIOUS
  <2>0. job \in [Publisher -> Job]
    BY DEF IInv, TypeOK
  <2>1. CASE together
    BY <2>1 DEF EndsForCause
  <2>2. CASE Lone /\ Publishes(p)
    BY <2>2, OwnEnd
  <2>3. ASSUME Lone, NEW q \in Publisher, Publishes(q) PROVE q = p
    BY <2>3
    DEF Lone, At, Publishes, ReadRelease, ReadStable, ReadFeed, ResumePublic, ResumeDraft,
        RefuseDraft, CreateDraft, UploadAsset, Undraft, ReadBack, Advance, CreateFeed, RemoveOld,
        Put
  <2>4. ASSUME NEW q \in Publisher, Abort(q) PROVE EndsForCause(p)
    BY <2>4 DEF Abort, EndsForCause, IInv, TypeOK
  <2>5. ASSUME NEW q \in Publisher, NEW m, NEW o, Starts(q, m, o) PROVE FALSE
    BY <2>0, <2>5 DEF Starts, At
  <2>6. UNCHANGED job => FALSE
    BY DEF At
  <2> QED
    BY <2>1, <2>2, <2>3, <2>4, <2>5, <2>6, PublishAssumption
    DEF Next, Maintains, LoneFits, Scheduled, Dispatched, ByHand, UpstreamReleases,
        ResolveStable, RemoveDraft, vars
<1> QED BY <1>1, LoneRunSeesTrue, Invariant, PTL DEF Spec, RunsEndForCause
=============================================================================
