------------------------------ MODULE Publish ------------------------------
(***************************************************************************)
(* The publication of core releases (tools/publish_core.py) and the        *)
(* discovery that decides when it is needed (tools/check_stable.py).       *)
(*                                                                         *)
(* A run takes a signed candidate to an immutable release of its own tag,  *)
(* by way of a draft, and then advances the feed core-stable, the manifest *)
(* every router asks for.  Runs of the workflow exclude each other, but a  *)
(* maintainer may run publish_core.py by hand at any time, and any command *)
(* can fail or be cancelled between two requests.                          *)
(*                                                                         *)
(* An identity <<major, minor, patch, build>> is a number, in its order.   *)
(* The two architectures go the same way together and are one asset; what  *)
(* their descriptors say is one content.  A manifest is a content under an *)
(* identity, signed in one run: two signings of equal descriptors differ   *)
(* in the envelope, which the stamp stands for.                            *)
(***************************************************************************)
EXTENDS Naturals, FiniteSets

CONSTANTS Publisher,  \* who runs publish_core.py
          Workflow,   \* the one of them that is core-release.yml
          Identity,   \* version and build numbers
          Content,    \* what the descriptors of both architectures say
          Built,      \* the content the workflow builds, the same every time
          None,       \* no manifest
          MaxAsks,    \* bound on the runs somebody asks for
          MaxFaults   \* bound on failures and cancelled runs

Manifest == [id : Identity, content : Content, stamp : Publisher]

ASSUME PublishAssumption ==
  /\ Workflow \in Publisher
  /\ Identity \subseteq Nat \ {0} /\ 1 \in Identity
  /\ Built \in Content
  /\ None \notin Manifest
  /\ MaxAsks \in Nat /\ MaxFaults \in Nat

VARIABLES
  release,   \* the release of each tag core-v<version>-<build>
  stable,    \* the release core-stable: "absent", "draft" or "public"
  feed,      \* its manifest.json
  job,       \* what each publisher is doing
  latest,    \* the newest stable upstream version, with this recipe's build
  \* history and bounds
  high,      \* the highest identity the feed has named, 0 before the first
  lost,      \* a replacement of the manifest was broken off half-way
  together,  \* two publishers have been at work at once
  asks, faults

bounds == <<asks, faults>>
history == <<high, lost, together>>
vars == <<release, stable, feed, job, latest, history, bounds>>

Phases == {"idle", "release", "stable", "feed", "apply", "upload", "undraft",
           "readback", "advance", "create", "replace", "put"}

\* A release: its manifest.json, its archives, and whether SHA256SUMS and
\* build-metadata.json are there.
Release == [state : {"none", "draft", "public"}, manifest : Manifest \cup {None},
            archives : {"none", "whole", "damaged"}, rest : BOOLEAN]
NoRelease == [state |-> "none", manifest |-> None, archives |-> "none", rest |-> FALSE]

\* A run: the candidate it was given, or later the envelope it found, and what
\* it has seen of the release, of core-stable and of the feed.
Job == [pc : Phases, manifest : Manifest \cup {None}, only : BOOLEAN,
        seen : {"none", "partial", "complete", "public"},
        listed : BOOLEAN, same : BOOLEAN]
Idle == [pc |-> "idle", manifest |-> None, only |-> FALSE, seen |-> "none",
         listed |-> FALSE, same |-> FALSE]

TypeOK ==
  /\ release \in [Identity -> Release]
  /\ stable \in {"absent", "draft", "public"}
  /\ feed \in Manifest \cup {None}
  /\ job \in [Publisher -> Job]
  /\ \A p \in Publisher : job[p].pc # "idle" => job[p].manifest \in Manifest
  /\ latest \in Identity
  /\ high \in Identity \cup {0}
  /\ lost \in BOOLEAN /\ together \in BOOLEAN
  /\ asks \in 0 .. MaxAsks /\ faults \in 0 .. MaxFaults

\* A draft of core-stable can only come from a maintainer's hand.
Init ==
  /\ release = [i \in Identity |-> NoRelease]
  /\ stable \in {"absent", "draft"} /\ feed = None
  /\ job = [p \in Publisher |-> Idle]
  /\ latest = 1
  /\ high = 0 /\ lost = FALSE /\ together = FALSE
  /\ asks = 0 /\ faults = 0

-----------------------------------------------------------------------------
(* What a run sees *)

\* identity(a) < identity(b)
Older(a, b) == a.id < b.id

\* same_artifacts: the verified descriptors agree; envelopes are not compared.
SameArtifacts(a, b) == a.id = b.id /\ a.content = b.content

Complete(r) == r.manifest # None /\ r.archives # "none" /\ r.rest

\* What json_url reports of a release.
Listing(r) ==
  CASE r.state = "draft"  -> IF Complete(r) THEN "complete" ELSE "partial"
    [] r.state # "draft"  -> r.state

\* A release that a run may take up: its manifest agrees with the candidate and
\* its archives match the manifest.
Agrees(r, m) ==
  /\ Complete(r) /\ SameArtifacts(r.manifest, m) /\ r.archives = "whole"

\* The feed a router gets.
Served == IF stable = "public" THEN feed ELSE None

\* update_needed: it is missing or names an older identity.
Offers(i) == Served # None /\ Served.id >= i
\* Mutant: the release being there suppresses the repair of the feed.
UpdateNeededUnreleased(i) == ~Offers(i) /\ release[i].state # "public"

UpdateNeeded(i) == ~Offers(i)

-----------------------------------------------------------------------------
(* The start of a run *)

At(p, where) == job[p].pc = where

\* A run starts with its candidate; validate_archives has accepted it.
Starts(p, m, releaseOnly) ==
  /\ At(p, "idle")
  /\ job' = [job EXCEPT ![p] = [Idle EXCEPT !.pc = "release", !.manifest = m,
                                            !.only = releaseOnly]]
  /\ together' = (together \/ \E q \in Publisher \ {p} : ~At(q, "idle"))
  /\ UNCHANGED <<release, stable, feed, latest, high, lost>>

Candidate(p, i, c) == [id |-> i, content |-> c, stamp |-> p]

\* The workflow's schedule finds a version the feed does not have.
Scheduled ==
  /\ UpdateNeeded(latest)
  /\ Starts(Workflow, Candidate(Workflow, latest, Built), FALSE)
  /\ UNCHANGED bounds

\* It is dispatched for a version; a feed that cannot be read or verified asks
\* for a build as well.
Dispatched ==
  /\ asks < MaxAsks /\ asks' = asks + 1
  /\ \E i \in Identity :
       /\ i <= latest
       /\ \/ UpdateNeeded(i) /\ UNCHANGED faults
          \/ faults < MaxFaults /\ faults' = faults + 1
       /\ Starts(Workflow, Candidate(Workflow, i, Built), FALSE)

\* A maintainer runs publish_core.py on what he has built, with --release-only
\* or without.
ByHand(p) ==
  /\ p # Workflow
  /\ asks < MaxAsks /\ asks' = asks + 1
  /\ \E i \in Identity, c \in Content, releaseOnly \in BOOLEAN :
       i <= latest /\ Starts(p, Candidate(p, i, c), releaseOnly)
  /\ UNCHANGED faults

-----------------------------------------------------------------------------
(* The steps of a run *)

Tag(p) == job[p].manifest.id

\* The step goes on to another place, with what it has learned.
Goes(p, where) == job' = [job EXCEPT ![p].pc = where]
Ends(p) == job' = [job EXCEPT ![p] = Idle]
Elsewhere == UNCHANGED <<latest, history, bounds>>

ReadRelease(p) ==
  /\ At(p, "release")
  /\ job' = [job EXCEPT ![p].pc = "stable", ![p].seen = Listing(release[Tag(p)])]
  /\ UNCHANGED <<release, stable, feed>> /\ Elsewhere

ReadStable(p) ==
  /\ At(p, "stable")
  /\ \/ stable = "draft" /\ Ends(p)
     \/ stable = "absent" /\ Goes(p, "apply")
     \/ stable = "public"
        /\ job' = [job EXCEPT ![p].pc = "feed", ![p].listed = TRUE]
  /\ UNCHANGED <<release, stable, feed>> /\ Elsewhere

\* Mutant: the order of identities is not checked.
ReadFeedUnordered(p) ==
  /\ At(p, "feed")
  /\ IF feed # None /\ SameArtifacts(feed, job[p].manifest)
     THEN job' = [job EXCEPT ![p].pc = "apply", ![p].same = TRUE]
     ELSE Goes(p, "apply")
  /\ UNCHANGED <<release, stable, feed>> /\ Elsewhere

\* remote_manifest(STABLE_URL, missing_ok=True) and the checks on what it says.
ReadFeed(p) ==
  /\ At(p, "feed")
  /\ \/ feed = None /\ Goes(p, "apply")
     \/ feed # None /\ Older(feed, job[p].manifest) /\ Goes(p, "apply")
     \/ /\ feed # None /\ SameArtifacts(feed, job[p].manifest)
        /\ job' = [job EXCEPT ![p].pc = "apply", ![p].same = TRUE]
     \/ /\ feed # None /\ ~Older(feed, job[p].manifest)
        /\ ~SameArtifacts(feed, job[p].manifest)
        /\ Ends(p)
  /\ UNCHANGED <<release, stable, feed>> /\ Elsewhere

\* Mutant: the run keeps the envelope it has signed itself.
TakeUpOwn(p, where) ==
  IF Agrees(release[Tag(p)], job[p].manifest) THEN Goes(p, where) ELSE Ends(p)

\* existing_manifest: the envelope of the release replaces the candidate's.
TakeUp(p, where) ==
  LET r == release[Tag(p)] IN
  \/ /\ Agrees(r, job[p].manifest)
     /\ job' = [job EXCEPT ![p].pc = where, ![p].manifest = r.manifest]
  \/ ~Agrees(r, job[p].manifest) /\ Ends(p)

\* A public release is taken up when its archives can be read back.
ResumePublic(p) ==
  /\ At(p, "apply") /\ job[p].seen = "public"
  /\ TakeUp(p, "advance")
  /\ UNCHANGED <<release, stable, feed>> /\ Elsewhere

\* A complete draft is downloaded and verified.
ResumeDraft(p) ==
  /\ At(p, "apply") /\ job[p].seen = "complete"
  /\ TakeUp(p, "undraft")
  /\ UNCHANGED <<release, stable, feed>> /\ Elsewhere

\* An incomplete one has to be removed by hand.
RefuseDraft(p) ==
  /\ At(p, "apply") /\ job[p].seen = "partial"
  /\ Ends(p)
  /\ UNCHANGED <<release, stable, feed>> /\ Elsewhere

\* Mutant: what the tag has got meanwhile is replaced.
CreateDraftAnew(p) ==
  /\ At(p, "apply") /\ job[p].seen = "none"
  /\ release' = [release EXCEPT ![Tag(p)] = [NoRelease EXCEPT !.state = "draft"]]
  /\ Goes(p, "upload")
  /\ UNCHANGED <<stable, feed>> /\ Elsewhere

\* gh release create makes the draft, unless the tag has a release by now.
CreateDraft(p) ==
  /\ At(p, "apply") /\ job[p].seen = "none"
  /\ \/ /\ release[Tag(p)].state = "none"
        /\ release' = [release EXCEPT ![Tag(p)].state = "draft"]
        /\ Goes(p, "upload")
     \/ /\ release[Tag(p)].state # "none"
        /\ Ends(p) /\ UNCHANGED release
  /\ UNCHANGED <<stable, feed>> /\ Elsewhere

\* It uploads the assets, in any order, and ends with the last of them.
UploadAsset(p) ==
  LET i == Tag(p) IN
  /\ At(p, "upload")
  /\ \/ /\ release[i].manifest = None
        /\ release' = [release EXCEPT ![i].manifest = job[p].manifest]
        /\ UNCHANGED faults
     \/ /\ ~release[i].rest
        /\ release' = [release EXCEPT ![i].rest = TRUE]
        /\ UNCHANGED faults
     \/ /\ release[i].archives = "none"
        /\ release' = [release EXCEPT ![i].archives = "whole"]
        /\ UNCHANGED faults
     \/ /\ release[i].archives = "none"
        /\ faults < MaxFaults /\ faults' = faults + 1
        /\ release' = [release EXCEPT ![i].archives = "damaged"]
  /\ Goes(p, IF Complete(release'[i]) THEN "undraft" ELSE "upload")
  /\ UNCHANGED <<stable, feed, latest, history, asks>>

\* Mutant: the feed is advanced first, the release published never.
UndraftLater(p) ==
  /\ At(p, "undraft")
  /\ Goes(p, "advance")
  /\ UNCHANGED <<release, stable, feed>> /\ Elsewhere

\* gh release edit --draft=false
Undraft(p) ==
  /\ At(p, "undraft")
  /\ release' = [release EXCEPT ![Tag(p)].state = "public"]
  /\ Goes(p, "readback")
  /\ UNCHANGED <<stable, feed>> /\ Elsewhere

\* readback_assets
ReadBack(p) ==
  /\ At(p, "readback")
  /\ IF release[Tag(p)].archives = "whole" THEN Goes(p, "advance") ELSE Ends(p)
  /\ UNCHANGED <<release, stable, feed>> /\ Elsewhere

\* Nothing is left to do for --release-only or when the feed matched; otherwise
\* what was seen of core-stable decides.
Advance(p) ==
  /\ At(p, "advance")
  /\ \/ (job[p].only \/ job[p].same) /\ Ends(p)
     \/ /\ ~job[p].only /\ ~job[p].same
        /\ Goes(p, IF job[p].listed THEN "replace" ELSE "create")
  /\ UNCHANGED <<release, stable, feed>> /\ Elsewhere

\* gh release create core-stable fails when somebody has made it since.
CreateFeed(p) ==
  /\ At(p, "create")
  /\ \/ stable = "absent" /\ stable' = "public" /\ Goes(p, "replace")
     \/ stable # "absent" /\ Ends(p) /\ UNCHANGED stable
  /\ UNCHANGED <<release, feed>> /\ Elsewhere

\* gh release upload --clobber deletes the asset that is there ...
RemoveOld(p) ==
  /\ At(p, "replace")
  /\ feed' = None
  /\ Goes(p, "put")
  /\ UNCHANGED <<release, stable>> /\ Elsewhere

\* ... and then uploads the new one, which fails if another run's is there.
Put(p) ==
  /\ At(p, "put")
  /\ \/ /\ feed = None
        /\ feed' = job[p].manifest
        /\ high' = IF Tag(p) > high THEN Tag(p) ELSE high
     \/ feed # None /\ UNCHANGED <<feed, high>>
  /\ Ends(p)
  /\ UNCHANGED <<release, stable, latest, lost, together, bounds>>

\* A command of the run fails, before or after it took effect, or the run is
\* cancelled.
Abort(p) ==
  /\ ~At(p, "idle")
  /\ faults < MaxFaults /\ faults' = faults + 1
  /\ Ends(p)
  /\ lost' = (lost \/ (At(p, "put") /\ high # 0 /\ feed = None))
  /\ UNCHANGED <<release, stable, feed, latest, high, together, asks>>

-----------------------------------------------------------------------------
(* The surroundings *)

\* A new stable version appears upstream.
UpstreamReleases ==
  /\ latest + 1 \in Identity
  /\ latest' = latest + 1
  /\ UNCHANGED <<release, stable, feed, job, history, bounds>>

\* The maintainer removes a draft that no run is working on.
RemoveDraft(i) ==
  /\ release[i].state = "draft"
  /\ \A p \in Publisher : ~At(p, "idle") => Tag(p) # i
  /\ release' = [release EXCEPT ![i] = NoRelease]
  /\ UNCHANGED <<stable, feed, job>> /\ Elsewhere

\* He publishes or removes a draft of core-stable, while no run is at work.
ResolveStable ==
  /\ stable = "draft"
  /\ \A p \in Publisher : At(p, "idle")
  /\ stable' \in {"absent", "public"}
  /\ UNCHANGED <<release, feed, job>> /\ Elsewhere

-----------------------------------------------------------------------------
Publishes(p) ==
  \/ ReadRelease(p) \/ ReadStable(p) \/ ReadFeed(p)
  \/ ResumePublic(p) \/ ResumeDraft(p) \/ RefuseDraft(p)
  \/ CreateDraft(p) \/ UploadAsset(p) \/ Undraft(p) \/ ReadBack(p)
  \/ Advance(p) \/ CreateFeed(p) \/ RemoveOld(p) \/ Put(p)

Maintains == UpstreamReleases \/ ResolveStable \/ \E i \in Identity : RemoveDraft(i)

Next ==
  \/ Scheduled \/ Dispatched
  \/ \E p \in Publisher : ByHand(p) \/ Publishes(p) \/ Abort(p)
  \/ Maintains

Spec == Init /\ [][Next]_vars

\* A run goes on, and the workflow's schedule comes round.
FairSpec ==
  /\ Spec
  /\ \A p \in Publisher : WF_vars(Publishes(p))
  /\ WF_vars(Scheduled)

-----------------------------------------------------------------------------
(* Properties *)

\* Whatever manifest a router gets, the release it names is public, has archives
\* that match it, and carries the very same envelope, whichever runs met on the
\* way (publish_core.py:117-163, 189-206).
FeedIsReleased ==
  feed # None =>
    LET r == release[feed.id] IN
    r.state = "public" /\ r.manifest = feed /\ r.archives = "whole" /\ r.rest

\* The feed never names less than it has named, unless two runs were at work at
\* once or a replacement was broken off half-way (publish_core.py:176-182).
FeedNeverLower == lost \/ together \/ feed = None \/ feed.id >= high

\* Without these excuses: a version or build number that goes backwards is
\* refused (docs/BUILD.md:104).
NoDowngrade == feed # None => feed.id >= high

\* A public release is never changed again, whoever works on its tag
\* (CONTRACT.md:202).
Immutable ==
  [][\A i \in Identity : release[i].state = "public" => release'[i] = release[i]]_vars

\* Only a maintainer can help: core-stable is a draft, or the release of the
\* newest version is incomplete, damaged or of another content, and no run is
\* working on it.
NeedsHelp ==
  \/ stable = "draft"
  \/ /\ release[latest].state # "none"
     /\ ~Agrees(release[latest], Candidate(Workflow, latest, Built))
     /\ \A p \in Publisher : At(p, "idle") \/ Tag(p) # latest \/ ~At(p, "upload")

\* However often runs fail or collide, the feed gets to the newest version again
\* and again, or a maintainer has to help (core-release.yml:3-5,
\* check_stable.py:18-29).
NewestOffered == []<>(NeedsHelp \/ Offers(latest))

\* The runs together implement a feed over immutable releases.
Offering == INSTANCE ReleaseFeed WITH
  offered <- [i \in Identity |-> IF release[i].state = "public"
                                 THEN release[i].manifest ELSE None],
  named <- feed

FeedImplemented == Offering!Spec
=============================================================================
