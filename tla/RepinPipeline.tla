--------------------------- MODULE RepinPipeline ---------------------------
(***************************************************************************)
(* The nightly re-pin (.github/workflows/repin.yml) and the release build  *)
(* it calls (release.yml), with the people who use the same repository     *)
(* meanwhile.  A run is a sequence of separate calls to GitHub: each may   *)
(* fail, the run may be cancelled between any two of them, and main moves  *)
(* under it.  A commit is reduced to its manifests (the five files a       *)
(* re-pin may touch) and to a count of everything else in the tree; host   *)
(* releases and plugin versions are numbers.  Git and GitHub are modelled  *)
(* from how the workflows use them.                                        *)
(***************************************************************************)
EXTENDS Naturals, FiniteSets

CONSTANTS MaxTag,      \* bound: the newest host release there will be
          MaxByHand    \* bound: how often people push, dispatch or tag

ASSUME BoundsAssumption == MaxTag \in Nat \ {0} /\ MaxByHand \in Nat

VARIABLES latest, byHand,                     \* the host's newest release; what people did so far
          main, branch, prs,                  \* the head of main; the repin/<tag> branches; open pull requests
          tags, released, requested,          \* version tags; published versions; release.yml runs people started
          issues,                             \* escalations
          pc, target, dry, base, candidate, tip, head, conclusion, queued

vars == <<latest, byHand, main, branch, prs, tags, released, requested, issues,
          pc, target, dry, base, candidate, tip, head, conclusion, queued>>

outside == <<latest, byHand>>
repo    == <<main, branch, prs>>
output  == <<tags, released, requested>>
plan    == <<target, dry, base, candidate, tip, head>>

Tags == 1..MaxTag
Fields == {"pin", "record", "compiler", "version"}
Nightly == 0           \* as a target: "the latest release"; as an issue: the one without a tag

\* pin: the host tag in Cargo.toml.  record: the host tag host-build.json names.  compiler: the
\* host tag whose compiler rust-toolchain.toml installs and plugin.toml declares; distinct host
\* releases count as built by distinct compilers.
Manifests == [pin : Tags, record : Tags, compiler : Tags, version : Nat]
Commits   == [manifest : Manifests, code : Nat]
\* Of a branch, besides that it is there: the first thing that explains why it still is.
Fates     == {"none", "pushed", "shipped", "cancelled", "silent", "dismissed"}
Requests  == [target : Tags \union {Nightly}, dry : BOOLEAN, base : Commits]

Steps == {"idle", "detect", "gates", "branch", "pr", "merge", "main", "rebase", "repush", "again",
          "delete", "fetch", "tag", "release", "escalate"}

TypeOK ==
    /\ latest \in Tags /\ byHand \in Nat
    /\ main \in Commits /\ branch \in [Tags -> Fates] /\ prs \subseteq Tags
    /\ tags \subseteq [name : Nat, commit : Commits] /\ released \subseteq Nat /\ requested \subseteq Nat
    /\ issues \subseteq Tags \union {Nightly}
    /\ pc \in Steps /\ target \in Tags \union {Nightly} /\ dry \in BOOLEAN
    /\ base \in Commits /\ candidate \in Commits /\ tip \in Commits /\ head \in Commits
    /\ conclusion \in {"none", "success", "failure", "cancelled"} /\ queued \subseteq Requests

----------------------------------------------------------------------------
(* The manifests. *)

\* current-pin: the record names the pinned tag and the installed compiler is the recorded one.
FingerprintsCurrent(m) == m.record = m.pin /\ m.compiler = m.record

\* What the gates leave behind: all three fingerprints of tag t, the patch version bumped.
Repinned(m, t) == [pin |-> t, record |-> t, compiler |-> t, version |-> m.version + 1]

\* steps.bump.outputs.newver
NewVersion == base.manifest.version + 1

\* git applies the re-pin, which leads from tip to candidate, on the commit c hunk by hunk; here
\* field by field.  A field that only one side changed, or both in the same way, merges; it need
\* not (changes of neighbouring lines conflict), so every use of Applies has a failure beside it.
Mergeable(f, c) ==
    \/ c.manifest[f] = tip.manifest[f]
    \/ candidate.manifest[f] \in {tip.manifest[f], c.manifest[f]}
MergedField(f, c) == IF c.manifest[f] = tip.manifest[f] THEN candidate.manifest[f] ELSE c.manifest[f]

Applies(c) == \A f \in Fields : Mergeable(f, c)
AppliedOn(c) ==
    [manifest |-> [pin |-> MergedField("pin", c), record |-> MergedField("record", c),
                   compiler |-> MergedField("compiler", c), version |-> MergedField("version", c)],
     code |-> c.code]

\* release.yml refuses a tag that is not the version of the tagged manifests, and verify-fingerprints
\* a compiler that is not the recorded one.
VersionAccepted(v, m) == v = m.version
CompilerAccepted(m) == m.compiler = m.record
ReleaseAccepts(v, c) == VersionAccepted(v, c.manifest) /\ CompilerAccepted(c.manifest)

FirstCommit == [manifest |-> [pin |-> 1, record |-> 1, compiler |-> 1, version |-> 1], code |-> 0]

\* main pins the newest release there is: the first one, or a later one that somebody pinned by hand
\* without a look at the fingerprints.
Init ==
    /\ latest \in Tags /\ byHand = 0
    /\ main = [FirstCommit EXCEPT !.manifest.pin = latest] /\ branch = [t \in Tags |-> "none"] /\ prs = {}
    /\ tags = {[name |-> 1, commit |-> FirstCommit]} /\ released = {1} /\ requested = {}
    /\ issues = {}
    /\ pc = "idle" /\ target = Nightly /\ dry = FALSE
    /\ base = FirstCommit /\ candidate = FirstCommit /\ tip = FirstCommit /\ head = FirstCommit
    /\ conclusion = "none" /\ queued = {}

----------------------------------------------------------------------------
(* Starting a run: one run at a time, one waiting; its commit is fixed when it is triggered. *)

StartRun(r) ==
    /\ pc' = "detect" /\ target' = r.target /\ dry' = r.dry
    /\ base' = r.base /\ candidate' = r.base /\ tip' = r.base /\ head' = r.base
    /\ conclusion' = "none"

\* The concurrency group: a run that cannot start waits, in place of the one that waited before.
Trigger(t, d) ==
    LET r == [target |-> t, dry |-> d, base |-> main] IN
    /\ \/ pc = "idle" /\ queued = {} /\ StartRun(r) /\ UNCHANGED queued
       \/ ~(pc = "idle" /\ queued = {}) /\ queued' = {r} /\ UNCHANGED <<pc, plan, conclusion>>
    /\ UNCHANGED <<latest, repo, output, issues>>

NightlyTrigger == Trigger(Nightly, FALSE) /\ UNCHANGED byHand

Dispatch ==
    /\ byHand < MaxByHand /\ byHand' = byHand + 1
    /\ \E t \in {Nightly} \union 1..latest, d \in BOOLEAN : Trigger(t, d)

StartQueued ==
    /\ pc = "idle"
    /\ \E r \in queued : StartRun(r) /\ queued' = queued \ {r}
    /\ UNCHANGED <<outside, repo, output, issues>>

\* The checkout of a job ends with the job.
DropCheckout == base' = FirstCommit /\ candidate' = FirstCommit /\ tip' = FirstCommit /\ head' = FirstCommit

Conclude(c) ==
    /\ pc' = "idle" /\ conclusion' = c
    /\ target' = Nightly /\ dry' = FALSE /\ DropCheckout
    /\ UNCHANGED <<outside, queued>>

Go(step) == pc' = step /\ UNCHANGED <<outside, conclusion, queued>>

branches == {t \in Tags : branch[t] # "none"}

\* What becomes of a branch: only the first reason it is left behind for is kept.
Left(t, fate) == [u \in Tags |-> IF u = t /\ branch[u] = "pushed" THEN fate ELSE branch[u]]
Removed(t) == [branch EXCEPT ![t] = "none"]

----------------------------------------------------------------------------
(* The job "detect". *)

\* Slip: an empty input is taken for a tag.
AskedUnresolved == target

Asked == IF target = Nightly THEN latest ELSE target

\* Slip: a current fingerprint record is taken for a current pin.
DetectSkipsOnRecord ==
    /\ pc = "detect" /\ ~dry
    /\ FingerprintsCurrent(base.manifest) \/ Asked \in branches
    /\ Conclude("success") /\ UNCHANGED <<repo, output, issues>>

\* Nothing to do: the commit of the run is current, or a branch of that tag says a pull request is
\* pending.  A dry run asks neither question.
DetectSkips ==
    /\ pc = "detect" /\ ~dry
    /\ \/ Asked = base.manifest.pin /\ FingerprintsCurrent(base.manifest)
       \/ Asked \in branches
    /\ Conclude("success") /\ UNCHANGED <<repo, output, issues>>

\* A git ls-remote that fails counts as "no such branch", so a run may go on although there is one.
DetectDue ==
    /\ pc = "detect"
    /\ dry \/ ~(Asked = base.manifest.pin /\ FingerprintsCurrent(base.manifest))
    /\ target' = Asked
    /\ Go("gates") /\ UNCHANGED <<dry, base, candidate, tip, head, repo, output, issues>>

\* The upstream API does not answer, or current-pin cannot read the manifests.
DetectFails ==
    /\ pc = "detect"
    /\ target' = Nightly /\ DropCheckout
    /\ Go("escalate") /\ UNCHANGED <<dry, repo, output, issues>>

----------------------------------------------------------------------------
(* The job "repin". *)

\* Every step before the pull request works in the checkout only: as one step, the record of the
\* host build, the gates, the rewritten pins, the builds and the tests.
PassGates ==
    /\ pc = "gates"
    /\ \/ dry /\ Conclude("success") /\ UNCHANGED <<repo, output, issues>>
       \/ /\ ~dry
          /\ candidate' = [manifest |-> Repinned(base.manifest, target), code |-> base.code]
          /\ Go("branch") /\ UNCHANGED <<target, dry, base, tip, head, repo, output, issues>>

\* Slip: a failed job ends the run, as without always() in escalate's condition.
StepFailsSilently ==
    /\ pc \in {"gates", "branch", "rebase", "repush", "again", "fetch", "tag"}
    /\ Conclude("failure") /\ UNCHANGED <<repo, output, issues>>

\* Any command of the job may fail: a gate, the network, a refused push.  "set -e" ends the job.
StepFails ==
    /\ pc \in {"gates", "branch", "rebase", "repush", "again", "fetch", "tag"}
    /\ DropCheckout
    /\ Go("escalate") /\ UNCHANGED <<target, dry, repo, output, issues>>

\* Not forced: refused when the branch is there already.
PushBranch ==
    /\ pc = "branch" /\ target \notin branches
    /\ branch' = [branch EXCEPT ![target] = "pushed"]
    /\ Go("pr") /\ UNCHANGED <<plan, main, prs, output, issues>>

\* gh pr create, which a repository setting may forbid.
OpenPr ==
    /\ pc = "pr"
    /\ \/ prs' = prs \union {target} /\ Go("merge")
       \/ UNCHANGED prs /\ Go("main")
    /\ UNCHANGED <<plan, main, branch, output, issues>>

\* gh pr merge --delete-branch: merges what applies and deletes the branch, or fails before the
\* merge, or between the merge and the deletion: then the branch and main have the re-pin in common.
MergePr ==
    /\ pc = "merge"
    /\ \/ /\ target \in prs /\ Applies(main)
          /\ main' = AppliedOn(main) /\ prs' = prs \ {target} /\ tip' = candidate
          /\ \/ branch' = Removed(target) /\ Go("fetch")
             \/ branch' = Left(target, "shipped") /\ Go("main")
       \/ Go("main") /\ UNCHANGED <<repo, tip>>
    /\ UNCHANGED <<target, dry, base, candidate, head, output, issues>>

\* Slip: git push --force.
PushForced(c) ==
    /\ main' = candidate /\ prs' = prs \ {target} /\ branch' = Left(target, "shipped")
    /\ Go("delete")

\* git push origin repin/<tag>:main, which only fast-forwards.  The pull request, if there is one,
\* counts as merged then.
PushOnto(c) ==
    /\ main = c
    /\ main' = candidate /\ prs' = prs \ {target} /\ branch' = Left(target, "shipped")
    /\ Go("delete")

\* A first push that fails, for whatever reason, is taken for a main that moved.
PushMain ==
    /\ pc = "main"
    /\ \/ PushOnto(tip)
       \/ Go("rebase") /\ UNCHANGED repo
    /\ UNCHANGED <<plan, output, issues>>

\* git rebase origin/main, when there is no conflict.
Rebase ==
    /\ pc = "rebase" /\ Applies(main)
    /\ candidate' = AppliedOn(main) /\ tip' = main
    /\ Go("repush") /\ UNCHANGED <<target, dry, base, head, repo, output, issues>>

\* git push --force-with-lease: refused when the branch is not what this run pushed.
Repush ==
    /\ pc = "repush" /\ target \in branches
    /\ Go("again") /\ UNCHANGED <<plan, repo, output, issues>>

PushMainAgain ==
    /\ pc = "again"
    /\ PushOnto(tip)
    /\ UNCHANGED <<plan, output, issues>>

\* git push --delete, whose failure is ignored.
DeleteBranch ==
    /\ pc = "delete"
    /\ branch' \in {branch, Removed(target)}
    /\ Go("fetch") /\ UNCHANGED <<plan, main, prs, output, issues>>

\* What is tagged is the head of main at this moment, not what the run merged.
Fetch ==
    /\ pc = "fetch"
    /\ head' = main
    /\ Go("tag") /\ UNCHANGED <<target, dry, base, candidate, tip, repo, output, issues>>

Tagged(v) == \E t \in tags : t.name = v

\* git push origin v<version>: a tag of that name elsewhere is refused (StepFails).
PushTag ==
    /\ pc = "tag"
    /\ LET t == [name |-> NewVersion, commit |-> head] IN
         /\ ~Tagged(t.name) \/ t \in tags
         /\ tags' = tags \union {t}
    /\ Go("release") /\ UNCHANGED <<plan, repo, released, requested, issues>>

----------------------------------------------------------------------------
(* The job "release", and release.yml on its own. *)

\* Slip: no check of the tag against the version.
PublishesAnyVersion(v) ==
    /\ \E t \in tags : t.name = v /\ CompilerAccepted(t.commit.manifest)
    /\ released' = released \union {v}

\* A build that passes its checks attaches its binary; the builds of the other platforms may fail.
Publishes(v) ==
    /\ \E t \in tags : t.name = v /\ ReleaseAccepts(v, t.commit)
    /\ released' = released \union {v}

\* The release was called by the run.  Its failure fails the run; the job "escalate" only needs
\* "detect" and "repin" and stays away.
RunReleases ==
    /\ pc = "release"
    /\ \/ Publishes(NewVersion) /\ \E c \in {"success", "failure"} : Conclude(c)
       \/ UNCHANGED released /\ Conclude("failure")
    /\ UNCHANGED <<repo, tags, requested, issues>>

TagReleases ==
    /\ \E v \in requested :
         /\ requested' = requested \ {v}
         /\ \/ Publishes(v)
            \/ UNCHANGED released
    /\ UNCHANGED <<outside, repo, tags, issues, plan, pc, conclusion, queued>>

\* The issue of that tag is opened, or commented on when it is open.
Escalate ==
    /\ pc = "escalate" /\ ~dry
    /\ issues' = issues \union {target}
    /\ Conclude("failure") /\ UNCHANGED <<repo, output>>

\* The job is a run of commands like any other: the checkout, or a call of gh under "set -e", fails.
EscalationFails ==
    /\ pc = "escalate" /\ ~dry
    /\ branch' = Left(target, "silent")
    /\ Conclude("failure") /\ UNCHANGED <<main, prs, output, issues>>

\* A dry run does not escalate.
EscalationSkipped ==
    /\ pc = "escalate" /\ dry
    /\ Conclude("failure") /\ UNCHANGED <<repo, output, issues>>

\* Somebody cancels the run, or it exceeds its two hours, which counts as cancelled: no job follows.
Cancel ==
    /\ pc # "idle"
    /\ branch' = IF pc \in {"detect", "gates", "branch"} \/ dry THEN branch ELSE Left(target, "cancelled")
    /\ Conclude("cancelled") /\ UNCHANGED <<main, prs, output, issues>>

----------------------------------------------------------------------------
(* Everybody else. *)

UpstreamRelease ==
    /\ latest < MaxTag /\ latest' = latest + 1
    /\ UNCHANGED <<byHand, repo, output, issues, plan, pc, conclusion, queued>>

ByHand == byHand < MaxByHand /\ byHand' = byHand + 1 /\ UNCHANGED <<latest, issues, plan, pc, conclusion, queued>>

PushCode ==
    /\ ByHand /\ main' = [main EXCEPT !.code = @ + 1]
    /\ UNCHANGED <<branch, prs, output>>

\* A re-pin or a release prepared by hand (RELEASE.md, section 6), its steps perhaps forgotten; or
\* a re-pin reverted, which takes pin and version back.
PushManifests ==
    /\ ByHand
    /\ \E p \in 1..latest, v \in {w \in 0..(main.manifest.version + 1) : w + 1 >= main.manifest.version} :
       \E r \in {main.manifest.record, p} : \E k \in {main.manifest.compiler, r} :
         main' = [main EXCEPT !.manifest = [pin |-> p, record |-> r, compiler |-> k, version |-> v]]
    /\ UNCHANGED <<branch, prs, output>>

\* A version tag pushed by hand starts release.yml.
PushHandTag ==
    /\ ByHand
    /\ \E v \in {main.manifest.version, main.manifest.version + 1} :
         /\ ~Tagged(v)
         /\ tags' = tags \union {[name |-> v, commit |-> main]} /\ requested' = requested \union {v}
    /\ UNCHANGED <<repo, released>>

\* release.yml dispatched by hand for a tag that is there.
DispatchRelease ==
    /\ ByHand
    /\ \E t \in tags : requested' = requested \union {t.name}
    /\ UNCHANGED <<repo, tags, released>>

\* People clear up after a tag, one thing at a time: nothing makes them remove the branch too.
ClosePr ==
    /\ \E t \in prs : prs' = prs \ {t} /\ branch' = Left(t, "dismissed")
    /\ UNCHANGED <<outside, main, output, issues, plan, pc, conclusion, queued>>

CloseIssue ==
    /\ \E t \in issues : issues' = issues \ {t} /\ branch' = Left(t, "dismissed")
    /\ UNCHANGED <<outside, main, prs, output, plan, pc, conclusion, queued>>

\* A pull request does not survive its branch.
RemoveBranch ==
    /\ \E t \in branches : branch' = Removed(t) /\ prs' = prs \ {t}
    /\ UNCHANGED <<outside, main, output, issues, plan, pc, conclusion, queued>>

----------------------------------------------------------------------------
RunStep ==
    \/ StartQueued \/ DetectSkips \/ DetectDue \/ DetectFails \/ PassGates \/ StepFails
    \/ PushBranch \/ OpenPr \/ MergePr \/ PushMain \/ Rebase \/ Repush \/ PushMainAgain
    \/ DeleteBranch \/ Fetch \/ PushTag \/ RunReleases
    \/ Escalate \/ EscalationFails \/ EscalationSkipped

Environment ==
    \/ Dispatch \/ Cancel \/ UpstreamRelease \/ PushCode \/ PushManifests \/ PushHandTag
    \/ DispatchRelease \/ TagReleases \/ ClosePr \/ CloseIssue \/ RemoveBranch

Next == NightlyTrigger \/ RunStep \/ Environment

Spec == Init /\ [][Next]_vars

\* GitHub triggers the schedule again and again, and a job that can take a step takes it.  The
\* escalation may fail any number of nights, but not every night there is something to report.
FairSpec == Spec /\ WF_vars(NightlyTrigger) /\ WF_vars(RunStep) /\ SF_vars(Escalate)

----------------------------------------------------------------------------
(* Properties. *)

RunStepped == pc' # pc

\* A run that changes main leaves the code alone, and of the manifests it changes only what still
\* is as the run found it when it started, to what the re-pin makes of it: nothing people pushed
\* during the run is overwritten, though git merges and rebases what applies (repin.yml,
\* merge_to_main and gh pr merge).
HumanWorkKept ==
    [][RunStepped /\ main' # main =>
         /\ main'.code = main.code
         /\ \A f \in Fields : main'.manifest[f] # main.manifest[f] =>
              /\ main.manifest[f] = base.manifest[f]
              /\ main'.manifest[f] = Repinned(base.manifest, target)[f]]_vars

\* What a run puts on main is what its gates and tests have seen, except for a field which the
\* re-pin had nothing to do with and which people changed while the run went on (a clean merge of
\* two changes is tested by nobody): version and target pin, when the re-pin moves them, are its own.
ShipsWhatItTested ==
    [][RunStepped /\ main' # main =>
         LET tested == Repinned(base.manifest, target) IN
         \A f \in Fields : main'.manifest[f] # tested[f] =>
              /\ tested[f] = base.manifest[f]
              /\ main.manifest[f] # base.manifest[f] /\ main'.manifest[f] = main.manifest[f]]_vars

\* People may revert a re-pin, and the version with it; a run never takes the version back, on
\* whatever main it lands (repin.yml 375-395).
VersionNeverFalls == [][RunStepped => main'.manifest.version >= main.manifest.version]_vars

\* A dry run pushes, tags, publishes and reports nothing, also when it fails (repin.yml, the input
\* "dry_run").
DryRunHarmless == [][dry /\ RunStepped => UNCHANGED <<repo, output, issues>>]_vars

\* A published version stays published, with one tag, on the commit it was built from.
PublishedForGood ==
    [][\A v \in released : v \in released' /\ \E t \in tags : {u \in tags' : u.name = v} = {t}]_vars

\* The commit that carries the tag of a published version has that version and declares the
\* compiler it was built with, although what the run tags is whatever main is by then (repin.yml
\* 397-400, release.yml 73-101).
PublishedConsistent ==
    \A t \in tags : t.name \in released => ReleaseAccepts(t.name, t.commit)

\* A repin/<tag> branch makes every later night skip the tag as "pending".  When no run works on
\* it, something tells people so (the pull request, the issue, the cancelled run), or the re-pin is
\* on main and only the branch was left; or people were told and closed the issue or the pull
\* request, or the escalation itself failed.  There is no other way to leave one (repin.yml 94-98,
\* 413-566).
LeftoverExplained ==
    \A t \in branches :
        \/ pc # "idle" /\ target = t
        \/ t \in prs \union issues
        \/ branch[t] \in {"shipped", "cancelled", "dismissed", "silent"}

\* A host release is not overlooked: main comes to pin it, or a newer one comes, or an issue, a
\* pull request or a cancelled run says why not.  The exception is a branch which every night takes
\* for a pending pull request: left after the re-pin was merged (and undone by hand), by a run that
\* was cancelled or whose escalation failed, or by people who closed what it was about.
Handled(t) ==
    \/ main.manifest.pin = t \/ latest > t
    \/ t \in issues \union prs \/ Nightly \in issues
    \/ conclusion = "cancelled"
    \/ branch[t] \in {"shipped", "cancelled", "dismissed", "silent"}

EachReleaseHandled == \A t \in Tags : latest = t ~> Handled(t)
=============================================================================
