------------------------ MODULE RepinPipelineProofs ------------------------
(***************************************************************************)
(* Machine-checked invariance proofs for RepinPipeline, for any number of  *)
(* host releases and of things people do.                                  *)
(***************************************************************************)
EXTENDS RepinPipeline, TLAPS

----------------------------------------------------------------------------
(* Types *)

LEMMA FirstCommitType == FirstCommit \in Commits
BY BoundsAssumption DEF FirstCommit, Commits, Manifests, Tags

LEMMA ManifestTypes ==
  ASSUME NEW c \in Commits
  PROVE  /\ c.manifest.pin \in Tags /\ c.manifest.record \in Tags /\ c.manifest.compiler \in Tags
         /\ c.manifest.version \in Nat /\ c.manifest \in Manifests /\ c.code \in Nat
BY DEF Commits, Manifests

LEMMA RepinnedType ==
  ASSUME NEW m \in Manifests, NEW t \in Tags
  PROVE  Repinned(m, t) \in Manifests
BY DEF Repinned, Manifests

LEMMA AppliedOnType ==
  ASSUME NEW c \in Commits, candidate \in Commits
  PROVE  AppliedOn(c) \in Commits
<1>1. /\ MergedField("pin", c) \in Tags /\ MergedField("record", c) \in Tags
      /\ MergedField("compiler", c) \in Tags /\ MergedField("version", c) \in Nat
  BY ManifestTypes DEF MergedField
<1>2. c.code \in Nat
  BY ManifestTypes
<1>3. QED BY <1>1, <1>2 DEF AppliedOn, Commits, Manifests

\* What becomes of the branches keeps its type.
LEMMA FateTypes ==
  ASSUME branch \in [Tags -> Fates], NEW t, NEW fate \in Fates
  PROVE  Left(t, fate) \in [Tags -> Fates] /\ Removed(t) \in [Tags -> Fates]
         /\ [branch EXCEPT ![t] = "pushed"] \in [Tags -> Fates]
BY DEF Left, Removed, Fates

LEMMA AskedType ==
  ASSUME latest \in Tags, target \in Tags \union {Nightly}
  PROVE  Asked \in Tags
BY DEF Asked

\* The tag of a run is known once detect is through, until the run ends or fails; and only a run
\* that ships gets beyond the gates.
RunInv ==
  /\ pc \notin {"idle", "detect", "escalate"} => target \in Tags
  /\ pc \notin {"idle", "detect", "gates", "escalate"} => ~dry

\* Ending or starting a run keeps the types of its variables.
LEMMA ConcludeTypes ==
  ASSUME TypeOK, NEW c \in {"success", "failure", "cancelled"}, Conclude(c)
  PROVE  /\ latest' \in Tags /\ byHand' \in Nat
         /\ pc' \in Steps /\ target' \in Tags \union {Nightly} /\ dry' \in BOOLEAN
         /\ base' \in Commits /\ candidate' \in Commits /\ tip' \in Commits /\ head' \in Commits
         /\ conclusion' \in {"none", "success", "failure", "cancelled"} /\ queued' \subseteq Requests
         /\ RunInv'
BY FirstCommitType DEF TypeOK, Conclude, DropCheckout, outside, Steps, RunInv

LEMMA StartRunTypes ==
  ASSUME TypeOK, NEW r \in Requests, StartRun(r)
  PROVE  /\ pc' \in Steps /\ target' \in Tags \union {Nightly} /\ dry' \in BOOLEAN
         /\ base' \in Commits /\ candidate' \in Commits /\ tip' \in Commits /\ head' \in Commits
         /\ conclusion' \in {"none", "success", "failure", "cancelled"}
         /\ RunInv'
BY DEF TypeOK, StartRun, Requests, Steps, RunInv

LEMMA TriggerTypes ==
  ASSUME TypeOK, RunInv, NEW t \in Tags \union {Nightly}, NEW d \in BOOLEAN, Trigger(t, d),
         byHand' \in Nat
  PROVE  (TypeOK /\ RunInv)'
<1> DEFINE r == [target |-> t, dry |-> d, base |-> main]
<1>1. r \in Requests
  BY DEF Requests, TypeOK
<1>2. CASE pc = "idle" /\ queued = {} /\ StartRun(r) /\ UNCHANGED queued
  <2>1. UNCHANGED <<latest, repo, output, issues>>
    BY DEF Trigger
  <2>2. QED BY <1>1, <1>2, <2>1, StartRunTypes DEF TypeOK, repo, output
<1>3. CASE queued' = {r} /\ UNCHANGED <<pc, plan, conclusion>>
  <2>1. UNCHANGED <<latest, repo, output, issues>>
    BY DEF Trigger
  <2>2. QED BY <1>1, <1>3, <2>1 DEF TypeOK, RunInv, repo, output, plan
<1>4. QED BY <1>2, <1>3 DEF Trigger

LEMMA TypesInit == Init => TypeOK /\ RunInv
<1> SUFFICES ASSUME Init PROVE TypeOK /\ RunInv
  OBVIOUS
<1>1. FirstCommit \in Commits /\ 1 \in Tags
  BY FirstCommitType, BoundsAssumption DEF Tags
<1>9. [FirstCommit EXCEPT !.manifest.pin = latest] \in Commits
  BY <1>1 DEF Init, Commits, Manifests
<1>2. tags \subseteq [name : Nat, commit : Commits]
  BY <1>1 DEF Init
<1>3. latest \in Tags /\ byHand \in Nat /\ main \in Commits
  BY <1>9 DEF Init
<1>4. base \in Commits /\ candidate \in Commits /\ tip \in Commits /\ head \in Commits
  BY <1>1 DEF Init
<1>5. TypeOK
  BY <1>2, <1>3, <1>4 DEF Init, TypeOK, Steps, Fates
<1>6. QED BY <1>5 DEF Init, RunInv

LEMMA TypesStep ==
  ASSUME TypeOK, RunInv, [Next]_vars
  PROVE  (TypeOK /\ RunInv)'
<1> USE DEF outside, repo, output, plan
<1>1. CASE NightlyTrigger
  BY <1>1, TriggerTypes DEF NightlyTrigger, TypeOK
<1>2. CASE Dispatch
  <2>1. PICK t \in {Nightly} \union 1..latest, d \in BOOLEAN : Trigger(t, d)
    BY <1>2 DEF Dispatch
  <2>2. t \in Tags \union {Nightly}
    BY BoundsAssumption DEF TypeOK, Tags
  <2>3. byHand' \in Nat
    BY <1>2 DEF Dispatch, TypeOK
  <2>4. QED BY <2>1, <2>2, <2>3, TriggerTypes
<1>3. CASE StartQueued
  <2>1. PICK r \in queued : StartRun(r) /\ queued' = queued \ {r}
    BY <1>3 DEF StartQueued
  <2>2. r \in Requests
    BY DEF TypeOK
  <2>3. QED BY <1>3, <2>1, <2>2, StartRunTypes DEF StartQueued, TypeOK
<1>4. CASE DetectSkips
  BY <1>4, ConcludeTypes DEF DetectSkips, TypeOK
<1>5. CASE DetectDue
  BY <1>5, AskedType DEF DetectDue, Go, TypeOK, RunInv, Steps
<1>6. CASE DetectFails
  BY <1>6, FirstCommitType DEF DetectFails, DropCheckout, Go, TypeOK, RunInv, Steps
<1>7. CASE PassGates
  <2>1. CASE dry /\ Conclude("success") /\ UNCHANGED <<repo, output, issues>>
    BY <2>1, ConcludeTypes DEF TypeOK
  <2>2. CASE ~dry /\ candidate' = [manifest |-> Repinned(base.manifest, target), code |-> base.code]
    <3>1. target \in Tags
      BY <1>7 DEF PassGates, RunInv
    <3>2. base.manifest \in Manifests /\ base.code \in Nat
      BY DEF TypeOK, Commits
    <3>3. Repinned(base.manifest, target) \in Manifests
      BY <3>1, <3>2, RepinnedType
    <3>4. candidate' \in Commits
      BY <2>2, <3>2, <3>3 DEF Commits
    <3>5. pc' = "branch" \/ Conclude("success")
      BY <1>7 DEF PassGates, Go
    <3>6. CASE Conclude("success")
      BY <1>7, <3>6, ConcludeTypes DEF PassGates, TypeOK
    <3>7. CASE pc' = "branch"
      <4>1. UNCHANGED <<latest, byHand, main, branch, prs, tags, released, requested, issues,
                        target, dry, base, tip, head, conclusion, queued>>
        BY <1>7, <3>7 DEF PassGates, Go, Conclude
      <4>2. QED BY <2>2, <3>1, <3>4, <3>7, <4>1 DEF TypeOK, RunInv, Steps
    <3>8. QED BY <3>5, <3>6, <3>7
  <2>3. QED BY <1>7, <2>1, <2>2 DEF PassGates
<1>8. CASE StepFails
  BY <1>8, FirstCommitType DEF StepFails, DropCheckout, Go, TypeOK, RunInv, Steps
<1>9. CASE PushBranch
  BY <1>9, FateTypes DEF PushBranch, Go, TypeOK, RunInv, Steps, Fates
<1>10. CASE OpenPr
  BY <1>10 DEF OpenPr, Go, TypeOK, RunInv, Steps
<1>11. CASE MergePr
  BY <1>11, AppliedOnType, FateTypes DEF MergePr, Fates, Go, TypeOK, RunInv, Steps
<1>12. CASE PushMain
  BY <1>12, FateTypes DEF PushMain, PushOnto, Fates, Go, TypeOK, RunInv, Steps
<1>13. CASE Rebase
  BY <1>13, AppliedOnType DEF Rebase, Go, TypeOK, RunInv, Steps
<1>14. CASE Repush
  BY <1>14 DEF Repush, Go, TypeOK, RunInv, Steps
<1>15. CASE PushMainAgain
  BY <1>15, FateTypes DEF PushMainAgain, PushOnto, Fates, Go, TypeOK, RunInv, Steps
<1>16. CASE DeleteBranch
  BY <1>16, FateTypes DEF DeleteBranch, Fates, Go, TypeOK, RunInv, Steps
<1>17. CASE Fetch
  BY <1>17 DEF Fetch, Go, TypeOK, RunInv, Steps
<1>18. CASE PushTag
  BY <1>18 DEF PushTag, NewVersion, Go, TypeOK, RunInv, Steps, Commits, Manifests
<1>19. CASE RunReleases
  <2>4. \A t \in tags : t.name \in Nat
    BY DEF TypeOK
  <2>5. released' = released \/ Publishes(NewVersion)
    BY <1>19 DEF RunReleases
  <2>1. released' \subseteq Nat
    <3>1. CASE released' = released
      BY <3>1 DEF TypeOK
    <3>2. CASE Publishes(NewVersion)
      <4>1. PICK t \in tags : t.name = NewVersion
        BY <3>2 DEF Publishes
      <4>2. NewVersion \in Nat
        BY <2>4, <4>1
      <4>3. released' = released \union {NewVersion}
        BY <3>2 DEF Publishes
      <4>4. QED BY <4>2, <4>3 DEF TypeOK
    <3>3. QED BY <2>5, <3>1, <3>2
  <2>2. \E c \in {"success", "failure"} : Conclude(c)
    BY <1>19 DEF RunReleases
  <2>3. QED BY <1>19, <2>1, <2>2, ConcludeTypes DEF RunReleases, TypeOK
<1>20. CASE Escalate
  <2>1. issues' \subseteq Tags \union {Nightly}
    BY <1>20 DEF Escalate, TypeOK
  <2>2. QED BY <1>20, <2>1, ConcludeTypes DEF Escalate, TypeOK
<1>21. CASE EscalationFails \/ EscalationSkipped \/ Cancel
  <2>1. branch' \in [Tags -> Fates] /\ main' = main /\ prs' = prs /\ issues' = issues /\ UNCHANGED output
    BY <1>21, FateTypes DEF EscalationFails, EscalationSkipped, Cancel, TypeOK, Fates
  <2>2. PICK c \in {"success", "failure", "cancelled"} : Conclude(c)
    BY <1>21 DEF EscalationFails, EscalationSkipped, Cancel
  <2>3. QED BY <2>1, <2>2, ConcludeTypes DEF TypeOK
<1>22. CASE UpstreamRelease
  BY <1>22, BoundsAssumption DEF UpstreamRelease, TypeOK, RunInv, Tags
<1>23. CASE PushCode
  BY <1>23 DEF PushCode, ByHand, TypeOK, RunInv, Commits
<1>24. CASE PushManifests
  <2>1. PICK p \in 1..latest, v \in {w \in 0..(main.manifest.version + 1) : w + 1 >= main.manifest.version} :
        \E r \in {main.manifest.record, p} : \E k \in {main.manifest.compiler, r} :
          main' = [main EXCEPT !.manifest = [pin |-> p, record |-> r, compiler |-> k, version |-> v]]
    BY <1>24 DEF PushManifests
  <2>4. p \in Tags /\ v \in Nat
    BY <2>1, BoundsAssumption, ManifestTypes DEF TypeOK, Tags
  <2>2. main' \in Commits
    BY <2>1, <2>4 DEF TypeOK, Commits, Manifests
  <2>3. QED BY <1>24, <2>2 DEF PushManifests, ByHand, TypeOK, RunInv
<1>25. CASE PushHandTag
  BY <1>25 DEF PushHandTag, ByHand, TypeOK, RunInv, Commits, Manifests
<1>26. CASE TagReleases
  BY <1>26 DEF TagReleases, Publishes, TypeOK, RunInv
<1>27. CASE ClosePr \/ CloseIssue \/ RemoveBranch
  <2>1. branch' \in [Tags -> Fates] /\ prs' \subseteq prs /\ issues' \subseteq issues
    BY <1>27, FateTypes DEF ClosePr, CloseIssue, RemoveBranch, TypeOK, Fates
  <2>2. UNCHANGED <<outside, main, output, plan, pc, conclusion, queued>>
    BY <1>27 DEF ClosePr, CloseIssue, RemoveBranch
  <2>3. QED BY <2>1, <2>2 DEF TypeOK, RunInv
<1>30. CASE DispatchRelease
  <2>1. PICK t \in tags : requested' = requested \union {t.name}
    BY <1>30 DEF DispatchRelease
  <2>2. t.name \in Nat
    BY DEF TypeOK
  <2>3. requested' \subseteq Nat
    BY <2>1, <2>2 DEF TypeOK
  <2>4. QED BY <1>30, <2>3 DEF DispatchRelease, ByHand, TypeOK, RunInv
<1>28. CASE UNCHANGED vars
  BY <1>28 DEF vars, TypeOK, RunInv
<1>29. QED
  BY <1>1, <1>2, <1>3, <1>4, <1>5, <1>6, <1>7, <1>8, <1>9, <1>10, <1>11, <1>12, <1>13, <1>14,
     <1>15, <1>16, <1>17, <1>18, <1>19, <1>20, <1>21, <1>22, <1>23, <1>24, <1>25, <1>26, <1>27, <1>28, <1>30
  DEF Next, RunStep, Environment

\* The variables keep their types (repin.yml, release.yml): in particular a run never gets past
\* detect without a tag.
THEOREM TypeCorrect == Spec => []TypeOK
<1>1. Init => TypeOK /\ RunInv
  BY TypesInit
<1>2. TypeOK /\ RunInv /\ [Next]_vars => (TypeOK /\ RunInv)'
  BY TypesStep
<1>3. QED BY <1>1, <1>2, PTL DEF Spec

----------------------------------------------------------------------------
(* The steps that move main *)

\* A step of somebody else leaves the run alone.
People ==
  \/ UpstreamRelease \/ PushCode \/ PushManifests \/ PushHandTag \/ DispatchRelease
  \/ TagReleases \/ ClosePr \/ CloseIssue \/ RemoveBranch

LEMMA EnvironmentKeepsRun ==
  ASSUME People
  PROVE  UNCHANGED <<plan, pc, conclusion, queued>>
BY DEF People, UpstreamRelease, PushCode, PushManifests, PushHandTag, DispatchRelease, TagReleases,
       ClosePr, CloseIssue, RemoveBranch, ByHand

\* The ends of a run without a push.
Ends == Escalate \/ EscalationFails \/ EscalationSkipped \/ Cancel

LEMMA StartOrKeepsRun ==
  ASSUME NightlyTrigger \/ Dispatch \/ StartQueued
  PROVE  /\ UNCHANGED <<repo, output, issues>>
         /\ \/ pc = "idle" /\ pc' = "detect" /\ tip' = base'
            \/ UNCHANGED <<pc, plan>>
BY DEF NightlyTrigger, Dispatch, StartQueued, Trigger, StartRun

\* From the manifests m to the manifests n a run has made its own changes only, and what is not as
\* the gates left it is somebody else's in a field the re-pin does not change.
Tested == Repinned(base.manifest, target)
Lands(m, n) ==
  \A f \in Fields :
    /\ n[f] # m[f] => m[f] = base.manifest[f] /\ n[f] = Tested[f]
    /\ n[f] # Tested[f] => Tested[f] = base.manifest[f] /\ m[f] # base.manifest[f] /\ n[f] = m[f]

\* The re-pin sits on the commit of the run until it is merged or rebased.  Once it is merged the
\* branch adds nothing to main; a rebase puts it on a main where all of it applies.
OnBase == tip = base /\ candidate = [manifest |-> Tested, code |-> base.code]
CandidateInv ==
  /\ pc \in {"detect", "gates"} => tip = base
  /\ pc \in {"branch", "pr", "merge"} => OnBase
  /\ pc \in {"main", "rebase"} => OnBase \/ tip = candidate
  /\ pc \in {"repush", "again"} =>
       /\ candidate.code = tip.code
       /\ candidate.manifest = tip.manifest \/ Lands(tip.manifest, candidate.manifest)

LEMMA AppliedField ==
  ASSUME NEW c, NEW f \in Fields
  PROVE  AppliedOn(c).manifest[f] = MergedField(f, c)
BY DEF AppliedOn, Fields

\* A clean merge of the re-pin with what is on c is safe, field by field.
LEMMA MergeLands ==
  ASSUME NEW c, OnBase, Applies(c)
  PROVE  Lands(c.manifest, AppliedOn(c).manifest)
<1> DEFINE n == AppliedOn(c).manifest
<1> SUFFICES ASSUME NEW f \in Fields
             PROVE  /\ n[f] # c.manifest[f] => c.manifest[f] = base.manifest[f] /\ n[f] = Tested[f]
                    /\ n[f] # Tested[f] => /\ Tested[f] = base.manifest[f] /\ c.manifest[f] # base.manifest[f]
                                           /\ n[f] = c.manifest[f]
  BY DEF Lands
<1>1. tip.manifest[f] = base.manifest[f] /\ candidate.manifest[f] = Tested[f]
  BY DEF OnBase
<1>2. n[f] = MergedField(f, c)
  BY AppliedField
<1>3. c.manifest[f] = base.manifest[f] \/ Tested[f] \in {base.manifest[f], c.manifest[f]}
  BY <1>1 DEF Applies, Mergeable
<1>4. CASE c.manifest[f] = base.manifest[f]
  BY <1>1, <1>2, <1>4 DEF MergedField
<1>5. CASE c.manifest[f] # base.manifest[f]
  BY <1>1, <1>2, <1>3, <1>5 DEF MergedField
<1>6. QED BY <1>4, <1>5

\* A branch that is merged already adds nothing.
LEMMA MergedAddsNothing ==
  ASSUME NEW c \in Commits, tip = candidate
  PROVE  AppliedOn(c) = c
<1>1. \A f \in Fields : MergedField(f, c) = c.manifest[f]
  BY DEF MergedField
<1>2. c.manifest = [pin |-> c.manifest.pin, record |-> c.manifest.record,
                    compiler |-> c.manifest.compiler, version |-> c.manifest.version]
  BY DEF Commits, Manifests
<1>3. c = [manifest |-> c.manifest, code |-> c.code]
  BY DEF Commits
<1>4. /\ MergedField("pin", c) = c.manifest.pin /\ MergedField("record", c) = c.manifest.record
      /\ MergedField("compiler", c) = c.manifest.compiler
      /\ MergedField("version", c) = c.manifest.version
  BY <1>1 DEF Fields
<1>5. QED BY <1>2, <1>3, <1>4 DEF AppliedOn

LEMMA CandidateStep ==
  ASSUME TypeOK, CandidateInv, [Next]_vars
  PROVE  CandidateInv'
<1> USE DEF CandidateInv, plan
<1>1. CASE NightlyTrigger \/ Dispatch \/ StartQueued
  <2>1. CASE pc' = "detect" /\ tip' = base'
    BY <2>1
  <2>2. CASE UNCHANGED <<pc, plan>>
    BY <2>2 DEF OnBase, Tested, Lands
  <2>3. QED BY <1>1, <2>1, <2>2, StartOrKeepsRun
<1>2. CASE DetectSkips \/ RunReleases \/ Ends
  <2>1. pc' = "idle"
    BY <1>2 DEF DetectSkips, RunReleases, Ends, Escalate, EscalationFails, EscalationSkipped, Cancel, Conclude
  <2>2. QED BY <2>1
<1>3. CASE DetectFails \/ StepFails \/ DeleteBranch \/ Fetch \/ PushTag
  <2>1. pc' \in {"escalate", "fetch", "tag", "release"}
    BY <1>3 DEF DetectFails, StepFails, DeleteBranch, Fetch, PushTag, Go
  <2>2. QED BY <2>1
<1>4. CASE DetectDue
  <2>1. pc = "detect" /\ pc' = "gates" /\ tip' = tip /\ base' = base
    BY <1>4 DEF DetectDue, Go
  <2>2. QED BY <2>1
<1>5. CASE PassGates
  <2>1. CASE Conclude("success")
    BY <2>1 DEF Conclude
  <2>2. CASE /\ candidate' = [manifest |-> Repinned(base.manifest, target), code |-> base.code]
             /\ pc = "gates" /\ pc' = "branch" /\ base' = base /\ tip' = tip /\ target' = target
    BY <2>2 DEF OnBase, Tested
  <2>3. QED BY <1>5, <2>1, <2>2 DEF PassGates, Go
<1>6. CASE PushBranch \/ OpenPr
  <2>1. pc \in {"branch", "pr"} /\ pc' \in {"pr", "merge", "main"} /\ UNCHANGED plan
    BY <1>6 DEF PushBranch, OpenPr, Go
  <2>2. OnBase'
    BY <2>1 DEF OnBase, Tested
  <2>3. QED BY <2>1, <2>2
<1>7. CASE MergePr
  <2>1. CASE tip' = candidate /\ candidate' = candidate /\ pc' \in {"fetch", "main"}
    BY <2>1
  <2>2. CASE pc = "merge" /\ pc' = "main" /\ UNCHANGED plan
    <3>1. OnBase'
      BY <2>2 DEF OnBase, Tested
    <3>2. QED BY <2>2, <3>1
  <2>3. QED BY <1>7, <2>1, <2>2 DEF MergePr, Go
<1>8. CASE PushMain \/ PushMainAgain
  <2>1. UNCHANGED plan /\ (pc' = "delete" \/ (pc = "main" /\ pc' = "rebase"))
    BY <1>8 DEF PushMain, PushMainAgain, PushOnto, Go
  <2>2. OnBase => OnBase'
    BY <2>1 DEF OnBase, Tested
  <2>3. QED BY <2>1, <2>2
<1>9. CASE Rebase
  <2>1. /\ pc = "rebase" /\ pc' = "repush" /\ Applies(main) /\ candidate' = AppliedOn(main)
        /\ tip' = main /\ base' = base /\ target' = target
    BY <1>9 DEF Rebase, Go
  <2>2. candidate'.code = tip'.code
    BY <2>1 DEF AppliedOn
  <2>3. CASE OnBase
    <3>1. Lands(main.manifest, AppliedOn(main).manifest)
      BY <2>1, <2>3, MergeLands
    <3>2. Lands(tip.manifest, candidate.manifest)'
      BY <2>1, <3>1 DEF Lands, Tested
    <3>3. QED BY <2>1, <2>2, <3>2
  <2>4. CASE tip = candidate
    <3>1. candidate' = main
      BY <2>1, <2>4, MergedAddsNothing DEF TypeOK
    <3>2. QED BY <2>1, <2>2, <3>1
  <2>5. QED BY <2>1, <2>3, <2>4
<1>10. CASE Repush
  <2>1. pc = "repush" /\ pc' = "again" /\ UNCHANGED plan
    BY <1>10 DEF Repush, Go
  <2>2. QED BY <2>1 DEF Lands, Tested
<1>11. CASE UNCHANGED <<pc, plan>>
  BY <1>11 DEF OnBase, Tested, Lands
<1>12. CASE People
  BY <1>11, <1>12, EnvironmentKeepsRun
<1>13. CASE UNCHANGED vars
  BY <1>11, <1>13 DEF vars
<1>14. QED
  BY <1>1, <1>2, <1>3, <1>4, <1>5, <1>6, <1>7, <1>8, <1>9, <1>10, <1>12, <1>13
  DEF Next, RunStep, Environment, People, Ends

LEMMA CandidateInit == Init => CandidateInv
BY DEF Init, CandidateInv

\* Only three steps of a run move main.
LEMMA OnlyPushesMoveMain ==
  ASSUME [Next]_vars, RunStepped, main' # main
  PROVE  MergePr \/ PushMain \/ PushMainAgain
<1>1. CASE People
  BY <1>1, EnvironmentKeepsRun DEF RunStepped
<1>2. CASE NightlyTrigger \/ Dispatch \/ StartQueued
  BY <1>2, StartOrKeepsRun DEF repo
<1>3. CASE DetectSkips \/ DetectDue \/ DetectFails \/ PassGates \/ StepFails \/ PushBranch \/ OpenPr
  BY <1>3 DEF DetectSkips, DetectDue, DetectFails, PassGates, StepFails, PushBranch, OpenPr, repo
<1>4. CASE Rebase \/ Repush \/ DeleteBranch \/ Fetch \/ PushTag \/ RunReleases \/ Ends
  BY <1>4 DEF Rebase, Repush, DeleteBranch, Fetch, PushTag, RunReleases, Ends, Escalate,
              EscalationFails, EscalationSkipped, Cancel, repo
<1>5. QED
  BY <1>1, <1>2, <1>3, <1>4 DEF Next, RunStep, Environment, People, Ends, RunStepped, vars

\* Each of them lands the re-pin safely.
LEMMA MainStep ==
  ASSUME TypeOK, CandidateInv, [Next]_vars, RunStepped, main' # main
  PROVE  main'.code = main.code /\ Lands(main.manifest, main'.manifest)
<1> USE DEF CandidateInv
<1>1. CASE MergePr
  <2>1. pc = "merge" /\ Applies(main) /\ main' = AppliedOn(main)
    BY <1>1 DEF MergePr, repo
  <2>2. OnBase
    BY <2>1
  <2>3. QED BY <2>1, <2>2, MergeLands DEF AppliedOn
<1>2. CASE PushMain
  <2>1. pc = "main" /\ main = tip /\ main' = candidate
    BY <1>2 DEF PushMain, PushOnto, repo
  <2>2. OnBase
    BY <2>1
  <2>3. main.manifest = base.manifest /\ main'.manifest = Tested /\ main'.code = main.code
    BY <2>1, <2>2 DEF OnBase
  <2>4. QED BY <2>3 DEF Lands
<1>3. CASE PushMainAgain
  <2>1. pc = "again" /\ main = tip /\ main' = candidate
    BY <1>3 DEF PushMainAgain, PushOnto
  <2>2. candidate.code = tip.code
    BY <2>1
  <2>3. candidate.manifest # tip.manifest
    BY <2>1, <2>2 DEF TypeOK, Commits
  <2>4. QED BY <2>1, <2>2, <2>3
<1>4. QED BY <1>1, <1>2, <1>3, OnlyPushesMoveMain

\* A run leaves the code alone and changes only what still is as it found it, so nothing people
\* pushed during the run is overwritten by a merge, a rebase or a push (repin.yml, merge_to_main and
\* gh pr merge).
THEOREM HumanWorkKeptCorrect == Spec => HumanWorkKept
<1>1. TypeOK /\ CandidateInv /\ [Next]_vars
        => [RunStepped /\ main' # main =>
              /\ main'.code = main.code
              /\ \A f \in Fields : main'.manifest[f] # main.manifest[f] =>
                   /\ main.manifest[f] = base.manifest[f]
                   /\ main'.manifest[f] = Repinned(base.manifest, target)[f]]_vars
  BY MainStep DEF Lands, Tested
<1>2. TypeOK /\ RunInv /\ CandidateInv /\ [Next]_vars => (TypeOK /\ RunInv /\ CandidateInv)'
  BY TypesStep, CandidateStep
<1>3. QED BY <1>1, <1>2, TypesInit, CandidateInit, PTL DEF Spec, HumanWorkKept

\* Whichever of the three ways to main a run takes, what it puts there is what its gates and tests
\* have seen, but for a field the re-pin does not touch and somebody else changed meanwhile (repin.yml
\* 375-395).
THEOREM ShippedCorrect == Spec => ShipsWhatItTested
<1>1. TypeOK /\ CandidateInv /\ [Next]_vars
        => [RunStepped /\ main' # main =>
              LET tested == Repinned(base.manifest, target) IN
              \A f \in Fields : main'.manifest[f] # tested[f] =>
                   /\ tested[f] = base.manifest[f]
                   /\ main.manifest[f] # base.manifest[f] /\ main'.manifest[f] = main.manifest[f]]_vars
  BY MainStep DEF Lands, Tested
<1>2. TypeOK /\ RunInv /\ CandidateInv /\ [Next]_vars => (TypeOK /\ RunInv /\ CandidateInv)'
  BY TypesStep, CandidateStep
<1>3. QED BY <1>1, <1>2, TypesInit, CandidateInit, PTL DEF Spec, ShipsWhatItTested

\* Although people may take the version back, a run never does.
THEOREM VersionCorrect == Spec => VersionNeverFalls
<1>1. TypeOK /\ CandidateInv /\ [Next]_vars
        => [RunStepped => main'.manifest.version >= main.manifest.version]_vars
  <2> SUFFICES ASSUME TypeOK, CandidateInv, [Next]_vars, RunStepped
               PROVE  main'.manifest.version >= main.manifest.version
    OBVIOUS
  <2>1. main.manifest.version \in Nat /\ base.manifest.version \in Nat
    BY ManifestTypes DEF TypeOK
  <2>2. CASE main' # main
    <3>1. Lands(main.manifest, main'.manifest)
      BY <2>2, MainStep
    <3>2. main'.manifest.version # main.manifest.version =>
            main.manifest.version = base.manifest.version /\ main'.manifest.version = Tested.version
      BY <3>1 DEF Lands, Fields
    <3>3. Tested.version = base.manifest.version + 1
      BY DEF Tested, Repinned
    <3>4. QED BY <2>1, <3>2, <3>3
  <2>3. QED BY <2>1, <2>2
<1>2. TypeOK /\ RunInv /\ CandidateInv /\ [Next]_vars => (TypeOK /\ RunInv /\ CandidateInv)'
  BY TypesStep, CandidateStep
<1>3. QED BY <1>1, <1>2, TypesInit, CandidateInit, PTL DEF Spec, VersionNeverFalls

\* A dry run leaves no trace, whatever becomes of it.
THEOREM DryRunCorrect == Spec => DryRunHarmless
<1> DEFINE Harmless == dry /\ RunStepped => UNCHANGED <<repo, output, issues>>
<1>1. TypeOK /\ RunInv /\ [Next]_vars => [Harmless]_vars
  <2> SUFFICES ASSUME TypeOK, RunInv, [Next]_vars, dry, RunStepped
               PROVE  UNCHANGED <<repo, output, issues>>
    OBVIOUS
  <2>1. pc \in {"idle", "detect", "gates", "escalate"}
    BY DEF TypeOK, RunInv, Steps
  <2>2. CASE NightlyTrigger \/ Dispatch \/ StartQueued
    BY <2>2, StartOrKeepsRun
  <2>3. CASE DetectSkips \/ DetectDue \/ DetectFails \/ PassGates \/ StepFails \/ Ends
    BY <2>3 DEF DetectSkips, DetectDue, DetectFails, PassGates, StepFails, Ends, Escalate,
                EscalationFails, EscalationSkipped, Cancel, repo
  <2>4. CASE PushBranch \/ OpenPr \/ MergePr \/ PushMain \/ Rebase \/ Repush \/ PushMainAgain
             \/ DeleteBranch \/ Fetch \/ PushTag \/ RunReleases
    BY <2>1, <2>4 DEF PushBranch, OpenPr, MergePr, PushMain, Rebase, Repush, PushMainAgain,
                     DeleteBranch, Fetch, PushTag, RunReleases
  <2>5. CASE People
    BY <2>5, EnvironmentKeepsRun DEF RunStepped
  <2>6. QED BY <2>2, <2>3, <2>4, <2>5 DEF Next, RunStep, Environment, People, Ends, RunStepped, vars
<1>2. QED BY <1>1, TypesInit, TypesStep, PTL DEF Spec, DryRunHarmless

----------------------------------------------------------------------------
(* What is published *)

\* Tags are not moved, and what is published has one.
TagsUnique == \A s, t \in tags : s.name = t.name => s = t
ReleasedTagged == \A v \in released : Tagged(v)
PublishedInv == TagsUnique /\ ReleasedTagged /\ PublishedConsistent

\* A new tag whose name is free, or a tag that is there already.
LEMMA TagAdded ==
  ASSUME PublishedInv, NEW t, ~Tagged(t.name) \/ t \in tags,
         tags' = tags \union {t}, released' = released
  PROVE  PublishedInv'
<1>1. CASE t \in tags
  BY <1>1 DEF PublishedInv, TagsUnique, ReleasedTagged, PublishedConsistent, Tagged
<1>2. CASE ~Tagged(t.name)
  <2>1. TagsUnique'
    BY <1>2 DEF PublishedInv, TagsUnique, Tagged
  <2>2. ReleasedTagged'
    BY DEF PublishedInv, ReleasedTagged, Tagged
  <2>3. t.name \notin released
    BY <1>2 DEF PublishedInv, ReleasedTagged
  <2>4. PublishedConsistent'
    BY <2>3 DEF PublishedInv, PublishedConsistent
  <2>5. QED BY <2>1, <2>2, <2>4 DEF PublishedInv
<1>3. QED BY <1>1, <1>2

\* A version that passes the checks of release.yml.
LEMMA VersionPublished ==
  ASSUME PublishedInv, NEW v, Publishes(v), tags' = tags
  PROVE  PublishedInv'
<1>1. PICK t \in tags : t.name = v /\ ReleaseAccepts(v, t.commit)
  BY DEF Publishes
<1>2. released' = released \union {v}
  BY DEF Publishes
<1>3. TagsUnique' /\ ReleasedTagged'
  BY <1>1, <1>2 DEF PublishedInv, TagsUnique, ReleasedTagged, Tagged
<1>4. PublishedConsistent'
  <2> SUFFICES ASSUME NEW u \in tags, u.name \in released \union {v}
               PROVE  ReleaseAccepts(u.name, u.commit)
    BY <1>2 DEF PublishedConsistent
  <2>1. CASE u.name = v
    <3>1. u = t
      BY <1>1, <2>1 DEF PublishedInv, TagsUnique
    <3>2. QED BY <1>1, <2>1, <3>1
  <2>2. CASE u.name \in released
    BY <2>2 DEF PublishedInv, PublishedConsistent
  <2>3. QED BY <2>1, <2>2
<1>5. QED BY <1>3, <1>4 DEF PublishedInv

LEMMA PublishedUnchanged ==
  ASSUME PublishedInv, UNCHANGED <<tags, released>>
  PROVE  PublishedInv'
BY DEF PublishedInv, TagsUnique, ReleasedTagged, PublishedConsistent, Tagged

LEMMA PublishedStep ==
  ASSUME PublishedInv, [Next]_vars
  PROVE  PublishedInv'
<1>1. CASE PushTag
  <2> DEFINE t == [name |-> NewVersion, commit |-> head]
  <2>1. (~Tagged(t.name) \/ t \in tags) /\ tags' = tags \union {t} /\ released' = released
    BY <1>1 DEF PushTag
  <2>2. QED BY <2>1, TagAdded
<1>2. CASE PushHandTag
  <2>1. PICK v \in {main.manifest.version, main.manifest.version + 1} :
          ~Tagged(v) /\ tags' = tags \union {[name |-> v, commit |-> main]}
    BY <1>2 DEF PushHandTag
  <2> DEFINE t == [name |-> v, commit |-> main]
  <2>2. ~Tagged(t.name) /\ tags' = tags \union {t} /\ released' = released
    BY <1>2, <2>1 DEF PushHandTag
  <2>3. QED BY <2>2, TagAdded
<1>3. CASE RunReleases
  <2>1. tags' = tags /\ (Publishes(NewVersion) \/ released' = released)
    BY <1>3 DEF RunReleases
  <2>2. QED BY <2>1, VersionPublished, PublishedUnchanged
<1>4. CASE TagReleases
  <2>1. PICK v \in requested : Publishes(v) \/ released' = released
    BY <1>4 DEF TagReleases
  <2>2. tags' = tags
    BY <1>4 DEF TagReleases
  <2>3. QED BY <2>1, <2>2, VersionPublished, PublishedUnchanged
<1>5. CASE NightlyTrigger \/ Dispatch \/ StartQueued
  BY <1>5, StartOrKeepsRun, PublishedUnchanged DEF output
<1>6. CASE DetectSkips \/ DetectDue \/ DetectFails \/ PassGates \/ StepFails \/ PushBranch \/ OpenPr \/ MergePr
  <2>1. UNCHANGED <<tags, released>>
    BY <1>6 DEF DetectSkips, DetectDue, DetectFails, PassGates, StepFails, PushBranch, OpenPr, MergePr, output
  <2>2. QED BY <2>1, PublishedUnchanged
<1>7. CASE PushMain \/ Rebase \/ Repush \/ PushMainAgain \/ DeleteBranch \/ Fetch \/ Ends
  <2>1. UNCHANGED <<tags, released>>
    BY <1>7 DEF PushMain, Rebase, Repush, PushMainAgain, DeleteBranch, Fetch, Ends, Escalate,
                EscalationFails, EscalationSkipped, Cancel, output
  <2>2. QED BY <2>1, PublishedUnchanged
<1>8. CASE UpstreamRelease \/ PushCode \/ PushManifests \/ DispatchRelease \/ ClosePr \/ CloseIssue \/ RemoveBranch
  <2>1. UNCHANGED <<tags, released>>
    BY <1>8 DEF UpstreamRelease, PushCode, PushManifests, DispatchRelease, ClosePr, CloseIssue, RemoveBranch, output
  <2>2. QED BY <2>1, PublishedUnchanged
<1>9. CASE UNCHANGED vars
  BY <1>9, PublishedUnchanged DEF vars
<1>10. QED
  BY <1>1, <1>2, <1>3, <1>4, <1>5, <1>6, <1>7, <1>8, <1>9 DEF Next, RunStep, Environment, Ends

LEMMA PublishedInit == Init => PublishedInv
<1> SUFFICES ASSUME Init PROVE PublishedInv
  OBVIOUS
<1>1. tags = {[name |-> 1, commit |-> FirstCommit]} /\ released = {1}
  BY DEF Init
<1>2. ReleaseAccepts(1, FirstCommit)
  BY DEF ReleaseAccepts, VersionAccepted, CompilerAccepted, FirstCommit
<1>3. QED BY <1>1, <1>2 DEF PublishedInv, TagsUnique, ReleasedTagged, PublishedConsistent, Tagged

\* The commit tagged with a published version has that version and declares the compiler it was
\* built with, whatever reached main between the merge and the tag (repin.yml 397-400, release.yml
\* 73-101).
THEOREM PublishedCorrect == Spec => []PublishedConsistent
<1>1. Init => PublishedInv
  BY PublishedInit
<1>2. PublishedInv /\ [Next]_vars => PublishedInv'
  BY PublishedStep
<1>3. PublishedInv => PublishedConsistent
  BY DEF PublishedInv
<1>4. QED BY <1>1, <1>2, <1>3, PTL DEF Spec

\* Tags and published versions are only ever added.
LEMMA OutputGrows ==
  ASSUME [Next]_vars
  PROVE  tags \subseteq tags' /\ released \subseteq released'
<1>1. CASE NightlyTrigger \/ Dispatch \/ StartQueued
  BY <1>1, StartOrKeepsRun DEF output
<1>2. CASE DetectSkips \/ DetectDue \/ DetectFails \/ PassGates \/ StepFails \/ PushBranch \/ OpenPr \/ MergePr
  BY <1>2 DEF DetectSkips, DetectDue, DetectFails, PassGates, StepFails, PushBranch, OpenPr, MergePr, output
<1>3. CASE PushMain \/ Rebase \/ Repush \/ PushMainAgain \/ DeleteBranch \/ Fetch \/ Ends
  BY <1>3 DEF PushMain, Rebase, Repush, PushMainAgain, DeleteBranch, Fetch, Ends, Escalate,
              EscalationFails, EscalationSkipped, Cancel, output
<1>4. CASE PushTag \/ PushHandTag
  BY <1>4 DEF PushTag, PushHandTag
<1>5. CASE RunReleases \/ TagReleases
  BY <1>5 DEF RunReleases, TagReleases, Publishes
<1>6. CASE UpstreamRelease \/ PushCode \/ PushManifests \/ DispatchRelease \/ ClosePr \/ CloseIssue \/ RemoveBranch
  BY <1>6 DEF UpstreamRelease, PushCode, PushManifests, DispatchRelease, ClosePr, CloseIssue, RemoveBranch, output
<1>7. CASE UNCHANGED vars
  BY <1>7 DEF vars
<1>8. QED
  BY <1>1, <1>2, <1>3, <1>4, <1>5, <1>6, <1>7 DEF Next, RunStep, Environment, Ends

\* Once published, a version keeps its tag on the commit it was built from.
THEOREM PublishedFixed == Spec => PublishedForGood
<1> DEFINE ForGood ==
      \A v \in released : v \in released' /\ \E t \in tags : {u \in tags' : u.name = v} = {t}
<1>1. PublishedInv /\ [Next]_vars => [ForGood]_vars
  <2> SUFFICES ASSUME PublishedInv, [Next]_vars, NEW v \in released
               PROVE  v \in released' /\ \E t \in tags : {u \in tags' : u.name = v} = {t}
    OBVIOUS
  <2>1. PICK t \in tags : t.name = v
    BY DEF PublishedInv, ReleasedTagged, Tagged
  <2>2. t \in tags' /\ v \in released'
    BY OutputGrows
  <2>3. \A u \in tags' : u.name = v => u = t
    BY <2>1, <2>2, PublishedStep DEF PublishedInv, TagsUnique
  <2>4. {u \in tags' : u.name = v} = {t}
    BY <2>1, <2>2, <2>3
  <2>5. QED BY <2>2, <2>4
<1>2. QED BY <1>1, PublishedInit, PublishedStep, PTL DEF Spec, PublishedForGood

----------------------------------------------------------------------------
(* The branches left behind *)

LeftFor == {"shipped", "cancelled", "dismissed", "silent"}
Explained(t) == t \in prs \union issues \/ branch[t] \in LeftFor
AtWork == {"pr", "merge", "main", "rebase", "repush", "again", "escalate"}
AtWorkOn(t) == target = t /\ ~dry /\ pc \in AtWork

\* A branch without an explanation is that of a run between its push and its end.
LeftoverInv == \A t \in Tags : branch[t] = "pushed" => t \in prs \union issues \/ AtWorkOn(t)

LEMMA LeftoverMeaning ==
  ASSUME TypeOK, LeftoverInv, NEW t \in branches
  PROVE  Explained(t) \/ AtWorkOn(t)
BY DEF TypeOK, LeftoverInv, branches, Explained, LeftFor, Fates

\* Nothing that explains a branch is taken away without it, and the run goes on with it.
LEMMA LeftoverKept ==
  ASSUME LeftoverInv,
         \A t \in Tags : branch'[t] = "pushed" => branch[t] = "pushed",
         \A t \in Tags : branch'[t] = "pushed" /\ t \in prs \union issues => t \in prs' \union issues',
         \A t \in Tags : branch'[t] = "pushed" /\ AtWorkOn(t) => AtWorkOn(t)' \/ t \in prs' \union issues'
  PROVE  LeftoverInv'
BY DEF LeftoverInv

LEMMA LeftoverSame ==
  ASSUME LeftoverInv, UNCHANGED <<branch, prs, issues, pc, target, dry>>
  PROVE  LeftoverInv'
BY LeftoverKept DEF AtWorkOn

\* Where no run is at work on a branch every branch is explained.
LEMMA LeftoverIdle ==
  ASSUME LeftoverInv, UNCHANGED <<repo, issues>>, pc \notin AtWork
  PROVE  LeftoverInv'
BY DEF LeftoverInv, AtWorkOn, repo

\* The run settles its branch: it is gone or has an explanation.
LEMMA LeftoverSettled ==
  ASSUME LeftoverInv, prs \ {target} \subseteq prs', issues \subseteq issues',
         \A t \in Tags : branch'[t] = "pushed" => branch[t] = "pushed" /\ t # target
  PROVE  LeftoverInv'
BY DEF LeftoverInv, AtWorkOn

LEMMA LeftPushed ==
  ASSUME TypeOK, NEW t, NEW fate \in Fates \ {"pushed"}, NEW u \in Tags, Left(t, fate)[u] = "pushed"
  PROVE  branch[u] = "pushed" /\ u # t
BY DEF TypeOK, Left

LEMMA RemovedPushed ==
  ASSUME TypeOK, NEW t, NEW u \in Tags, Removed(t)[u] = "pushed"
  PROVE  branch[u] = "pushed" /\ u # t
BY DEF TypeOK, Removed

LEMMA LeftoverStep ==
  ASSUME TypeOK, RunInv, LeftoverInv, [Next]_vars
  PROVE  LeftoverInv'
<1> USE DEF AtWork
<1>1. CASE NightlyTrigger \/ Dispatch \/ StartQueued
  <2>1. CASE pc = "idle"
    BY <1>1, <2>1, StartOrKeepsRun, LeftoverIdle
  <2>2. CASE UNCHANGED <<pc, plan>>
    BY <1>1, <2>2, StartOrKeepsRun, LeftoverSame DEF plan, repo
  <2>3. QED BY <1>1, <2>1, <2>2, StartOrKeepsRun
<1>2. CASE DetectSkips \/ DetectDue \/ DetectFails \/ PassGates \/ Fetch \/ PushTag \/ RunReleases
  <2>1. pc \in {"detect", "gates", "fetch", "tag", "release"} /\ UNCHANGED <<repo, issues>>
    BY <1>2 DEF DetectSkips, DetectDue, DetectFails, PassGates, Fetch, PushTag, RunReleases
  <2>2. QED BY <2>1, LeftoverIdle
<1>3. CASE StepFails
  BY <1>3, LeftoverKept DEF StepFails, Go, AtWorkOn, repo
<1>4. CASE PushBranch
  <2>1. /\ pc = "branch" /\ pc' = "pr" /\ branch' = [branch EXCEPT ![target] = "pushed"]
        /\ UNCHANGED <<prs, issues, target, dry>>
    BY <1>4 DEF PushBranch, Go, plan
  <2>2. AtWorkOn(target)'
    BY <2>1 DEF AtWorkOn, RunInv
  <2>3. \A t \in Tags : t # target => branch'[t] = branch[t]
    BY <2>1 DEF TypeOK
  <2>4. QED BY <2>1, <2>2, <2>3 DEF LeftoverInv, AtWorkOn
<1>5. CASE OpenPr \/ Rebase \/ Repush
  BY <1>5, LeftoverKept DEF OpenPr, Rebase, Repush, Go, AtWorkOn, repo, plan
<1>6. CASE MergePr
  <2>1. CASE prs' = prs \ {target} /\ branch' \in {Removed(target), Left(target, "shipped")}
    <3>1. issues' = issues /\ prs \ {target} \subseteq prs'
      BY <1>6, <2>1 DEF MergePr
    <3>2. \A t \in Tags : branch'[t] = "pushed" => branch[t] = "pushed" /\ t # target
      BY <2>1, LeftPushed, RemovedPushed DEF Fates
    <3>3. QED BY <3>1, <3>2, LeftoverSettled
  <2>2. CASE Go("main") /\ UNCHANGED <<repo, tip>>
    BY <1>6, <2>2, LeftoverKept DEF MergePr, Go, AtWorkOn, repo
  <2>3. QED BY <1>6, <2>1, <2>2 DEF MergePr
<1>7. CASE PushMain
  <2>1. CASE PushOnto(tip)
    BY <1>7, <2>1, LeftoverSettled, LeftPushed DEF PushMain, PushOnto, Fates
  <2>2. CASE Go("rebase") /\ UNCHANGED repo
    BY <1>7, <2>2, LeftoverKept DEF PushMain, Go, AtWorkOn, repo, plan
  <2>3. QED BY <1>7, <2>1, <2>2 DEF PushMain
<1>8. CASE PushMainAgain
  BY <1>8, LeftoverSettled, LeftPushed DEF PushMainAgain, PushOnto, Fates
<1>9. CASE DeleteBranch
  <2>1. pc = "delete" /\ UNCHANGED <<prs, issues>> /\ branch' \in {branch, Removed(target)}
    BY <1>9 DEF DeleteBranch
  <2>2. \A t \in Tags : branch'[t] = "pushed" => branch[t] = "pushed"
    BY <2>1, RemovedPushed
  <2>3. QED BY <2>1, <2>2 DEF LeftoverInv, AtWorkOn
<1>10. CASE Escalate
  <2>1. UNCHANGED <<repo>> /\ issues' = issues \union {target}
    BY <1>10 DEF Escalate
  <2>2. QED BY <2>1, LeftoverKept DEF AtWorkOn, repo
<1>11. CASE EscalationFails
  BY <1>11, LeftoverSettled, LeftPushed DEF EscalationFails, Fates
<1>12. CASE EscalationSkipped
  BY <1>12, LeftoverKept DEF EscalationSkipped, AtWorkOn, repo
<1>13. CASE Cancel
  <2>1. CASE pc \in {"detect", "gates", "branch"} \/ dry
    BY <1>13, <2>1, LeftoverKept DEF Cancel, AtWorkOn
  <2>2. CASE ~(pc \in {"detect", "gates", "branch"} \/ dry)
    BY <1>13, <2>2, LeftoverSettled, LeftPushed DEF Cancel, Fates
  <2>3. QED BY <2>1, <2>2
<1>14. CASE UpstreamRelease \/ PushCode \/ PushManifests \/ PushHandTag \/ DispatchRelease \/ TagReleases
  <2>1. UNCHANGED <<branch, prs, issues>>
    BY <1>14 DEF UpstreamRelease, PushCode, PushManifests, PushHandTag, DispatchRelease, TagReleases,
                 ByHand, repo
  <2>2. UNCHANGED <<plan, pc>>
    BY <1>14, EnvironmentKeepsRun DEF People
  <2>3. QED BY <2>1, <2>2, LeftoverSame DEF plan
<1>15. CASE ClosePr \/ CloseIssue \/ RemoveBranch
  <2>1. PICK t : /\ prs \ {t} \subseteq prs' /\ issues \ {t} \subseteq issues'
                 /\ branch' \in {Left(t, "dismissed"), Removed(t)}
    <3>1. CASE ClosePr
      BY <3>1 DEF ClosePr
    <3>2. CASE CloseIssue
      BY <3>2 DEF CloseIssue
    <3>3. CASE RemoveBranch
      BY <3>3 DEF RemoveBranch
    <3>4. QED BY <1>15, <3>1, <3>2, <3>3
  <2>2. \A u \in Tags : branch'[u] = "pushed" => branch[u] = "pushed" /\ u # t
    BY <2>1, LeftPushed, RemovedPushed DEF Fates
  <2>3. UNCHANGED <<plan, pc>>
    BY <1>15, EnvironmentKeepsRun DEF People
  <2>4. QED BY <2>1, <2>2, <2>3, LeftoverKept DEF AtWorkOn, plan
<1>16. CASE UNCHANGED vars
  BY <1>16, LeftoverSame DEF vars
<1>17. QED
  BY <1>1, <1>2, <1>3, <1>4, <1>5, <1>6, <1>7, <1>8, <1>9, <1>10, <1>11, <1>12, <1>13, <1>14, <1>15, <1>16
  DEF Next, RunStep, Environment

\* A branch that makes every later night skip its tag, and that no run works on, has one of a closed
\* list of explanations, in whatever order the run, the escalation and the people fail or act
\* (repin.yml 94-98, 413-566).
THEOREM LeftoverCorrect == Spec => []LeftoverExplained
<1>1. Init => TypeOK /\ RunInv /\ LeftoverInv
  BY TypesInit DEF Init, LeftoverInv
<1>2. TypeOK /\ RunInv /\ LeftoverInv /\ [Next]_vars => (TypeOK /\ RunInv /\ LeftoverInv)'
  BY TypesStep, LeftoverStep
<1>3. TypeOK /\ LeftoverInv => LeftoverExplained
  BY LeftoverMeaning DEF LeftoverExplained, AtWorkOn, AtWork, Explained, LeftFor
<1>4. QED BY <1>1, <1>2, <1>3, PTL DEF Spec
=============================================================================
