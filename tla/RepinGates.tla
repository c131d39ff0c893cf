----------------------------- MODULE RepinGates -----------------------------
(***************************************************************************)
(* The gates of a re-pin (.github/scripts/repin_gates.py) in the order the *)
(* job "repin" runs them (repin.yml), on the manifests and lockfiles of a  *)
(* host release and of the plugin, and the job "escalate", which runs      *)
(* three of them again to say why the first job stopped.  A lockfile is a  *)
(* set of stanzas; a git revision is a commit and how it is spelled.       *)
(* Cargo is modelled from what the scripts say of it: it keys a git source *)
(* on the literal text, and a [patch] redirects the repository it names.   *)
(***************************************************************************)
EXTENDS Naturals

CONSTANTS Urls, Slug,          \* spellings of git URLs, and the repository slug() reduces each to
          Commits, Version,    \* commits of the codec, and the version its manifest has at each
          Codecs,              \* names the codec crate has had
          Shared, PluginOnly,  \* other crates of the host, and PLUGIN_ONLY
          NoUrl,               \* the source of a crate that does not come from git
          HostShapes, PluginShapes    \* the inputs to try

Plugin == "ocs_python_repl"
Root   == "OpenCADStudio"
Api    == "ocs_plugin_api"
Stray  == "stray"
Own    == PluginOnly \union {Plugin}

Revs       == [commit : Commits, form : {"short", "full"}]
GitSources == [url : Urls, rev : Revs]
Sources    == [url : Urls \union {NoUrl}, rev : Revs]
Stanzas    == [name : Codecs \union Shared \union Own \union {Root, Api, Stray}, version : Nat, source : Sources]

\* A dependency on the codec, and a [patch] entry for it; moving and pinned tell a branch from a rev.
Decls   == [package : Codecs, source : GitSources, moving : BOOLEAN]
Patches == [key : Urls, package : Codecs, source : GitSources, pinned : BOOLEAN]

\* decls: the git dependencies of ocs_plugin_api.  min, max: the API versions the host accepts.
\* legible: whether its manifests are TOML, and what is found in manifest.rs and in the root's Cargo.toml.
Hosts   == [decls : SUBSET Decls, patches : SUBSET Patches, lock : SUBSET Stanzas,
            min : Nat, max : Nat, legible : SUBSET {"toml", "api window", "root name"}]

\* mirrored: those of the patches in the region that rewrite() writes, always at a rev.  regular: the
\* manifest has the entries it replaces.  legible: plugin.toml is TOML.  strays: git crates some other
\* dependency brings in.  version: the last number of the plugin's own version.
Plugins == [codec : Decls, patches : SUBSET Patches, mirrored : SUBSET {q \in Patches : q.pinned},
            lock : SUBSET Stanzas, version : Nat, api : Nat, regular : BOOLEAN, legible : BOOLEAN,
            strays : SUBSET {s \in Stanzas : s.name \in Codecs \union {Stray}}]

ASSUME ShapesAssumption ==
    /\ HostShapes \subseteq Hosts /\ PluginShapes \subseteq Plugins
    /\ NoUrl \notin Urls /\ Slug \in [Urls -> Urls] /\ Version \in [Commits -> Nat]
    /\ Codecs \intersect (Shared \union Own \union {Root, Api, Stray}) = {}
    /\ Shared \intersect (Own \union {Root, Api, Stray}) = {}
    /\ PluginOnly \intersect {Plugin, Root, Api, Stray} = {}

VARIABLES host, before,    \* the manifests at the tag; the plugin as checked out
          ours,            \* the plugin in the working tree of the job
          stage,           \* the next step of the job
          failed, exit,    \* the step that failed, and its exit code
          verdict          \* what the escalation says

vars == <<host, before, ours, stage, failed, exit, verdict>>

Steps  == {"plan", "series", "api", "rewrite", "merge", "resolve", "lockstep", "source", "abi"}
Stages == Steps \union {"accepted", "refused", "reported"}
Escalate == 1
Unparseable == 2
Uncaught == 1        \* how Python ends on an exception that nobody catches
BuildFailed == 101

TypeOK ==
    /\ host \in Hosts /\ before \in Plugins /\ ours \in Plugins
    /\ stage \in Stages /\ failed \in Steps \union {"none"}
    /\ exit \in {0, Escalate, Unparseable, BuildFailed}
    /\ verdict \in {"none", "parser", "decision", "downstream", "detect"}

\* The job detect ran current-pin, which refuses a plugin whose codec is not at a rev.
Init ==
    /\ host \in HostShapes /\ before \in PluginShapes /\ ~before.codec.moving /\ ours = before
    /\ stage = "plan" /\ failed = "none" /\ exit = 0 /\ verdict = "none"

----------------------------------------------------------------------------
(* What the scripts read: h is a host, p a plugin, m either. *)

Series(v) == v \div 10     \* major and minor of a version

IsGit(s) == s.source.url # NoUrl
SameBuild(s, t) == Slug[s.url] = Slug[t.url] /\ s.rev.commit = t.rev.commit

Locked(lock, package) == {s \in lock : s.name = package}
VersionsIn(lock, package) == {s.version : s \in Locked(lock, package)}

\* locked_package, git_source: no stanza is a gap of the parser, two are two builds of the codec.
LockedExit(lock, package) ==
    IF Locked(lock, package) = {} THEN Unparseable
    ELSE IF \E s, t \in Locked(lock, package) : s # t THEN Escalate ELSE 0
GitExit(lock, package) ==
    IF LockedExit(lock, package) # 0 THEN LockedExit(lock, package)
    ELSE IF \E s \in Locked(lock, package) : ~IsGit(s) THEN Unparseable ELSE 0

PatchesFor(m, package) == {q \in m.patches : q.package = package}

\* Slip: a patch that follows a branch is taken for a pin.
PatchExitUnpinned(m, package) == IF \E q, r \in PatchesFor(m, package) : q # r THEN Escalate ELSE 0

PatchExit(m, package) ==
    IF \E q, r \in PatchesFor(m, package) : q # r \/ ~q.pinned THEN Escalate ELSE 0

\* codec_dep_of_plugin_api.
DeclExit(h) ==
    IF \E d \in h.decls : d.moving THEN Escalate
    ELSE IF \E d \in h.decls : h.decls = {d} THEN 0 ELSE Unparseable

Decl(h) == CHOOSE d \in h.decls : TRUE
HostCodec(h) == CHOOSE s \in Locked(h.lock, Decl(h).package) : TRUE
HostPatches(h) == PatchesFor(h, Decl(h).package)

\* What the declaration and the patch say the codec comes from.
Explained(h) == IF HostPatches(h) = {} THEN {Decl(h).source} ELSE {q.source : q \in HostPatches(h)}

\* host_plan: the declaration and the patch must explain the lockfile.  The manifests are loaded for
\* the call of guarded(), and what load_toml raises there is not caught.
PlanExit(h) ==
    IF "toml" \notin h.legible THEN Uncaught
    ELSE IF DeclExit(h) # 0 THEN DeclExit(h)
    ELSE IF GitExit(h.lock, Decl(h).package) # 0 THEN GitExit(h.lock, Decl(h).package)
    ELSE IF PatchExit(h, Decl(h).package) # 0 THEN PatchExit(h, Decl(h).package)
    ELSE IF \E q \in HostPatches(h) : Slug[q.key] # Slug[Decl(h).source.url] THEN Escalate
    ELSE IF \E s \in Explained(h) : ~SameBuild(s, HostCodec(h).source) THEN Unparseable ELSE 0

\* gate_series, on the plugin's own manifest and lockfile.
SeriesExit(h, p) ==
    IF p.codec.moving THEN Escalate
    ELSE IF LockedExit(p.lock, p.codec.package) # 0 THEN LockedExit(p.lock, p.codec.package)
    ELSE IF \E s \in Locked(p.lock, p.codec.package) : Series(s.version) # Series(HostCodec(h).version)
    THEN Escalate ELSE 0

\* gate_api, likewise.
ApiExit(h, p) ==
    IF ~p.legible THEN Uncaught
    ELSE IF "api window" \notin h.legible THEN Unparseable
    ELSE IF h.min <= p.api /\ p.api <= h.max THEN 0 ELSE Escalate

----------------------------------------------------------------------------
(* What the steps write. *)

\* rewrite: the codec as ocs_plugin_api spells it, the mirrored patch as the host has it, and
\* the next version; a patch outside the region stays.
Rewritten(h, p) ==
    [p EXCEPT !.codec = Decl(h), !.version = p.version + 1,
              !.patches = (p.patches \ p.mirrored) \union HostPatches(h), !.mirrored = HostPatches(h)]

\* merge_lock: the host's stanzas but for its root and the plugin's own crates, and those, the
\* plugin's at its new version.
Merged(h, lock, version) ==
    {s \in lock : s.name \in PluginOnly}
        \union {[s EXCEPT !.version = version] : s \in Locked(lock, Plugin)}
        \union {s \in h.lock : s.name \notin Own \union {Root}}

\* Cargo: where a dependency on the codec leads in the plugin's workspace.
Redirects(p, d) == {q \in PatchesFor(p, d.package) : Slug[q.key] = Slug[d.source.url]}
Redirected(p, d) == IF Redirects(p, d) = {} THEN d.source ELSE (CHOOSE q \in Redirects(p, d) : TRUE).source

\* Cargo: the plugin and ocs_plugin_api each bring the codec, one build when both name it alike.
CodecStanzas(h, p) ==
    {[name |-> d.package, version |-> Version[Redirected(p, d).rev.commit], source |-> Redirected(p, d)] :
        d \in {p.codec, Decl(h)}}

\* Cargo: a build without --locked drops what is not used, and adds the codec, what other
\* dependencies bring, and a version of a crate that the plugin or a crate of the host asks for.
Resolutions(h, b, p) ==
    {{s \in p.lock : s.name \notin Codecs \union dropped} \union CodecStanzas(h, p) \union p.strays \union added :
        dropped \in SUBSET (Shared \union PluginOnly),
        added \in {{}} \union {{s} : s \in {t \in b.lock \union h.lock : t.name \in Shared \union PluginOnly}}}

----------------------------------------------------------------------------
(* What the gates ask of the result. *)

\* Slip: a crate of which the host has two versions is not compared.
LockstepForSingles(h, lock) ==
    \A s \in lock : s.name \notin Own =>
        \/ VersionsIn(h.lock, s.name) = {}
        \/ \E u, v \in VersionsIn(h.lock, s.name) : u # v
        \/ s.version \in VersionsIn(h.lock, s.name)

\* verify_lockstep: what the host has too is at a version the host has.
Lockstep(h, lock) ==
    \A s \in lock : s.name \notin Own =>
        VersionsIn(h.lock, s.name) = {} \/ s.version \in VersionsIn(h.lock, s.name)

\* gate_source: the codec spelled as ocs_plugin_api does, the patch as the host does.
SourceExit(h, p) ==
    IF p.codec.moving THEN Escalate
    ELSE IF p.codec.source # Decl(h).source \/ p.codec.package # Decl(h).package THEN Escalate
    ELSE IF PatchExit(p, p.codec.package) # 0 THEN PatchExit(p, p.codec.package)
    ELSE IF PatchesFor(p, p.codec.package) # HostPatches(h) THEN Escalate ELSE 0

\* gate_abi: the repositories that hold the codec, and the stanzas that come from them.
CodecSlugs(p) ==
    {Slug[p.codec.source.url]}
        \union {Slug[s.source.url] : s \in {t \in Locked(p.lock, p.codec.package) : IsGit(t)}}
        \union {Slug[q.key] : q \in PatchesFor(p, p.codec.package)}
        \union {Slug[q.source.url] : q \in PatchesFor(p, p.codec.package)}
FromCodecRepo(p) == {s \in p.lock : IsGit(s) /\ Slug[s.source.url] \in CodecSlugs(p)}
StrayGit(h, p) ==
    {s \in p.lock : IsGit(s) /\ s \notin FromCodecRepo(p) /\ s.name # Api /\ Locked(h.lock, s.name) = {}}

\* The last test of gate_abi, on any stanza of the codec that may come first in the file.
AtHostCommit(h, p) == \E s \in FromCodecRepo(p) : s.source.rev.commit = HostCodec(h).source.rev.commit

\* Slip: the codec's own stanzas are not counted.
AbiExitUncounted(h, p) ==
    IF Locked(p.lock, p.codec.package) = {} THEN Unparseable
    ELSE IF StrayGit(h, p) # {} THEN Escalate
    ELSE IF \E s, t \in FromCodecRepo(p) : s.name # t.name THEN Escalate
    ELSE IF AtHostCommit(h, p) THEN 0 ELSE Escalate

AbiExit(h, p) ==
    IF PatchExit(p, p.codec.package) # 0 THEN PatchExit(p, p.codec.package)
    ELSE IF GitExit(p.lock, p.codec.package) # 0 THEN GitExit(p.lock, p.codec.package)
    ELSE IF StrayGit(h, p) # {} THEN Escalate
    ELSE IF \E s, t \in FromCodecRepo(p) : s.name # t.name THEN Escalate
    ELSE IF AtHostCommit(h, p) THEN 0 ELSE Escalate

----------------------------------------------------------------------------
(* The job "repin". *)

Stop(code) == stage' = "refused" /\ failed' = stage /\ exit' = code /\ UNCHANGED ours
GoOn(to) == stage' = to /\ UNCHANGED <<failed, exit>>

\* A step that only asks: the job goes on or stops with the exit code.
Ask(to, code) ==
    /\ \/ code = 0 /\ GoOn(to) /\ UNCHANGED ours
       \/ code # 0 /\ Stop(code)
    /\ UNCHANGED <<host, before, verdict>>

\* A step that writes, unless it does not find its place in the file.
Write(to, found, p) ==
    /\ \/ found /\ ours' = p /\ GoOn(to)
       \/ ~found /\ Stop(Unparseable)
    /\ UNCHANGED <<host, before, verdict>>

Plan       == stage = "plan" /\ Ask("series", PlanExit(host))
GateSeries == stage = "series" /\ Ask("api", SeriesExit(host, ours))
GateApi    == stage = "api" /\ Ask("rewrite", ApiExit(host, ours))
Rewrite    == stage = "rewrite" /\ Write("merge", ours.regular, Rewritten(host, ours))

MergeLock ==
    /\ stage = "merge"
    /\ Write("resolve", "root name" \in host.legible /\ Locked(ours.lock, Plugin) # {},
             [ours EXCEPT !.lock = Merged(host, ours.lock, ours.version)])

Resolve ==
    /\ stage = "resolve"
    /\ \/ \E lock \in Resolutions(host, before, ours) : ours' = [ours EXCEPT !.lock = lock] /\ GoOn("lockstep")
       \/ Stop(BuildFailed)
    /\ UNCHANGED <<host, before, verdict>>

GateLockstep == stage = "lockstep" /\ Ask("source", IF Lockstep(host, ours.lock) THEN 0 ELSE Escalate)
GateSource   == stage = "source" /\ Ask("abi", SourceExit(host, ours))
GateAbi      == stage = "abi" /\ Ask("accepted", AbiExit(host, ours))

----------------------------------------------------------------------------
(* The job "escalate": the three read-only gates again, on a checkout of its own. *)

Rerun(h, b) == IF PlanExit(h) # 0 THEN {PlanExit(h)} ELSE {SeriesExit(h, b), ApiExit(h, b)}

\* Slip: a decision wins over a gap of the parser.
DecisionFirst(codes) ==
    IF Escalate \in codes THEN "decision" ELSE IF Unparseable \in codes THEN "parser" ELSE "downstream"

Classified(codes) ==
    IF Unparseable \in codes THEN "parser" ELSE IF Escalate \in codes THEN "decision" ELSE "downstream"

\* It fetches the host's manifests anew; when it cannot, it says that no tag was found.
Report ==
    /\ stage = "refused"
    /\ verdict' \in {"detect", Classified(Rerun(host, before))} /\ stage' = "reported"
    /\ UNCHANGED <<host, before, ours, failed, exit>>

Next ==
    \/ Plan \/ GateSeries \/ GateApi \/ Rewrite \/ MergeLock \/ Resolve
    \/ GateLockstep \/ GateSource \/ GateAbi \/ Report

Spec == Init /\ [][Next]_vars

----------------------------------------------------------------------------
(* Properties. *)

\* A host whose lockfile follows from its manifests, and which takes one crate, the codec, from the
\* codec's repositories.
HostInOrder(h) ==
    /\ PlanExit(h) = 0 /\ h.legible = {"toml", "api window", "root name"}
    /\ HostCodec(h).source \in Explained(h)
    /\ HostCodec(h).version = Version[HostCodec(h).source.rev.commit]
    /\ \A s \in h.lock : IsGit(s) => s.name = Decl(h).package

\* A plugin that can be rewritten for the host, with no git crate but the codec and no patch of its own.
PluginInOrder(h, p) ==
    /\ ~p.codec.moving /\ p.regular /\ p.legible /\ p.patches = p.mirrored /\ p.strays = {}
    /\ LockedExit(p.lock, p.codec.package) = 0 /\ Locked(p.lock, Plugin) # {}
    /\ \A s \in p.lock : IsGit(s) => s.name \in Codecs
    /\ h.min <= p.api /\ p.api <= h.max

\* What gate_abi lets through holds one build of the codec: all that comes from its repositories
\* is a single stanza, at the commit the host is built against and in the host's version; and when
\* the host's lockfile follows from its manifests, it is the very stanza the host has, so that the
\* entity types the plugin and the host exchange are the same.
OneCodec ==
    stage = "accepted" =>
        \E s \in ours.lock :
            /\ FromCodecRepo(ours) = {s} /\ s.name = Decl(host).package
            /\ s.source.rev.commit = HostCodec(host).source.rev.commit /\ s.version = HostCodec(host).version
            /\ HostInOrder(host) => s = HostCodec(host)

\* What passes is at a version the host has wherever the host has the crate, the plugin's own
\* crates excepted (verify_lockstep), and brings no git crate the host does not know (gate_abi).
InStepWithHost ==
    stage = "accepted" =>
        /\ \A s \in ours.lock : s.name \in Shared \union Codecs =>
              VersionsIn(host.lock, s.name) = {} \/ s.version \in VersionsIn(host.lock, s.name)
        /\ \A s \in ours.lock : IsGit(s) => s.name \in {Api, Decl(host).package} \/ Locked(host.lock, s.name) # {}

\* No gate refuses a re-pin between a host and a plugin in order but for a moved series, or for a
\* version of a shared crate that cargo added: rewrite, merge_lock and the build produce what
\* verify_lockstep, gate_source and gate_abi ask for.
NoFalseAlarm ==
    stage = "refused" /\ exit # BuildFailed /\ HostInOrder(host) /\ PluginInOrder(host, before) =>
        \/ failed = "series" /\ \E s \in Locked(before.lock, before.codec.package) :
                                  Series(s.version) # Series(HostCodec(host).version)
        \/ failed = "lockstep" /\ \E s \in ours.lock :
                                    s.name \in Shared /\ s.version \notin VersionsIn(host.lock, s.name)

\* A job that stops at one of the gates the escalation runs again is never reported as a failure
\* further down, and as a decision only when it ended with the exit code of one; where one gate asks
\* for a decision and another cannot read its file, that is a gap of the parser (repin.yml 485-490).
\* When the manifests cannot be fetched again, no reason is named at all.
EarlyStopNamed ==
    stage = "reported" /\ failed \in {"plan", "series", "api"} =>
        verdict \in {"parser", "detect"} \/ (verdict = "decision" /\ exit = Escalate)

\* "A parser gap wins over a decision: an unreadable manifest is always a bug in this repository,
\* whatever else also failed" (repin.yml 485-486).
UnreadableIsParser ==
    stage = "reported" /\ "toml" \notin host.legible => verdict # "decision"

\* A re-pin that passed is settled: against the same host the plugin would pass every gate again,
\* the three that were asked before anything was written included; rewrite() would find nothing to
\* change but the version, and the lockfile has the plugin at the version of its manifest, as the
\* builds with --locked ask.  What the job commits is what its own checks describe.
PassedIsSettled ==
    stage = "accepted" =>
        /\ [Rewritten(host, ours) EXCEPT !.version = ours.version] = ours
        /\ VersionsIn(ours.lock, Plugin) = {ours.version} /\ Lockstep(host, ours.lock)
        /\ Rerun(host, ours) = {0} /\ SourceExit(host, ours) = 0 /\ AbiExit(host, ours) = 0
=============================================================================
