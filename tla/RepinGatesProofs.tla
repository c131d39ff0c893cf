-------------------------- MODULE RepinGatesProofs --------------------------
(***************************************************************************)
(* What a re-pin that the gates let through looks like, and when they      *)
(* refuse one, for every set of hosts and plugins.  The argument follows   *)
(* the job: GatesInv says what each step may rely on because of the steps  *)
(* before it.                                                              *)
(***************************************************************************)
EXTENDS RepinGates, TLAPS

AfterPlan    == {"series", "api", "rewrite", "merge", "resolve", "lockstep", "source", "abi", "accepted"}
AfterRewrite == {"merge", "resolve", "lockstep", "source", "abi", "accepted"}
AfterResolve == {"lockstep", "source", "abi", "accepted"}
Early        == {"plan", "series", "api"}
Ended        == {"refused", "reported"}

\* The working tree is the checkout until the rewrite, and then the checkout rewritten for the host.
TreeInv ==
    /\ stage \in AfterPlan => PlanExit(host) = 0
    /\ stage \in Early \union {"rewrite"} \/ (stage \in Ended /\ failed \in Early) => ours = before
    /\ stage \in AfterRewrite =>
          /\ ours.codec = Decl(host) /\ ours.mirrored = HostPatches(host) /\ ours.strays = before.strays
          /\ ours.patches = (before.patches \ before.mirrored) \union HostPatches(host)
          /\ ours.version = before.version + 1

\* The lockfile merge_lock makes of the checkout's.
MergedLock == Merged(host, before.lock, ours.version)

\* What the lockfile is made of.
LockInv ==
    /\ stage = "merge" => ours.lock = before.lock
    /\ stage = "resolve" => ours.lock = MergedLock
    /\ stage \in {"resolve"} \union AfterResolve => VersionsIn(ours.lock, Plugin) = {ours.version}
    /\ stage \in AfterResolve =>
          /\ CodecStanzas(host, ours) \subseteq ours.lock
          /\ \A s \in ours.lock : \/ s \in CodecStanzas(host, ours) \union ours.strays
                                  \/ s \in MergedLock /\ s.name \notin Codecs
                                  \/ s \in before.lock \union host.lock /\ s.name \in Shared \union PluginOnly

\* What the gates have asked for.
PassedInv ==
    /\ stage \in {"source", "abi", "accepted"} => Lockstep(host, ours.lock)
    /\ stage \in {"abi", "accepted"} => SourceExit(host, ours) = 0
    /\ stage = "accepted" => AbiExit(host, ours) = 0

\* How the job ended, and what is said of it.
EndInv ==
    /\ stage \in Ended =>
          /\ failed = "plan" => exit = PlanExit(host) /\ exit # 0
          /\ failed = "series" => PlanExit(host) = 0 /\ exit = SeriesExit(host, before) /\ exit # 0
          /\ failed = "api" => PlanExit(host) = 0 /\ exit = ApiExit(host, before) /\ exit # 0
    /\ stage = "reported" => verdict \in {"detect", Classified(Rerun(host, before))}

GatesInv == TypeOK /\ TreeInv /\ LockInv /\ PassedInv /\ EndInv

----------------------------------------------------------------------------
(* What the operators return. *)

LEMMA CodesInSet ==
    ASSUME NEW h, NEW p, NEW lock, NEW n
    PROVE  /\ LockedExit(lock, n) \in {0, Escalate, Unparseable} /\ GitExit(lock, n) \in {0, Escalate, Unparseable}
           /\ PatchExit(p, n) \in {0, Escalate} /\ DeclExit(h) \in {0, Escalate, Unparseable}
           /\ PlanExit(h) \in {0, Escalate, Unparseable} /\ SeriesExit(h, p) \in {0, Escalate, Unparseable}
           /\ ApiExit(h, p) \in {0, Escalate, Unparseable} /\ SourceExit(h, p) \in {0, Escalate}
           /\ AbiExit(h, p) \in {0, Escalate, Unparseable}
<1>1. LockedExit(lock, n) \in {0, Escalate, Unparseable}  BY DEF LockedExit
<1>2. GitExit(lock, n) \in {0, Escalate, Unparseable}  BY <1>1 DEF GitExit
<1>3. PatchExit(p, n) \in {0, Escalate}  BY DEF PatchExit
<1>4. DeclExit(h) \in {0, Escalate, Unparseable}  BY DEF DeclExit
<1>5. PlanExit(h) \in {0, Escalate, Unparseable}
  <2>1. GitExit(h.lock, Decl(h).package) \in {0, Escalate, Unparseable}  BY DEF GitExit, LockedExit
  <2>2. PatchExit(h, Decl(h).package) \in {0, Escalate}  BY DEF PatchExit
  <2> QED BY <1>4, <2>1, <2>2 DEF PlanExit, Uncaught, Escalate
<1>6. SeriesExit(h, p) \in {0, Escalate, Unparseable}
  <2>1. LockedExit(p.lock, p.codec.package) \in {0, Escalate, Unparseable}  BY DEF LockedExit
  <2> QED BY <2>1 DEF SeriesExit
<1>7. ApiExit(h, p) \in {0, Escalate, Unparseable}  BY DEF ApiExit, Uncaught, Escalate
<1>8. PatchExit(p, p.codec.package) \in {0, Escalate}  BY DEF PatchExit
<1>9. SourceExit(h, p) \in {0, Escalate}  BY <1>8 DEF SourceExit
<1>10. AbiExit(h, p) \in {0, Escalate, Unparseable}
  <2>1. GitExit(p.lock, p.codec.package) \in {0, Escalate, Unparseable}  BY DEF GitExit, LockedExit
  <2> QED BY <1>8, <2>1 DEF AbiExit
<1> QED BY <1>1, <1>2, <1>3, <1>4, <1>5, <1>6, <1>7, <1>9, <1>10

\* A lookup without complaint finds one stanza, and git_source one from git.
LEMMA SingleStanza ==
    ASSUME NEW lock, NEW n, LockedExit(lock, n) = 0
    PROVE  \E s \in lock : s.name = n /\ Locked(lock, n) = {s}
<1>1. Locked(lock, n) # {} /\ \A s, t \in Locked(lock, n) : s = t  BY DEF LockedExit, Escalate, Unparseable
<1> QED BY <1>1 DEF Locked

LEMMA SingleGitStanza ==
    ASSUME NEW lock, NEW n, GitExit(lock, n) = 0
    PROVE  \E s \in lock : s.name = n /\ Locked(lock, n) = {s} /\ IsGit(s)
<1>1. LockedExit(lock, n) = 0  BY DEF GitExit
<1>2. \A s \in Locked(lock, n) : IsGit(s)  BY <1>1 DEF GitExit, Unparseable
<1> QED BY <1>1, <1>2, SingleStanza

LEMMA SinglePatch ==
    ASSUME NEW m, NEW n, PatchExit(m, n) = 0
    PROVE  \A q, r \in PatchesFor(m, n) : q = r /\ q.pinned
BY DEF PatchExit, Escalate

\* What a host that host_plan accepts looks like.
LEMMA PlanFacts ==
    ASSUME NEW h \in Hosts, PlanExit(h) = 0
    PROVE  /\ Decl(h) \in h.decls /\ Decl(h) \in Decls /\ ~Decl(h).moving
           /\ HostCodec(h) \in h.lock /\ HostCodec(h) \in Stanzas /\ HostCodec(h).name = Decl(h).package
           /\ Locked(h.lock, Decl(h).package) = {HostCodec(h)} /\ IsGit(HostCodec(h))
           /\ \A q, r \in HostPatches(h) : q = r /\ q.pinned
           /\ \A q \in HostPatches(h) : Slug[q.key] = Slug[Decl(h).source.url] /\ q.package = Decl(h).package
           /\ \A s \in Explained(h) : SameBuild(s, HostCodec(h).source)
           /\ HostPatches(h) \subseteq Patches
<1>1. DeclExit(h) = 0 /\ GitExit(h.lock, Decl(h).package) = 0 /\ PatchExit(h, Decl(h).package) = 0
  BY DEF PlanExit, Uncaught
<1>2. /\ \A q \in HostPatches(h) : Slug[q.key] = Slug[Decl(h).source.url]
      /\ \A s \in Explained(h) : SameBuild(s, HostCodec(h).source)
  BY <1>1 DEF PlanExit, Escalate, Unparseable, Uncaught
<1>3. h.decls \subseteq Decls /\ h.patches \subseteq Patches /\ h.lock \subseteq Stanzas  BY DEF Hosts
<1>4. Decl(h) \in h.decls /\ ~Decl(h).moving
  <2>1. \A d \in h.decls : ~d.moving  BY <1>1 DEF DeclExit, Escalate
  <2>2. \E d \in h.decls : h.decls = {d}  BY <1>1, <2>1 DEF DeclExit, Unparseable
  <2>3. Decl(h) \in h.decls  BY <2>2 DEF Decl
  <2> QED BY <2>1, <2>3
<1>5. PICK s \in h.lock : s.name = Decl(h).package /\ Locked(h.lock, Decl(h).package) = {s} /\ IsGit(s)
  BY <1>1, SingleGitStanza
<1>6. HostCodec(h) = s  BY <1>5 DEF HostCodec
<1>7. \A q, r \in HostPatches(h) : q = r /\ q.pinned  BY <1>1, SinglePatch DEF HostPatches
<1>8. HostPatches(h) \subseteq Patches /\ \A q \in HostPatches(h) : q.package = Decl(h).package
  BY <1>3 DEF HostPatches, PatchesFor
<1> QED BY <1>2, <1>3, <1>4, <1>5, <1>6, <1>7, <1>8

LEMMA RedirectedType ==
    ASSUME NEW p \in Plugins, NEW d \in Decls
    PROVE  Redirected(p, d) \in GitSources
<1>1. \A q \in Redirects(p, d) : q.source \in GitSources  BY DEF Redirects, PatchesFor, Plugins, Patches
<1>2. d.source \in GitSources  BY DEF Decls
<1> QED BY <1>1, <1>2 DEF Redirected

LEMMA CodecStanzasType ==
    ASSUME NEW h \in Hosts, PlanExit(h) = 0, NEW p \in Plugins
    PROVE  CodecStanzas(h, p) \subseteq {s \in Stanzas : s.name \in Codecs /\ IsGit(s)}
<1>1. p.codec \in Decls /\ Decl(h) \in Decls  BY PlanFacts DEF Plugins
<1>2. ASSUME NEW d \in Decls
      PROVE  LET s == [name |-> d.package, version |-> Version[Redirected(p, d).rev.commit],
                       source |-> Redirected(p, d)]
             IN  s \in Stanzas /\ s.name \in Codecs /\ IsGit(s)
  <2>1. d.package \in Codecs /\ Redirected(p, d) \in GitSources  BY RedirectedType DEF Decls
  <2>2. Redirected(p, d).rev.commit \in Commits /\ Redirected(p, d) \in Sources /\ Redirected(p, d).url \in Urls
    BY <2>1 DEF GitSources, Sources, Revs
  <2>3. Version[Redirected(p, d).rev.commit] \in Nat  BY <2>2, ShapesAssumption
  <2> QED BY <2>1, <2>2, <2>3, ShapesAssumption DEF Stanzas, IsGit
<1> QED BY <1>1, <1>2 DEF CodecStanzas

LEMMA RewrittenType ==
    ASSUME NEW h \in Hosts, PlanExit(h) = 0, NEW p \in Plugins
    PROVE  Rewritten(h, p) \in Plugins
<1>1. Decl(h) \in Decls /\ HostPatches(h) \subseteq {q \in Patches : q.pinned}  BY PlanFacts
<1>2. p.patches \subseteq Patches /\ p.version \in Nat  BY DEF Plugins
<1>3. (p.patches \ p.mirrored) \union HostPatches(h) \subseteq Patches /\ p.version + 1 \in Nat  BY <1>1, <1>2
<1> QED BY <1>1, <1>3 DEF Rewritten, Plugins

LEMMA LockType ==
    ASSUME NEW p \in Plugins, NEW lock \in SUBSET Stanzas
    PROVE  [p EXCEPT !.lock = lock] \in Plugins
BY DEF Plugins

LEMMA MergedType ==
    ASSUME NEW h \in Hosts, NEW lock \in SUBSET Stanzas, NEW version \in Nat
    PROVE  Merged(h, lock, version) \in SUBSET Stanzas
<1>1. \A s \in Stanzas : [s EXCEPT !.version = version] \in Stanzas  BY DEF Stanzas
<1> QED BY <1>1 DEF Merged, Hosts, Locked

\* merge_lock leaves the plugin itself at the new version only.
LEMMA MergedPlugin ==
    ASSUME NEW h \in Hosts, NEW lock \in SUBSET Stanzas, NEW version \in Nat, Locked(lock, Plugin) # {}
    PROVE  VersionsIn(Merged(h, lock, version), Plugin) = {version}
<1>1. \A s \in Stanzas : [s EXCEPT !.version = version].name = s.name /\ [s EXCEPT !.version = version].version = version
  BY DEF Stanzas
<1>2. Plugin \notin PluginOnly /\ Plugin \in Own  BY ShapesAssumption DEF Own
<1>3. Locked(Merged(h, lock, version), Plugin) = {[s EXCEPT !.version = version] : s \in Locked(lock, Plugin)}
  BY <1>1, <1>2 DEF Merged, Locked
<1>4. \A s \in Locked(lock, Plugin) : [s EXCEPT !.version = version].version = version
  BY <1>1 DEF Locked
<1> QED BY <1>3, <1>4 DEF VersionsIn

\* What cargo makes of a lockfile.
LEMMA ResolutionShape ==
    ASSUME NEW h \in Hosts, PlanExit(h) = 0, NEW b \in Plugins, NEW p \in Plugins,
           NEW lock \in Resolutions(h, b, p)
    PROVE  /\ lock \in SUBSET Stanzas
           /\ CodecStanzas(h, p) \subseteq lock
           /\ \A s \in lock : \/ s \in CodecStanzas(h, p) \union p.strays
                              \/ s \in p.lock /\ s.name \notin Codecs
                              \/ s \in b.lock \union h.lock /\ s.name \in Shared \union PluginOnly
           /\ Locked(lock, Plugin) = Locked(p.lock, Plugin)
<1>1. PICK dropped \in SUBSET (Shared \union PluginOnly),
           added \in {{}} \union {{s} : s \in {t \in b.lock \union h.lock : t.name \in Shared \union PluginOnly}} :
        lock = {s \in p.lock : s.name \notin Codecs \union dropped} \union CodecStanzas(h, p) \union p.strays \union added
  BY DEF Resolutions
<1>2. \A s \in added : s \in b.lock \union h.lock /\ s.name \in Shared \union PluginOnly  BY <1>1
<1>3. CodecStanzas(h, p) \subseteq Stanzas /\ \A s \in CodecStanzas(h, p) : s.name \in Codecs
  BY CodecStanzasType
<1>4. p.lock \subseteq Stanzas /\ b.lock \subseteq Stanzas /\ h.lock \subseteq Stanzas /\ p.strays \subseteq Stanzas
      /\ \A s \in p.strays : s.name \in Codecs \union {Stray}
  BY DEF Plugins, Hosts
<1>5. Locked(lock, Plugin) = Locked(p.lock, Plugin)
  <2>1. Plugin \notin Codecs /\ Plugin \notin Shared \union PluginOnly /\ Plugin # Stray
    BY ShapesAssumption DEF Own, Plugin, Stray
  <2> QED BY <1>1, <1>2, <1>3, <1>4, <2>1 DEF Locked
<1> QED BY <1>1, <1>2, <1>3, <1>4, <1>5

----------------------------------------------------------------------------
(* The invariant. *)

LEMMA InitGates == Init => GatesInv
BY ShapesAssumption DEF Init, GatesInv, TypeOK, TreeInv, LockInv, PassedInv, EndInv, Stages, Steps,
   AfterPlan, AfterRewrite, AfterResolve, Early, Ended

\* A step that only asks leaves everything but the stage, the failed step and the exit code.
LEMMA AskKeeps ==
    ASSUME GatesInv, NEW to \in Stages \ Ended, NEW code \in {0, Escalate, Unparseable}, stage \in Steps,
           Ask(to, code)
    PROVE  /\ TypeOK'
           /\ UNCHANGED <<host, before, ours, verdict>>
           /\ \/ code = 0 /\ stage' = to /\ failed' = failed /\ exit' = exit
              \/ code # 0 /\ stage' = "refused" /\ failed' = stage /\ exit' = code
BY DEF Ask, Stop, GoOn, GatesInv, TypeOK, Stages, Steps, Ended

LEMMA NextGates == GatesInv /\ [Next]_vars => GatesInv'
<1> SUFFICES ASSUME GatesInv, [Next]_vars PROVE GatesInv'
  OBVIOUS
<1> USE DEF AfterPlan, AfterRewrite, AfterResolve, Early, Ended
<1>0. host \in Hosts /\ before \in Plugins /\ ours \in Plugins  BY DEF GatesInv, TypeOK
<1>1. CASE Plan
  <2>1. PlanExit(host) \in {0, Escalate, Unparseable}  BY CodesInSet
  <2>2. TypeOK' /\ UNCHANGED <<host, before, ours, verdict>>
        /\ \/ PlanExit(host) = 0 /\ stage' = "series" /\ failed' = failed /\ exit' = exit
           \/ PlanExit(host) # 0 /\ stage' = "refused" /\ failed' = stage /\ exit' = PlanExit(host)
    BY <1>1, <2>1, AskKeeps DEF Plan, Stages, Steps
  <2>3. TreeInv' /\ LockInv' /\ PassedInv' /\ EndInv'
    BY <1>1, <2>2 DEF Plan, GatesInv, TreeInv, LockInv, MergedLock, PassedInv, EndInv
  <2> QED BY <2>2, <2>3 DEF GatesInv
<1>2. CASE GateSeries
  <2>1. SeriesExit(host, ours) \in {0, Escalate, Unparseable}  BY CodesInSet
  <2>2. TypeOK' /\ UNCHANGED <<host, before, ours, verdict>>
        /\ \/ SeriesExit(host, ours) = 0 /\ stage' = "api" /\ failed' = failed /\ exit' = exit
           \/ SeriesExit(host, ours) # 0 /\ stage' = "refused" /\ failed' = stage /\ exit' = SeriesExit(host, ours)
    BY <1>2, <2>1, AskKeeps DEF GateSeries, Stages, Steps
  <2>3. TreeInv' /\ LockInv' /\ PassedInv' /\ EndInv'
    BY <1>2, <2>2 DEF GateSeries, GatesInv, TreeInv, LockInv, MergedLock, PassedInv, EndInv
  <2> QED BY <2>2, <2>3 DEF GatesInv
<1>3. CASE GateApi
  <2>1. ApiExit(host, ours) \in {0, Escalate, Unparseable}  BY CodesInSet
  <2>2. TypeOK' /\ UNCHANGED <<host, before, ours, verdict>>
        /\ \/ ApiExit(host, ours) = 0 /\ stage' = "rewrite" /\ failed' = failed /\ exit' = exit
           \/ ApiExit(host, ours) # 0 /\ stage' = "refused" /\ failed' = stage /\ exit' = ApiExit(host, ours)
    BY <1>3, <2>1, AskKeeps DEF GateApi, Stages, Steps
  <2>3. TreeInv' /\ LockInv' /\ PassedInv' /\ EndInv'
    BY <1>3, <2>2 DEF GateApi, GatesInv, TreeInv, LockInv, MergedLock, PassedInv, EndInv
  <2> QED BY <2>2, <2>3 DEF GatesInv
<1>4. CASE Rewrite
  <2> USE DEF Rewrite, Write
  <2>1. stage = "rewrite" /\ UNCHANGED <<host, before, verdict>>  BY <1>4
  <2>2. PlanExit(host) = 0 /\ ours = before  BY <2>1 DEF GatesInv, TreeInv
  <2>3. CASE ours.regular /\ ours' = Rewritten(host, ours) /\ GoOn("merge")
    <3>1. stage' = "merge" /\ failed' = failed /\ exit' = exit  BY <2>3 DEF GoOn
    <3>2. Rewritten(host, ours) \in Plugins  BY <1>0, <2>2, RewrittenType
    <3>3. /\ ours'.codec = Decl(host) /\ ours'.mirrored = HostPatches(host) /\ ours'.strays = before.strays
          /\ ours'.patches = (before.patches \ before.mirrored) \union HostPatches(host)
          /\ ours'.lock = before.lock /\ ours'.version = before.version + 1
      BY <1>0, <2>2, <2>3 DEF Rewritten, Plugins
    <3>4. TypeOK'  BY <2>1, <2>3, <3>1, <3>2 DEF GatesInv, TypeOK, Stages, Steps
    <3>5. TreeInv' /\ LockInv' /\ PassedInv' /\ EndInv'
      BY <2>1, <2>2, <3>1, <3>3 DEF TreeInv, LockInv, MergedLock, PassedInv, EndInv
    <3> QED BY <3>4, <3>5 DEF GatesInv
  <2>4. CASE ~ours.regular /\ Stop(Unparseable)
    <3>1. stage' = "refused" /\ failed' = "rewrite" /\ exit' = Unparseable /\ ours' = ours  BY <2>1, <2>4 DEF Stop
    <3>2. TypeOK'  BY <2>1, <3>1 DEF GatesInv, TypeOK, Stages, Steps
    <3>3. TreeInv' /\ LockInv' /\ PassedInv' /\ EndInv'
      BY <2>1, <3>1 DEF TreeInv, LockInv, MergedLock, PassedInv, EndInv, GatesInv
    <3> QED BY <3>2, <3>3 DEF GatesInv
  <2> QED BY <1>4, <2>3, <2>4
<1>5. CASE MergeLock
  <2> USE DEF MergeLock, Write
  <2>1. stage = "merge" /\ UNCHANGED <<host, before, verdict>>  BY <1>5
  <2>2. PlanExit(host) = 0 /\ ours.lock = before.lock  BY <2>1 DEF GatesInv, TreeInv, LockInv
  <2>3. CASE /\ Locked(ours.lock, Plugin) # {} /\ GoOn("resolve")
             /\ ours' = [ours EXCEPT !.lock = Merged(host, ours.lock, ours.version)]
    <3>1. stage' = "resolve" /\ failed' = failed /\ exit' = exit  BY <2>3 DEF GoOn
    <3>2. before.lock \in SUBSET Stanzas /\ ours.version \in Nat  BY <1>0 DEF Plugins
    <3>3. MergedLock \in SUBSET Stanzas /\ VersionsIn(MergedLock, Plugin) = {ours.version}
      BY <1>0, <2>2, <2>3, <3>2, MergedType, MergedPlugin DEF MergedLock
    <3>4. ours' = [ours EXCEPT !.lock = MergedLock]  BY <2>2, <2>3 DEF MergedLock
    <3>5. ours' \in Plugins  BY <1>0, <3>3, <3>4, LockType
    <3>6. /\ ours'.codec = ours.codec /\ ours'.mirrored = ours.mirrored /\ ours'.strays = ours.strays
          /\ ours'.patches = ours.patches /\ ours'.version = ours.version /\ ours'.lock = MergedLock
      BY <1>0, <3>4 DEF Plugins
    <3>7. MergedLock' = MergedLock  BY <2>1, <3>6 DEF MergedLock
    <3>8. TypeOK'  BY <2>1, <3>1, <3>5 DEF GatesInv, TypeOK, Stages, Steps
    <3>9. TreeInv' /\ LockInv' /\ PassedInv' /\ EndInv'
      BY <2>1, <2>2, <3>1, <3>3, <3>6, <3>7 DEF GatesInv, TreeInv, LockInv, MergedLock, PassedInv, EndInv
    <3> QED BY <3>8, <3>9 DEF GatesInv
  <2>4. CASE Stop(Unparseable)
    <3>1. stage' = "refused" /\ failed' = "merge" /\ exit' = Unparseable /\ ours' = ours  BY <2>1, <2>4 DEF Stop
    <3>2. TypeOK'  BY <2>1, <3>1 DEF GatesInv, TypeOK, Stages, Steps
    <3>3. TreeInv' /\ LockInv' /\ PassedInv' /\ EndInv'
      BY <2>1, <3>1 DEF TreeInv, LockInv, MergedLock, PassedInv, EndInv, GatesInv
    <3> QED BY <3>2, <3>3 DEF GatesInv
  <2> QED BY <1>5, <2>3, <2>4
<1>6. CASE Resolve
  <2>1. stage = "resolve" /\ UNCHANGED <<host, before, verdict>>  BY <1>6 DEF Resolve
  <2>2. PlanExit(host) = 0 /\ ours.lock = MergedLock /\ VersionsIn(ours.lock, Plugin) = {ours.version}
    BY <2>1 DEF GatesInv, TreeInv, LockInv
  <2>3. ASSUME NEW lock \in Resolutions(host, before, ours), ours' = [ours EXCEPT !.lock = lock], GoOn("lockstep")
        PROVE  GatesInv'
    <3>1. stage' = "lockstep" /\ failed' = failed /\ exit' = exit  BY <2>3 DEF GoOn
    <3>2. /\ lock \in SUBSET Stanzas /\ CodecStanzas(host, ours) \subseteq lock
          /\ \A s \in lock : \/ s \in CodecStanzas(host, ours) \union ours.strays
                             \/ s \in ours.lock /\ s.name \notin Codecs
                             \/ s \in before.lock \union host.lock /\ s.name \in Shared \union PluginOnly
          /\ Locked(lock, Plugin) = Locked(ours.lock, Plugin)
      BY <1>0, <2>2, <2>3, ResolutionShape
    <3>3. ours' \in Plugins  BY <1>0, <2>3, <3>2, LockType
    <3>4. /\ ours'.codec = ours.codec /\ ours'.mirrored = ours.mirrored /\ ours'.strays = ours.strays
          /\ ours'.patches = ours.patches /\ ours'.version = ours.version /\ ours'.lock = lock
      BY <1>0, <2>3 DEF Plugins
    <3>5. CodecStanzas(host, ours') = CodecStanzas(host, ours) /\ MergedLock' = MergedLock
      BY <2>1, <3>4 DEF CodecStanzas, Redirected, Redirects, PatchesFor, MergedLock
    <3>6. TypeOK'  BY <2>1, <3>1, <3>3 DEF GatesInv, TypeOK, Stages, Steps
    <3>7. VersionsIn(ours'.lock, Plugin) = {ours'.version}
      BY <2>2, <3>2, <3>4 DEF VersionsIn
    <3>8. TreeInv' /\ PassedInv' /\ EndInv'
      BY <2>1, <2>2, <3>1, <3>4 DEF GatesInv, TreeInv, PassedInv, EndInv
    <3>9. LockInv'
      BY <2>1, <2>2, <3>1, <3>2, <3>4, <3>5, <3>7 DEF LockInv
    <3> QED BY <3>6, <3>8, <3>9 DEF GatesInv
  <2>4. CASE Stop(BuildFailed)
    <3>1. stage' = "refused" /\ failed' = "resolve" /\ exit' = BuildFailed /\ ours' = ours  BY <2>1, <2>4 DEF Stop
    <3>2. TypeOK'  BY <2>1, <3>1 DEF GatesInv, TypeOK, Stages, Steps
    <3>3. TreeInv' /\ LockInv' /\ PassedInv' /\ EndInv'
      BY <2>1, <3>1 DEF TreeInv, LockInv, MergedLock, PassedInv, EndInv, GatesInv
    <3> QED BY <3>2, <3>3 DEF GatesInv
  <2> QED BY <1>6, <2>3, <2>4 DEF Resolve
<1>7. CASE GateLockstep
  <2> DEFINE code == IF Lockstep(host, ours.lock) THEN 0 ELSE Escalate
  <2>1. code \in {0, Escalate, Unparseable}  OBVIOUS
  <2>2. TypeOK' /\ UNCHANGED <<host, before, ours, verdict>>
        /\ \/ code = 0 /\ stage' = "source" /\ failed' = failed /\ exit' = exit
           \/ code # 0 /\ stage' = "refused" /\ failed' = stage /\ exit' = code
    BY <1>7, <2>1, AskKeeps DEF GateLockstep, Stages, Steps
  <2>3. code = 0 => Lockstep(host, ours.lock)  BY DEF Escalate
  <2> HIDE DEF code
  <2>4. TreeInv' /\ LockInv' /\ PassedInv' /\ EndInv'
    BY <1>7, <2>2, <2>3 DEF GateLockstep, GatesInv, TreeInv, LockInv, MergedLock, PassedInv, EndInv
  <2> QED BY <2>2, <2>4 DEF GatesInv
<1>8. CASE GateSource
  <2>1. SourceExit(host, ours) \in {0, Escalate, Unparseable}  BY CodesInSet
  <2>2. TypeOK' /\ UNCHANGED <<host, before, ours, verdict>>
        /\ \/ SourceExit(host, ours) = 0 /\ stage' = "abi" /\ failed' = failed /\ exit' = exit
           \/ SourceExit(host, ours) # 0 /\ stage' = "refused" /\ failed' = stage /\ exit' = SourceExit(host, ours)
    BY <1>8, <2>1, AskKeeps DEF GateSource, Stages, Steps
  <2>3. TreeInv' /\ LockInv' /\ PassedInv' /\ EndInv'
    BY <1>8, <2>2 DEF GateSource, GatesInv, TreeInv, LockInv, MergedLock, PassedInv, EndInv
  <2> QED BY <2>2, <2>3 DEF GatesInv
<1>9. CASE GateAbi
  <2>1. AbiExit(host, ours) \in {0, Escalate, Unparseable}  BY CodesInSet
  <2>2. TypeOK' /\ UNCHANGED <<host, before, ours, verdict>>
        /\ \/ AbiExit(host, ours) = 0 /\ stage' = "accepted" /\ failed' = failed /\ exit' = exit
           \/ AbiExit(host, ours) # 0 /\ stage' = "refused" /\ failed' = stage /\ exit' = AbiExit(host, ours)
    BY <1>9, <2>1, AskKeeps DEF GateAbi, Stages, Steps
  <2>3. TreeInv' /\ LockInv' /\ PassedInv' /\ EndInv'
    BY <1>9, <2>2 DEF GateAbi, GatesInv, TreeInv, LockInv, MergedLock, PassedInv, EndInv
  <2> QED BY <2>2, <2>3 DEF GatesInv
<1>10. CASE Report
  <2>1. stage = "refused" /\ stage' = "reported" /\ verdict' \in {"detect", Classified(Rerun(host, before))}
        /\ UNCHANGED <<host, before, ours, failed, exit>>
    BY <1>10 DEF Report
  <2>2. TypeOK'  BY <2>1 DEF GatesInv, TypeOK, Stages, Classified
  <2>3. TreeInv' /\ LockInv' /\ PassedInv' /\ EndInv'
    BY <2>1 DEF GatesInv, TreeInv, LockInv, MergedLock, PassedInv, EndInv
  <2> QED BY <2>2, <2>3 DEF GatesInv
<1>11. CASE UNCHANGED vars
  BY <1>11 DEF vars, GatesInv, TypeOK, TreeInv, LockInv, MergedLock, PassedInv, EndInv
<1> QED BY <1>1, <1>2, <1>3, <1>4, <1>5, <1>6, <1>7, <1>8, <1>9, <1>10, <1>11 DEF Next

LEMMA GatesCorrect == Spec => []GatesInv
BY InitGates, NextGates, PTL DEF Spec

\* Every variable of the job keeps its type; in particular what rewrite() mirrors is at a rev.
THEOREM TypeCorrect == Spec => []TypeOK
<1>1. GatesInv => TypeOK  BY DEF GatesInv
<1> QED BY <1>1, GatesCorrect, PTL

\* An early stop is never reported as a failure further down, and as a decision only with the exit
\* code of one.
THEOREM EarlyStopCorrect == Spec => []EarlyStopNamed
<1>1. GatesInv => EarlyStopNamed
  <2> SUFFICES ASSUME GatesInv, stage = "reported", failed \in {"plan", "series", "api"}
               PROVE  verdict \in {"parser", "detect"} \/ (verdict = "decision" /\ exit = Escalate)
    BY DEF EarlyStopNamed
  <2>1. verdict \in {"detect", Classified(Rerun(host, before))}  BY DEF GatesInv, EndInv
  <2>2. exit \in Rerun(host, before) /\ exit # 0  BY DEF GatesInv, EndInv, Ended, Rerun
  <2>3. exit \in {Escalate, Unparseable}
    BY <2>2, CodesInSet DEF Rerun
  <2> QED BY <2>1, <2>2, <2>3 DEF Classified
<1> QED BY <1>1, GatesCorrect, PTL

----------------------------------------------------------------------------
(* One build of the codec. *)

\* With the host's patches, the codec's declaration leads where the host's own does.
LEMMA RedirectedExplained ==
    ASSUME NEW h \in Hosts, PlanExit(h) = 0, NEW p, PatchesFor(p, Decl(h).package) = HostPatches(h)
    PROVE  Redirected(p, Decl(h)) \in Explained(h) /\ \A s, t \in Explained(h) : s = t
<1>1. \A q, r \in HostPatches(h) : q = r  BY PlanFacts
<1>2. Redirects(p, Decl(h)) = HostPatches(h)  BY PlanFacts DEF Redirects
<1>3. Redirected(p, Decl(h)) \in Explained(h)  BY <1>2 DEF Redirected, Explained
<1> QED BY <1>1, <1>3 DEF Explained

\* Two stanzas with the same fields are the same.
LEMMA StanzaEqual ==
    ASSUME NEW s \in Stanzas, NEW t \in Stanzas, s.name = t.name, s.version = t.version, s.source = t.source
    PROVE  s = t
BY DEF Stanzas

LEMMA InvOneCodec == GatesInv => OneCodec
<1> SUFFICES ASSUME GatesInv, stage = "accepted"
             PROVE  \E s \in ours.lock :
                      /\ FromCodecRepo(ours) = {s} /\ s.name = Decl(host).package
                      /\ s.source.rev.commit = HostCodec(host).source.rev.commit
                      /\ s.version = HostCodec(host).version
                      /\ HostInOrder(host) => s = HostCodec(host)
  BY DEF OneCodec
<1> DEFINE pkg == Decl(host).package
<1>1. /\ host \in Hosts /\ ours \in Plugins /\ PlanExit(host) = 0 /\ ours.codec = Decl(host)
      /\ CodecStanzas(host, ours) \subseteq ours.lock /\ Lockstep(host, ours.lock)
      /\ SourceExit(host, ours) = 0 /\ AbiExit(host, ours) = 0
  BY DEF GatesInv, TypeOK, TreeInv, LockInv, PassedInv, AfterPlan, AfterRewrite, AfterResolve
<1>2. PatchesFor(ours, pkg) = HostPatches(host)
  BY <1>1 DEF SourceExit, Escalate
<1>3. GitExit(ours.lock, pkg) = 0 /\ StrayGit(host, ours) = {}
  BY <1>1 DEF AbiExit, Escalate
<1>4. (\A s, t \in FromCodecRepo(ours) : s.name = t.name) /\ AtHostCommit(host, ours)
  BY <1>1, <1>3 DEF AbiExit, Escalate
<1>5. PICK s \in ours.lock : s.name = pkg /\ Locked(ours.lock, pkg) = {s} /\ IsGit(s)
  BY <1>3, SingleGitStanza
<1>6. s \in FromCodecRepo(ours)
  BY <1>1, <1>5 DEF FromCodecRepo, CodecSlugs
<1>7. FromCodecRepo(ours) = {s}
  <2>1. ASSUME NEW t \in FromCodecRepo(ours) PROVE t = s
    BY <1>4, <1>5, <1>6, <2>1 DEF FromCodecRepo, Locked
  <2> QED BY <1>6, <2>1
<1>8. s.source.rev.commit = HostCodec(host).source.rev.commit  BY <1>4, <1>7 DEF AtHostCommit
<1>9. s.version = HostCodec(host).version
  <2>1. Locked(host.lock, pkg) = {HostCodec(host)} /\ pkg \in Codecs  BY <1>1, PlanFacts DEF Decls
  <2>2. VersionsIn(host.lock, pkg) = {HostCodec(host).version}  BY <2>1 DEF VersionsIn
  <2>3. pkg \notin Own  BY <2>1, ShapesAssumption
  <2> QED BY <1>1, <1>5, <2>2, <2>3 DEF Lockstep
<1>10. ASSUME HostInOrder(host) PROVE s = HostCodec(host)
  <2> DEFINE src == Redirected(ours, Decl(host))
             built == [name |-> pkg, version |-> Version[src.rev.commit], source |-> src]
  <2>1. built \in CodecStanzas(host, ours)  BY DEF CodecStanzas
  <2>2. built \in ours.lock /\ built.name = pkg  BY <1>1, <2>1
  <2>3. s = built  BY <1>5, <2>2 DEF Locked
  <2>4. src = HostCodec(host).source
    BY <1>1, <1>2, <1>10, RedirectedExplained DEF HostInOrder
  <2>5. s.source = HostCodec(host).source  BY <2>3, <2>4
  <2>6. s \in Stanzas /\ HostCodec(host) \in Stanzas /\ HostCodec(host).name = pkg
    BY <1>1, PlanFacts DEF Plugins
  <2> QED BY <1>5, <1>9, <2>5, <2>6, StanzaEqual
<1> QED BY <1>5, <1>7, <1>8, <1>9, <1>10

\* What the gates let through holds one build of the codec, the host's.
THEOREM OneCodecCorrect == Spec => []OneCodec
BY GatesCorrect, InvOneCodec, PTL

\* What the gates let through is in step with the host wherever the two share a crate.
THEOREM InStepCorrect == Spec => []InStepWithHost
<1>1. GatesInv => InStepWithHost
  <2> SUFFICES ASSUME GatesInv, stage = "accepted" PROVE InStepWithHost
    BY DEF InStepWithHost
  <2>1. Lockstep(host, ours.lock) /\ AbiExit(host, ours) = 0 /\ OneCodec
    BY InvOneCodec DEF GatesInv, PassedInv
  <2>2. StrayGit(host, ours) = {}  BY <2>1 DEF AbiExit, Escalate
  <2>3. \A s \in FromCodecRepo(ours) : s.name = Decl(host).package  BY <2>1 DEF OneCodec
  <2>4. (Shared \union Codecs) \intersect Own = {}  BY ShapesAssumption
  <2> QED BY <2>1, <2>2, <2>3, <2>4 DEF Lockstep, StrayGit, InStepWithHost
<1> QED BY <1>1, GatesCorrect, PTL

----------------------------------------------------------------------------
(* No gate trips over what the steps before it wrote. *)

InOrder == HostInOrder(host) /\ PluginInOrder(host, before)

\* After the rewrite gate_source has nothing to object to.
LEMMA SourcePasses ==
    ASSUME GatesInv, InOrder, stage \in AfterRewrite
    PROVE  /\ SourceExit(host, ours) = 0
           /\ PatchExit(ours, Decl(host).package) = 0 /\ PatchesFor(ours, Decl(host).package) = HostPatches(host)
<1>1. /\ host \in Hosts /\ PlanExit(host) = 0 /\ ours.codec = Decl(host)
      /\ ours.patches = (before.patches \ before.mirrored) \union HostPatches(host)
      /\ before.patches = before.mirrored
  BY DEF GatesInv, TypeOK, TreeInv, AfterPlan, AfterRewrite, InOrder, PluginInOrder
<1>2. ours.patches = HostPatches(host)  BY <1>1
<1>3. PatchesFor(ours, Decl(host).package) = HostPatches(host)
  BY <1>2 DEF PatchesFor, HostPatches
<1>4. PatchExit(ours, Decl(host).package) = 0
  BY <1>1, <1>3, PlanFacts DEF PatchExit
<1>5. ~Decl(host).moving  BY <1>1, PlanFacts
<1> QED BY <1>1, <1>3, <1>4, <1>5 DEF SourceExit

\* The codec of the resolved lockfile is the host's stanza, and the only crate from git.
LEMMA ResolvedInOrder ==
    ASSUME GatesInv, InOrder, stage \in AfterResolve
    PROVE  /\ HostCodec(host) \in ours.lock
           /\ \A s \in ours.lock : \/ s = HostCodec(host)
                                   \/ s \in MergedLock /\ s.name \notin Codecs
                                   \/ s \in before.lock \union host.lock /\ s.name \in Shared \union PluginOnly
           /\ \A s \in ours.lock : IsGit(s) => s = HostCodec(host)
<1>1. /\ host \in Hosts /\ ours \in Plugins /\ before \in Plugins /\ PlanExit(host) = 0
      /\ ours.codec = Decl(host) /\ ours.strays = {}
      /\ CodecStanzas(host, ours) \subseteq ours.lock
      /\ \A s \in ours.lock : \/ s \in CodecStanzas(host, ours) \union ours.strays
                              \/ s \in MergedLock /\ s.name \notin Codecs
                              \/ s \in before.lock \union host.lock /\ s.name \in Shared \union PluginOnly
  BY DEF GatesInv, TypeOK, TreeInv, LockInv, AfterPlan, AfterRewrite, AfterResolve, InOrder, PluginInOrder
<1>2. PatchesFor(ours, Decl(host).package) = HostPatches(host)
  BY SourcePasses DEF AfterRewrite, AfterResolve
<1> DEFINE src == Redirected(ours, Decl(host))
           built == [name |-> Decl(host).package, version |-> Version[src.rev.commit], source |-> src]
<1>3. CodecStanzas(host, ours) = {built}  BY <1>1 DEF CodecStanzas
<1>4. built = HostCodec(host)
  <2>1. src = HostCodec(host).source
    BY <1>1, <1>2, RedirectedExplained DEF InOrder, HostInOrder
  <2>2. built \in Stanzas  BY <1>1, <1>3, CodecStanzasType
  <2>3. HostCodec(host) \in Stanzas /\ HostCodec(host).name = Decl(host).package  BY <1>1, PlanFacts
  <2>4. HostCodec(host).version = Version[HostCodec(host).source.rev.commit]  BY DEF InOrder, HostInOrder
  <2> QED BY <2>1, <2>2, <2>3, <2>4, StanzaEqual
<1>5. \A s \in ours.lock : \/ s = HostCodec(host)
                           \/ s \in MergedLock /\ s.name \notin Codecs
                           \/ s \in before.lock \union host.lock /\ s.name \in Shared \union PluginOnly
  BY <1>1, <1>3, <1>4
<1>6. ASSUME NEW s \in ours.lock, IsGit(s) PROVE s = HostCodec(host)
  <2>1. Decl(host).package \in Codecs  BY <1>1, PlanFacts DEF Decls
  <2>2. (s \in host.lock => s.name \in Codecs) /\ (s \in before.lock => s.name \in Codecs)
    BY <1>6, <2>1 DEF InOrder, HostInOrder, PluginInOrder
  <2>3. (Shared \union Own) \intersect Codecs = {} /\ Plugin \in Own /\ PluginOnly \subseteq Own
    BY ShapesAssumption DEF Own
  <2>4. ASSUME s \in MergedLock, s.name \notin Codecs PROVE FALSE
    <3>1. ASSUME NEW t \in Locked(before.lock, Plugin), s = [t EXCEPT !.version = ours.version] PROVE FALSE
      <4>1. t \in before.lock /\ t.name = Plugin /\ t \in Stanzas  BY <1>1, <3>1 DEF Locked, Plugins
      <4>2. s.source = t.source  BY <3>1, <4>1 DEF Stanzas
      <4>3. IsGit(t)  BY <1>6, <4>2 DEF IsGit
      <4> QED BY <2>3, <4>1, <4>3 DEF InOrder, PluginInOrder
    <3> QED BY <2>2, <2>4, <3>1 DEF MergedLock, Merged
  <2> QED BY <1>5, <2>2, <2>3, <2>4
<1> QED BY <1>1, <1>3, <1>4, <1>5, <1>6

\* Nor has gate_abi.
LEMMA AbiPasses ==
    ASSUME GatesInv, InOrder, stage \in AfterResolve
    PROVE  AbiExit(host, ours) = 0
<1> DEFINE pkg == Decl(host).package
<1>1. host \in Hosts /\ PlanExit(host) = 0 /\ ours.codec = Decl(host)
  BY DEF GatesInv, TypeOK, TreeInv, AfterPlan, AfterRewrite, AfterResolve
<1>2. HostCodec(host).name = pkg /\ pkg \in Codecs /\ IsGit(HostCodec(host))  BY <1>1, PlanFacts DEF Decls
<1>3. Locked(ours.lock, pkg) = {HostCodec(host)}
  <2>1. \A s \in ours.lock : s.name = pkg => s = HostCodec(host)
    BY <1>2, ResolvedInOrder, ShapesAssumption DEF Own
  <2> QED BY <1>2, <2>1, ResolvedInOrder DEF Locked
<1>4. LockedExit(ours.lock, pkg) = 0  BY <1>3 DEF LockedExit
<1>5. GitExit(ours.lock, pkg) = 0  BY <1>2, <1>3, <1>4 DEF GitExit
<1>6. FromCodecRepo(ours) = {HostCodec(host)}
  <2>1. HostCodec(host) \in FromCodecRepo(ours)
    BY <1>1, <1>2, <1>3, ResolvedInOrder DEF FromCodecRepo, CodecSlugs
  <2>2. \A s \in FromCodecRepo(ours) : s = HostCodec(host)  BY ResolvedInOrder DEF FromCodecRepo
  <2> QED BY <2>1, <2>2
<1>7. StrayGit(host, ours) = {}  BY <1>6, ResolvedInOrder DEF StrayGit
<1>8. AtHostCommit(host, ours)  BY <1>6 DEF AtHostCommit
<1>9. PatchExit(ours, pkg) = 0  BY SourcePasses DEF AfterRewrite, AfterResolve
<1>10. \A s, t \in FromCodecRepo(ours) : s.name = t.name  BY <1>6
<1> QED BY <1>1, <1>5, <1>7, <1>8, <1>9, <1>10 DEF AbiExit

\* And verify_lockstep objects to nothing but what cargo added.
LEMMA LockstepPasses ==
    ASSUME GatesInv, InOrder, stage \in AfterResolve, ~Lockstep(host, ours.lock)
    PROVE  \E s \in ours.lock : s.name \in Shared /\ s.version \notin VersionsIn(host.lock, s.name)
<1>1. PICK s \in ours.lock : s.name \notin Own /\ s.version \notin VersionsIn(host.lock, s.name)
  BY DEF Lockstep
<1>2. s \notin host.lock  BY <1>1 DEF VersionsIn, Locked
<1>3. HostCodec(host) \in host.lock
  BY PlanFacts DEF GatesInv, TypeOK, InOrder, HostInOrder
<1>4. Plugin \in Own /\ PluginOnly \subseteq Own  BY DEF Own
<1>5. ASSUME s \in MergedLock PROVE FALSE
  <2>1. ASSUME NEW t \in Locked(before.lock, Plugin), s = [t EXCEPT !.version = ours.version] PROVE FALSE
    <3>1. t \in Stanzas /\ t.name = Plugin  BY <2>1 DEF GatesInv, TypeOK, Plugins, Locked
    <3>2. s.name = Plugin  BY <2>1, <3>1 DEF Stanzas
    <3> QED BY <1>1, <1>4, <3>2
  <2> QED BY <1>1, <1>2, <1>4, <1>5, <2>1 DEF MergedLock, Merged
<1>6. s.name \in Shared
  BY <1>1, <1>2, <1>3, <1>4, <1>5, ResolvedInOrder
<1> QED BY <1>1, <1>6

LEMMA NextNoFalseAlarm == GatesInv /\ [Next]_vars => (NoFalseAlarm => NoFalseAlarm')
<1> SUFFICES ASSUME GatesInv, GatesInv', NoFalseAlarm, [Next]_vars,
                    stage' = "refused", exit' # BuildFailed, InOrder'
             PROVE  \/ failed' = "series" /\ \E s \in Locked(before'.lock, before'.codec.package) :
                                              Series(s.version) # Series(HostCodec(host').version)
                    \/ failed' = "lockstep" /\ \E s \in ours'.lock :
                                                s.name \in Shared /\ s.version \notin VersionsIn(host'.lock, s.name)
  BY NextGates DEF NoFalseAlarm, InOrder
<1>0. InOrder /\ host' = host /\ before' = before
  BY DEF InOrder, Next, vars, Plan, GateSeries, GateApi, Rewrite, MergeLock, Resolve, GateLockstep, GateSource,
         GateAbi, Report, Ask, Write
<1> USE DEF AfterPlan, AfterRewrite, AfterResolve, Early, Ended
<1>1. CASE Plan
  BY <1>0, <1>1 DEF Plan, Ask, Stop, GoOn, InOrder, HostInOrder
<1>2. CASE GateSeries
  <2>1. stage = "series" /\ ours = before /\ SeriesExit(host, ours) # 0 /\ failed' = "series"
    BY <1>2 DEF GateSeries, Ask, Stop, GoOn, GatesInv, TreeInv
  <2>2. \E s \in Locked(before.lock, before.codec.package) : Series(s.version) # Series(HostCodec(host).version)
    BY <1>0, <2>1 DEF SeriesExit, InOrder, PluginInOrder
  <2> QED BY <1>0, <2>1, <2>2
<1>3. CASE GateApi
  <2>1. stage = "api" /\ ours = before /\ ApiExit(host, ours) # 0
    BY <1>3 DEF GateApi, Ask, Stop, GoOn, GatesInv, TreeInv
  <2>2. ApiExit(host, before) = 0  BY <1>0 DEF ApiExit, InOrder, PluginInOrder, HostInOrder
  <2> QED BY <2>1, <2>2
<1>4. CASE Rewrite
  <2>1. stage = "rewrite" /\ ours = before /\ ~ours.regular
    BY <1>4 DEF Rewrite, Write, GoOn, GatesInv, TreeInv
  <2> QED BY <1>0, <2>1 DEF InOrder, PluginInOrder
<1>5. CASE MergeLock
  <2>1. stage = "merge" /\ ours.lock = before.lock
        /\ ~("root name" \in host.legible /\ Locked(ours.lock, Plugin) # {})
    BY <1>5 DEF MergeLock, Write, GoOn, GatesInv, LockInv
  <2> QED BY <1>0, <2>1 DEF InOrder, PluginInOrder, HostInOrder
<1>6. CASE Resolve
  BY <1>6 DEF Resolve, Stop, GoOn
<1>7. CASE GateLockstep
  <2>1. stage = "lockstep" /\ ~Lockstep(host, ours.lock) /\ failed' = "lockstep" /\ ours' = ours
    BY <1>7 DEF GateLockstep, Ask, Stop, GoOn
  <2> QED BY <1>0, <2>1, LockstepPasses
<1>8. CASE GateSource
  <2>1. stage = "source" /\ SourceExit(host, ours) # 0
    BY <1>8 DEF GateSource, Ask, Stop, GoOn
  <2> QED BY <1>0, <2>1, SourcePasses
<1>9. CASE GateAbi
  <2>1. stage = "abi" /\ AbiExit(host, ours) # 0
    BY <1>9 DEF GateAbi, Ask, Stop, GoOn
  <2> QED BY <1>0, <2>1, AbiPasses
<1>10. CASE Report
  BY <1>10 DEF Report
<1>11. CASE UNCHANGED vars
  BY <1>0, <1>11 DEF vars, NoFalseAlarm, InOrder
<1> QED BY <1>1, <1>2, <1>3, <1>4, <1>5, <1>6, <1>7, <1>8, <1>9, <1>10, <1>11 DEF Next

\* Between a host and a plugin in order only a moved series or cargo's own addition is refused.
THEOREM NoFalseAlarmCorrect == Spec => []NoFalseAlarm
<1>1. Init => NoFalseAlarm  BY DEF Init, NoFalseAlarm
<1>2. GatesInv /\ NoFalseAlarm /\ [Next]_vars => NoFalseAlarm'  BY NextNoFalseAlarm
<1> QED BY <1>1, <1>2, GatesCorrect, PTL DEF Spec

----------------------------------------------------------------------------
(* A re-pin that passed passes again. *)

\* What the early steps asked of the checkout, and what no step writes.
AskedInv ==
    /\ ours.api = before.api /\ ours.regular = before.regular /\ ours.legible = before.legible
    /\ stage \in AfterPlan \ {"series", "api"} => ApiExit(host, before) = 0
    /\ stage \in AfterRewrite => before.regular

LEMMA AskedInit == Init => AskedInv
BY DEF Init, AskedInv, AfterPlan, AfterRewrite

LEMMA AskedStep == GatesInv /\ AskedInv /\ [Next]_vars => AskedInv'
<1> SUFFICES ASSUME GatesInv, AskedInv, [Next]_vars PROVE AskedInv'
  OBVIOUS
<1> USE DEF AfterPlan, AfterRewrite
<1>0. ours \in Plugins  BY DEF GatesInv, TypeOK
<1>1. CASE Plan
  BY <1>1 DEF Plan, Ask, GoOn, Stop, AskedInv
<1>2. CASE GateSeries
  BY <1>2 DEF GateSeries, Ask, GoOn, Stop, AskedInv
<1>3. CASE GateApi
  <2>1. stage = "api" /\ ours = before  BY <1>3 DEF GateApi, GatesInv, TreeInv, Early
  <2>2. stage' = "rewrite" => ApiExit(host, before) = 0
    BY <1>3, <2>1 DEF GateApi, Ask, GoOn, Stop
  <2> QED BY <1>3, <2>2 DEF GateApi, Ask, GoOn, Stop, AskedInv
<1>4. CASE Rewrite
  <2>1. /\ Rewritten(host, ours).api = ours.api /\ Rewritten(host, ours).regular = ours.regular
        /\ Rewritten(host, ours).legible = ours.legible
    BY <1>0 DEF Rewritten, Plugins
  <2> QED BY <1>4, <2>1 DEF Rewrite, Write, GoOn, Stop, AskedInv
<1>5. CASE MergeLock
  <2>1. \A lock : /\ [ours EXCEPT !.lock = lock].api = ours.api /\ [ours EXCEPT !.lock = lock].regular = ours.regular
                  /\ [ours EXCEPT !.lock = lock].legible = ours.legible
    BY <1>0 DEF Plugins
  <2> QED BY <1>5, <2>1 DEF MergeLock, Write, GoOn, Stop, AskedInv
<1>6. CASE Resolve
  <2>1. \A lock : /\ [ours EXCEPT !.lock = lock].api = ours.api /\ [ours EXCEPT !.lock = lock].regular = ours.regular
                  /\ [ours EXCEPT !.lock = lock].legible = ours.legible
    BY <1>0 DEF Plugins
  <2> QED BY <1>6, <2>1 DEF Resolve, GoOn, Stop, AskedInv
<1>7. CASE GateLockstep
  BY <1>7 DEF GateLockstep, Ask, GoOn, Stop, AskedInv
<1>8. CASE GateSource
  BY <1>8 DEF GateSource, Ask, GoOn, Stop, AskedInv
<1>9. CASE GateAbi
  BY <1>9 DEF GateAbi, Ask, GoOn, Stop, AskedInv
<1>10. CASE Report
  BY <1>10 DEF Report, AskedInv
<1>11. CASE UNCHANGED vars
  BY <1>11 DEF vars, AskedInv
<1> QED BY <1>1, <1>2, <1>3, <1>4, <1>5, <1>6, <1>7, <1>8, <1>9, <1>10, <1>11 DEF Next

\* A plugin that has the host's codec and patches is what the rewrite makes of it, but for the version.
LEMMA RewrittenFixed ==
    ASSUME NEW h, NEW p \in Plugins, p.codec = Decl(h), p.mirrored = HostPatches(h), HostPatches(h) \subseteq p.patches
    PROVE  [Rewritten(h, p) EXCEPT !.version = p.version] = p
<1>1. (p.patches \ p.mirrored) \union HostPatches(h) = p.patches  OBVIOUS
<1> QED BY <1>1 DEF Rewritten, Plugins

\* What the gates let through they would let through again, the rewrite with nothing left to do but
\* to count the version up, and the lockfile names the plugin at the version of the manifest.
THEOREM SettledCorrect == Spec => []PassedIsSettled
<1>1. GatesInv /\ AskedInv => PassedIsSettled
  <2> SUFFICES ASSUME GatesInv, AskedInv, stage = "accepted"
               PROVE  /\ [Rewritten(host, ours) EXCEPT !.version = ours.version] = ours
                      /\ VersionsIn(ours.lock, Plugin) = {ours.version} /\ Lockstep(host, ours.lock)
                      /\ Rerun(host, ours) = {0} /\ SourceExit(host, ours) = 0 /\ AbiExit(host, ours) = 0
    BY DEF PassedIsSettled
  <2>1. /\ host \in Hosts /\ ours \in Plugins /\ PlanExit(host) = 0 /\ ours.codec = Decl(host)
        /\ ours.mirrored = HostPatches(host) /\ HostPatches(host) \subseteq ours.patches
        /\ Lockstep(host, ours.lock) /\ SourceExit(host, ours) = 0 /\ AbiExit(host, ours) = 0
        /\ VersionsIn(ours.lock, Plugin) = {ours.version}
    BY DEF GatesInv, TypeOK, TreeInv, LockInv, PassedInv, AfterPlan, AfterRewrite, AfterResolve
  <2>2. ours.regular /\ ApiExit(host, ours) = 0
    BY DEF AskedInv, AfterPlan, AfterRewrite, ApiExit
  <2>3. SeriesExit(host, ours) = 0
    <3>1. GitExit(ours.lock, Decl(host).package) = 0  BY <2>1 DEF AbiExit
    <3>2. LockedExit(ours.lock, Decl(host).package) = 0  BY <3>1 DEF GitExit
    <3>3. PICK s \in ours.lock : FromCodecRepo(ours) = {s} /\ s.name = Decl(host).package
                                 /\ s.version = HostCodec(host).version
      BY InvOneCodec DEF OneCodec
    <3>4. \A t \in Locked(ours.lock, Decl(host).package) : t = s
      BY <3>2, <3>3 DEF LockedExit, Locked, Escalate, Unparseable
    <3>5. ~Decl(host).moving  BY <2>1, PlanFacts
    <3> QED BY <2>1, <3>2, <3>3, <3>4, <3>5 DEF SeriesExit
  <2>4. [Rewritten(host, ours) EXCEPT !.version = ours.version] = ours  BY <2>1, RewrittenFixed
  <2> QED BY <2>1, <2>2, <2>3, <2>4 DEF Rerun
<1> QED BY <1>1, GatesCorrect, AskedInit, AskedStep, PTL DEF Spec

=============================================================================
