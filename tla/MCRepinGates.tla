---------------------------- MODULE MCRepinGates ----------------------------
(* Hosts and plugins to run RepinGates on. *)
EXTENDS RepinGates

\* "u" and "u.git" are one repository, "w" is another.
SmallSlug == [x \in Urls |-> IF x = "u.git" THEN "u" ELSE x]
SmallVersion == <<40, 41, 50>>

Rev(c, f) == [commit |-> c, form |-> f]
Git(u, c, f) == [url |-> u, rev |-> Rev(c, f)]
Registry == [url |-> NoUrl, rev |-> Rev(1, "full")]
Crate(n, v) == [name |-> n, version |-> v, source |-> Registry]
Codec(n, s) == [name |-> n, version |-> SmallVersion[s.rev.commit], source |-> s]
Dep(n, s) == [package |-> n, source |-> s, moving |-> FALSE]
Patch(k, n, s) == [key |-> k, package |-> n, source |-> s, pinned |-> TRUE]

\* The host without its codec, with one or two versions of the shared crate.
Others(versions) ==
    {Crate("serde", v) : v \in versions} \union {Crate("which", 70), Crate(Root, 10), Crate(Api, 40)}

HostOf(decl, patches, codecs, versions) ==
    [decls |-> {decl}, patches |-> patches, lock |-> codecs \union Others(versions),
     min |-> 4, max |-> 5, legible |-> {"toml", "api window", "root name"}]

HostDecls == {Dep(n, Git(u, c, f)) : n \in {"acadrust", "opencadcodec"}, u \in {"u", "u.git"},
                                     c \in {2, 3}, f \in {"short", "full"}}
HostRedirects == {{}} \union {{Patch("u", n, s)} : n \in {"acadrust", "opencadcodec"},
                                                   s \in {Git("w", 1, "full"), Git("w", 2, "short")}}

\* What cargo makes of the declaration and the redirect.
HostLocked(decl, patches) ==
    LET mine == {p \in patches : p.package = decl.package}
    IN  IF mine = {} THEN decl.source ELSE (CHOOSE p \in mine : TRUE).source

GoodHosts == {HostOf(d, r, {Codec(d.package, HostLocked(d, r))}, v) :
                  d \in HostDecls, r \in HostRedirects, v \in {{80}, {80, 81}}}

\* Hosts that a gate should stop at.
Declared == Dep("opencadcodec", Git("u", 2, "short"))
Built == Codec("opencadcodec", Declared.source)
Plain == HostOf(Declared, {}, {Built}, {80})
Unreadable == [Plain EXCEPT !.legible = {"api window", "root name"}]
OddHosts ==
    {[Plain EXCEPT !.decls = {}],
     [Plain EXCEPT !.decls = {Declared, Dep("opencadcodec", Git("w", 2, "short"))}],
     [Plain EXCEPT !.decls = {[Declared EXCEPT !.moving = TRUE]}],
     [Plain EXCEPT !.lock = Others({80})],
     [Plain EXCEPT !.lock = @ \union {Codec("opencadcodec", Git("u", 2, "full"))}],
     [Plain EXCEPT !.lock = Others({80}) \union {Crate("opencadcodec", 41)}],
     [Plain EXCEPT !.lock = Others({80}) \union {Codec("opencadcodec", Git("w", 2, "full"))}],
     [Plain EXCEPT !.patches = {Patch("w", "opencadcodec", Declared.source)}],
     [Plain EXCEPT !.patches = {Patch("u", "opencadcodec", Git("w", c, "full")) : c \in {1, 2}}],
     HostOf(Declared, {[Patch("u", "opencadcodec", Git("w", 2, "full")) EXCEPT !.pinned = FALSE]},
             {Codec("opencadcodec", Git("w", 2, "full"))}, {80}),
     [Plain EXCEPT !.min = 5],
     [Plain EXCEPT !.max = 3],
     [Plain EXCEPT !.legible = {"toml", "api window"}],
     [Plain EXCEPT !.legible = {"toml", "root name"}],
     Unreadable,
     [HostOf(Dep("opencadcodec", Git("u", 3, "short")), {}, {Codec("opencadcodec", Git("u", 3, "short"))}, {80})
        EXCEPT !.legible = {"toml"}]}

SmallHosts == GoodHosts \union OddHosts

\* The plugin as an earlier re-pin left it, with crates of its own and one more shared crate.
PluginOf(decl, patches, versions) ==
    [codec |-> decl, patches |-> patches, mirrored |-> patches,
     lock |-> {Codec(decl.package, HostLocked(decl, patches)), Crate(Plugin, 1), Crate("which", 71), Crate(Api, 39)}
              \union {Crate("serde", v) : v \in versions},
     version |-> 1, api |-> 4, regular |-> TRUE, legible |-> TRUE, strays |-> {}]

GoodPlugins == {PluginOf(Dep(n, Git("u", c, "short")), r, v) :
                    n \in {"acadrust", "opencadcodec"}, c \in {1, 3},
                    r \in {{}, {Patch("u.git", "acadrust", Git("w", 2, "full"))}}, v \in {{80}, {79}}}

Last == PluginOf(Dep("opencadcodec", Git("u", 1, "short")), {}, {80})
OddPlugins ==
    {[Last EXCEPT !.regular = FALSE],
     [Last EXCEPT !.legible = FALSE],
     [Last EXCEPT !.patches = {Patch("u.git", "opencadcodec", Git("w", 1, "full"))}],
     [Last EXCEPT !.api = 3],
     [Last EXCEPT !.lock = {Crate(Plugin, 1)}],
     [Last EXCEPT !.lock = {s \in @ : s.name # Plugin}],
     [Last EXCEPT !.strays = {Codec("opencadcodec", Git("u", 1, "full"))}],
     [Last EXCEPT !.strays = {Codec("acadrust", Git("u.git", 2, "short"))}],
     [Last EXCEPT !.strays = {[name |-> Stray, version |-> 1, source |-> Git("w", 1, "full")]}]}

SmallPlugins == GoodPlugins \union OddPlugins
=============================================================================
