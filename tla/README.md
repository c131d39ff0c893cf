# Formal model of the Python REPL plugin

This directory holds a TLA+ development of `ocs_python_repl`, the plugin that gives every document
tab of Open CAD Studio an interactive Python. The modules are translated from the source under
`src/`; TLC checks them on small instances and TLAPS proves their main invariants for every value of
the constants. `PROJECT.json` says, for every definition that models code, which lines it stands
for, lists the runs, the theorems, the hazards the properties were written for, and the places
where the code and its documentation disagree.

## 1. The system

| part | state it keeps | operations | talks to |
|---|---|---|---|
| **session table** `src/src/lib.rs` | `sessions: Mutex<HashMap<tab, RefCell<ReplSession>>>` | `PYTHONSHELL` (`ensure_session`), `DocumentTabClosed`, drop on unload | host by calls; one detached thread per closed tab |
| **REPL session** `repl.rs`, `session_dir.rs` | process group, temp directory, proxy thread and its stop channel | `spawn` (eight steps, each can fail), `is_alive`, `shutdown` on drop | host view, request proxy, file system, processes |
| **process group** `platform.rs` | pid and pgid (Unix), the cached interpreter | `spawn_wrapper`, `is_alive`, `shutdown_group`, `kill_group`, `python_executable` | operating system |
| **wrapper** `templates/repl_wrapper.py` | the terminal process it started | find a terminal, launch it, install handlers, wait | signals from the plugin, terminal, Python REPL |
| **Windows process tree** `platform.rs` | the wrapper's handle, its job object | `spawn_wrapper_windows`, `shutdown_group`, `kill_group`, drop | operating system, the console it shares |
| **document handle** `document.rs` | snapshot reader, index from handle to position, request connection | `refresh`, `entities`, `entity`, `layers`, `counts`, `add`, `add_many`, `update`, `remove`, three record calls | host snapshot (shared memory), request proxy (TCP), the Python interpreter lock |
| **entity conversion** `python_ext.rs` | none | Python object to entity and back | the generated bindings |
| **binding generator** `build.rs`, `build/generate.rs` | build outputs | choose a type registry, order helper types, emit dataclasses, getters and setters | cargo's target directory |
| **start-up** `templates/startup.py`, `templates/ocs` | module globals of one interpreter | import the extension, open the document, register magics | document handle |
| **re-pin gates** `.github/scripts/repin_gates.py`, `record_host_build.py` | manifests and lockfiles | plan, gates, rewrite, merge lock, fingerprints, pick the release run | upstream repository |
| **re-pin pipeline** `.github/workflows/repin.yml`, `release.yml`, `canary.yml`, `ci.yml` | branches, tags, releases, issues | detect, gate, build, merge, tag, release, escalate | git remote, other runs of itself |

### How they interact

`PYTHONSHELL` asks the table for the tab's session and its wrapper's pulse. With none alive it builds
a session: open the host's view of the document, create the temp directory, listen and start the
proxy thread, fork the wrapper into a process group of its own, poll once or for 500 ms, insert. The
wrapper opens a terminal, and the terminal runs the Python REPL in a session of its own, where
`ocs.doc` maps the host's snapshot and connects back to the proxy. Shutting a session down runs all of
this backwards, on the caller's thread or on a detached one.

### What is hard

* *Concurrency*: detached teardown threads beside the plugin's calls; wrapper, terminal and REPL
  processes that die on their own; Python threads that share one `Document` under an interpreter lock
  and two mutexes; the host, which republishes snapshots at any time; nightly runs beside pushes to
  `main`.
* *Failure*: every `?` in `spawn`, a wrapper that crashes or ignores SIGTERM, a directory that cannot
  be deleted, a connection that cannot be made, a pipeline run that dies between two pushes.
* *Ordering*: kill, then join, then delete; a SIGTERM before the handlers exist; an answer without a
  request id; remap before reindex.
* *Time*: 500 ms and 3 s polls, pids that are recycled, a check whose result is used later.

### What makes each part correct

* *Session table*: at most one running REPL per tab; a live one is never replaced; a closed tab ends
  up without one; every call returns; the unload leaves nothing behind.
* *Process group and wrapper*: signals reach the right group; "dead" means the REPL is over; a REPL
  that was let go is told to go, and ends.
* *Windows process tree*: what the plugin started ends with the session, and nothing else is killed for it.
* *Document handle*: a lookup answers from the snapshot that is mapped; mapped memory is not exchanged
  under a reader; an answer goes to the thread that asked; calls return.
* *Generator and conversion*: the bindings fit the version of the types that the plugin links; a value that
  Python sends arrives as it was sent, or is refused, or is warned of; what is read and written back
  comes out as it was; a helper is defined before it is used.
* *Re-pin gates*: what passes has one build of the codec, the host's, and is in step with the host;
  what is refused has a reason, and the reason is reported.
* *Re-pin pipeline*: what people push meanwhile is not lost; a published version is what its tag says;
  a host release is re-pinned, or something tells people why not.

## 2. Modules

| module | models | extends / composes |
|---|---|---|
| `ReplContract` | what PYTHONSHELL promises per tab and REPL: the abstract specification | |
| `ReplContractProofs` | what that promise means for a user | `ReplContract`, `TLAPS` |
| `ReplSessions` | session table and REPL sessions, any number of tabs | implements `ReplContract` |
| `ReplSessionsProofs` | theorems about it | `ReplSessions`, `TLAPS` |
| `ReplProcesses` | one tab's wrapper, terminal and REPL processes, signals and process ids | implements `ReplContract` |
| `ReplProcessesProofs` | theorems about it | `ReplProcesses`, `TLAPS` |
| `WindowsTree` | the processes of a session on Windows: job object, console event, snapshot walk | |
| `WindowsTreeProofs` | theorems about it | `WindowsTree`, `TLAPS` |
| `DocumentContract` | what `ocs.doc` promises to a script: the abstract specification | |
| `DocumentView` | `ocs.doc` in a REPL with several Python threads | implements `DocumentContract` |
| `DocumentViewProofs` | theorems about it | `DocumentView`, `FiniteSetTheorems`, `TLAPS` |
| `RegistrySelection` | which version's type registry the bindings are generated from | |
| `EntityBinding` | entities and records between host and script: conversions, reads and writes | extends `RegistrySelection`, whose choice decides which fields it knows |
| `EntityBindingProofs` | theorems about both | `EntityBinding`, `TLAPS` |
| `RepinPipeline` | the runs of `repin.yml` and `release.yml` on one repository, beside people | |
| `RepinPipelineProofs` | theorems about it | `RepinPipeline`, `TLAPS` |
| `RepinGates` | one re-pin through the gates of `repin_gates.py`, on manifests and lockfiles | a closer look at the step `PassGates` of `RepinPipeline` and at its `Escalate` |
| `RepinGatesProofs` | theorems about it | `RepinGates`, `TLAPS` |
| `MCReplSessions`, `MCReplProcesses`, `MCWindowsTree`, `MCDocumentView`, `MCEntityBinding`, `MCRepinGates` | instances for TLC | the module each is named after |

Operators that begin "Slip:" in their comment are wrong versions of the operator they stand before.
Nothing uses them; they are there to show that the properties notice such a slip.

### ReplContract and ReplSessions

A session's life is `stage`: `unused`, the steps of `spawn` (`opening` .. `ready`), `registered`, the
steps of `shutdown` (`dropping` .. `deleting`), `gone`; or `failed`. Beside it stand what the session
holds: `dir`, `proxy`, `wrapper`. `sessions` is the table, `call` and `focus` are what the plugin
object is doing and with which session. Each step of `ReplSession::spawn` is an action
(`OpenView`, `CreateDir`, `StartProxy`, `SpawnWrapper`, `WaitForWrapper`, `Insert`), and `SpawnFails`
is the `?` of each. `TabClosed` is the whole notification handler; the shutdown it starts on a thread
(`Sigterm`, `FindsDead` or `Sigkill`, `JoinProxy`, `DeleteDir`) interleaves with everything. `Insert`
is the `HashMap::insert` statement, with the old session's drop at the end of it, still in the call.

`IsAlive` is `waitpid(WNOHANG)`, which reaps: `Reaped` is its side effect, so every action that asks
also reaps, and who asks second gets ECHILD and the same answer.

Assumptions about code outside `src/`: a tab's id is not used again after it closes; the host has a view
of a tab exactly while it is open; calls into the plugin are serial, because `dispatch` takes `&self` on
the object that `on_notification` and `drop` need `&mut`; the host answers requests also while it waits
for the plugin; when the plugin is unloaded its runner process ends, with every thread in it.

`ReplContract` forgets all of that but the table and whether a REPL is live, dead, retiring or
released. `ContractStatus` in either detailed module is the refinement mapping.

### ReplProcesses

The same tab from closer. `wrapper` is the wrapper's control state: `booting` (before `Popen`),
`launched` (before the handlers), `waiting`, then `zombie` and `reaped`. `signal` is the last fatal
signal sent to it, `terminal` the process it started, a member of its process group, `repl` the Python
in that terminal, which has a session of its own and does not get the group's signals. `pid` is the
plugin's only handle. Ids are taken from the pool `Pids`, which others use too (`foreign`), and an id is
free only when its leader is reaped and its group has no member left.

SIGTERM kills a `booting` or `launched` wrapper by its default action (`Die`) and makes a
`waiting` one run its handler (`Handle`). A fatal signal that is pending stops the program where it is:
a signalled wrapper takes no further step towards a terminal.

Terminals are external and come in four kinds, by how the command of `build_terminal_command` behaves:
the process is the window; the same, but deaf to SIGTERM; a client that hands the window to a server
and exits; macOS `Terminal.app`, for which no process is kept, and whose process objects lack the `pid`
that `main` logs, so the wrapper dies of an AttributeError (`LogsNoPid`).

### DocumentContract and DocumentView

`DocumentContract` has no locks, index, positions or messages. The document, the published snapshot and the
view are sets of handles; a call is pending until the one step at which it takes effect, and a write is carried out
at most once. `Contract` in `DocumentView` is the refinement mapping: a call in `refresh`, `count`, `scan` or
`entity` has not taken effect, one that looks up has not either, one that converts is handing out a result
that is already fixed, and what is asked of the host is the head of the connection.

In `DocumentView` threads are Python threads. `pc` is where each is in a method of `Document`, between lock operations;
`gil`, `reader`, `indexer` are the holders of the interpreter lock and the two mutexes. Methods hold the
interpreter lock from call to return (no method of `document.rs` releases it), but in `entities` and
`entity` the Python objects are made by Python code, in which the interpreter may switch threads while
the mutexes are held: `Switchable` says so. `published` and `fresh` are the host's last snapshot,
`view` the mapped one; it changes only in `refresh`. `index` goes through the same steps as
in the code: after `drop(reader)` it is still that of the old snapshot, until `Rebuild`. Positions count
from 1, so that 0 can stand for no entry. Contents of entities are not kept; `entity_to_py` that raises
drops the same guards as one that returns, and is the same step.

The snapshot library, the request proxy and the host are external: the connection delivers answers in
the order of the requests, the host answers every request, and an attached snapshot does not change
under its reader. `refresh` looks and remaps in one step, under the reader mutex.

### WindowsTree

`kin`, `parent` and `member` are the system's process table: whose a process is, the id it is listed under
for good (`th32ParentProcessID`), and whether it is in the group's job. `root`, `job` and `pc` are the
`ProcessGroup` and how far the plugin is with it; `victims` is the list that `kill_group` walks. Processes of
the session, of sessions let go and of strangers start and end at any point, and an id is free again
as soon as its process has ended, but for the wrapper's, which is held by `ProcessGroup.handle`. The wrapper
runs before `AssignJob`, which may fail, so what it starts first is in no job. Ctrl+Break is no action:
nobody is obliged to react to it (the wrapper's handler cannot run while `Popen.wait` blocks), and whoever does is an
`Exits`. It also reaches the runner, which has attached to the console: `RunnerDies`. The wrapper passes on the
REPL's exit code, so a user's `exit(259)` makes `is_alive` answer yes for ever: `code` has a value for it.
The system may refuse to terminate the job, and to open or terminate a process; `kill_group` looks at none of these
answers and goes on (`TerminateJob`, `SpareVictim`, `SpareRoot`).
`inside`, `complete`, `clean` and `spared` are history: whether the job took the wrapper in time, whether the walk found the
whole tree, whether it found anything else, and whom the system did not let it end. The properties are stated with them,
no guard reads them.

### RegistrySelection and EntityBinding

`RegistrySelection` is cargo's target directory over many builds: the version pinned, when each version's
registry was last written, which of them a stopped build has cut short. `Generate` is `find_type_registry` with
what follows from it: the newest that parses and names all required types, or the plugin in use stays.

`EntityBinding` loads the plugin that resulted and lets a script and a user work on one document. `host` is
the document, `view` the snapshot of it, `obj` the Python object at hand, with the entity it was read from
(`base`) and the attributes assigned since (`set`). `Read` and `Entity` are the generated getters and setters,
field by field according to the field's type: lenient numbers, refusing strings, vectors and lists, casts to
narrow integers (`Narrow`), fields that Python is not shown. A dataclass starts from `PyDefault`, a dict from
`Missing`, for which the setter has a default of its own. `Add`, `AddMany`, `Update`, `Remove` and the record calls are
the whole methods; `Request` loses the request or the answer. Values are small numbers; 0 is the Rust default.
A list stands for its length and one bit for what its points carry besides their place.

The host is external: it replaces the entity of the handle that update sends, gives new entities free handles
and takes a batch as one. Entities that do not deserialize, which `counts` skips and `entities` fails on, are left out.

### RepinPipeline

A run is one at a time (`pc`, with what it carries: `target`, `dry`, `base`, `candidate`, `tip`, `head`)
and one more may wait (`queued`), as the concurrency group says. Every call to GitHub is an action;
before any of them the run may be cancelled or fail, and `main` may move. The shipping step is the pull request's merge
(`MergePr`) or `merge_to_main` (`PushMain`, and when that fails `Rebase`, `Repush`, `PushMainAgain`) with the deletion of the branch. The steps before the pull request only touch the checkout and are one action,
`PassGates`. A commit is its manifests, as numbers of host tags and a version, and a count of all else.

`escalate` is a job like any other: `Escalate` leaves an issue, `EscalationFails` is any of its commands failing under
`set -e`, and `EscalationSkipped` a dry run. A `git ls-remote` that fails is taken for "no such branch" (`DetectDue`).

`Mergeable` and `MergedField` are git's three-way merge, field by field with `tip` as the base: what one side changed, or
both alike, merges clean, and the result may mix the run's manifests with those people pushed meanwhile. Git may also
find a conflict where the fields have none (they are neighbouring lines), so each use has a failure beside it.

`issues` and `prs` are the marks people can see. `branch` says of each `repin/<tag>` branch whether it is there and, once
it is left behind, the first reason for that: its re-pin reached `main` (`shipped`), the run was `cancelled`, its
escalation failed (`silent`), or people closed what it was about and kept the branch (`dismissed`).
People push code or manifests, revert a re-pin (which takes pin and version back), dispatch a re-pin or a release,
tag by hand (RELEASE.md section 6), and close a pull request, close an issue or delete a branch, each by itself.
At the start `main` may have been pinned by hand, without fresh fingerprints. Git and GitHub are external.

### RepinGates

The state is `host` (the files at the tag), `before` (the plugin as checked out), `ours` (the working tree),
and `stage`. Each gate is an operator that returns its exit code, in the order of the checks in its function:
0, `Escalate` or `Unparseable`. Manifests and lockfiles are records and sets of stanzas; a git source is a
URL and a revision, each with its spelling, because cargo takes two spellings of one commit for two
sources. `Rewrite` and `MergeLock` are the two functions that write; `Resolve` is the build without
`--locked`, in which cargo may drop crates, the plugin's own included, add one that the plugin or the host has asked for,
and puts in the codec for each of the two dependents on it, or fails. `Rewrite` also bumps the plugin's version, and
`MergeLock` gives the lockfile's stanza of the plugin the version of the manifest.

A manifest that is not TOML stops the gate with `Uncaught`, Python's exit code for an exception nobody handles: `load_toml`
is an argument of `guarded`, not inside it. `Report` is the classification by the job `escalate`, which runs the
first three gates on the checkout again, or, when it cannot fetch the manifests, gives the verdict `detect`. Cargo and
[patch] are external. The text of a manifest and the table in which a dependency stands are left out; `regular` and
`legible` stand for what TOML and the regular expressions find.

## 3. Runs

| run | instance | shows |
|---|---|---|
| `sessions` | 2 tabs, 2 spawns, all faults | safety: `OneWrapperPerTab`, `NothingUnowned`, `DirOutlivesItsUsers`, `NoSessionForClosedTab`, `LiveSessionKept`; liveness: `CallsReturn`, and `ImplementsContract` with the contract's liveness |
| `sessions_exit` | 1 tab, 2 spawns, no faults | finding: a tab closed just before the unload leaves its directory |
| `sessions_crash` | 1 tab, 2 spawns, no faults | finding: the wait for an immediate crash notices none |
| `processes` | 1 tab, 2 spawns, 2 ids, all terminals, crashes | `SigkillHitsOwnGroup`, `DeadMeansOver`, `SupersededReplEnding`, `DirOutlivesRepl`, `StoppedReplEnds`, `ImplementsContract` |
| `processes_detach` | 1 tab, 2 spawns, client terminals, no faults | finding: a second REPL starts while the first is in use |
| `repin` | 2 host releases, 1 act of a person, cancellations and failures everywhere | `HumanWorkKept`, `PublishedConsistent`, `LeftoverExplained`, `EachReleaseHandled` |
| `gates` | 3 spellings of 2 repositories, 3 commits in 2 series, 2 names of the codec; hosts and plugins in order in every combination, and each odd shape | `OneCodec`, `InStepWithHost`, `EarlyStopNamed` |
| `gates_unreadable` | the same | finding: a manifest that is not TOML is reported as a decision for people |
| `document` | 2 threads, 2 handles | `LookupRight`, `OwnAnswer`, `StuckOnlyInConversion`, `CallReturnsOrStuck`, and `ImplementsContract` |
| `windows` | 3 process ids | `SubtreeKilled`, `StrangersSpared`, `JobLeavesNothing`, `ShutdownEnds` |
| `binding` | 3 versions, 2 registries written, 2 handles, one field of each type, symmetry | `CountsAgree`, `OverwriteExplained`, `StoredAsGiven`, `BatchWhole` |
| `binding_dict` | the same | finding: a dict and a dataclass with the same fields give different entities |

*Bounds.* `Sessions` bounds the spawns, `Pids` the process ids, `Handles` the entities. Two sessions,
in one tab or in two, are what every property that compares sessions needs; a third makes the check with liveness too long, and
the theorems cover it. Two ids make a replacement get either the old
one or another, with or without a stranger on it. Two threads and two handles make every pair of calls
overlap, and give documents of no, one and two entities in both orders, so that an index can
be wrong by position and by absence. `MaxTag` and `MaxByHand` of `RepinPipeline` count host releases and what people
do: a second release overtakes the run for the first, and one push, revert, tag or dispatch is enough to interfere at each
point of a run; runs, failures and what people close are not counted. `HostShapes` and `PluginShapes` of `RepinGates` are the
inputs: the codec declared and patched under either name, with every spelling, moved within its series or
out of it, with shared crates at one or two versions, and one host or plugin for every way a gate can object.
Three process ids give a wrapper, its REPL and a program started from it, a link in the middle that ends, and a
stranger listed under an id of the session; the safety properties were tried with four as well, and hold. `MCEntityBinding` has a version without a
field and one whose registry lacks a kind, so that two builds already lead to each way of choosing wrongly; `Half`
and `Word` put numbers on either side of both bounds of a narrow integer and beyond 64 bits. `MaxWrites`, `MaxEdits`,
`MaxCalls` and `MaxSet` count registries written, acts of the user, calls that change the document, and attributes
assigned: one act between a read and one write is what every property there compares.
No other counter is capped.
The proofs lift these bounds for everything but liveness.

*Deadlock.* `document`, `windows` and `repin` check it. The other configs set `CHECK_DEADLOCK FALSE`, because there
the system really ends: after the unload the runner is gone, a closed tab whose processes have ended is over,
so is a re-pin that was accepted or reported, and the script of `EntityBinding` ends with its last call.

*Symmetry* is used in the `binding` runs, which have no liveness property. They also have a
VIEW: once the plugin is loaded, the target directory it was built in matters to nothing that follows.

*Fairness.* `ReplSessions` and `ReplProcesses` assume that threads and processes that can run do, that
the host delivers notifications and answers, that a killed process dies, that a proxy thread
that was told to stop gets to see it however often the host has something to forward (strong fairness), and that a terminal
which has been killed, or asked and is not stubborn, or whose child has ended, exits. Nothing makes the
user, the host's own decisions or a crash happen. `DocumentView` assumes weak fairness of a thread that
holds the interpreter lock, strong fairness of being switched in and out (CPython makes the holder
give way to a waiting thread) and of getting through a conversion in the slices that gives, and an
answering host. `RepinPipeline` assumes that the schedule triggers again and again and that a run which can take
a step takes one (a failure is a step too); nothing makes people act, and nothing makes a step succeed, with one exception: an escalation may
fail any number of times, but of infinitely many one gets through (strong fairness), because GitHub is not down for ever. Without it
a release could fail its gates every night and never be mentioned, as the code cannot help.
`WindowsTree` assumes that a shutdown which has begun goes on: it is a thread, its wait is limited, and each of its
calls returns. No process of the session or of anybody else has to do anything.
`RepinGates` and `EntityBinding` have only safety properties.

## 4. What is proved

TLAPS proves the following for every set of tabs, sessions, process ids, handles and threads that meets
the module's named assumption (the null values are not members; `Handles` is finite; faults and
terminals are among those modelled). `EntityBinding` needs for one theorem that the null value is no record of an
entity (`NothingAssumption`).

**ReplSessions.** `TableInv` (types, owners, `TableAgrees`) is inductive by itself. `LifeInv` adds what a
session holds in each stage, from which `DirOutlivesItsUsers` follows. `TabInv` is the strengthening for
two sessions of one tab: a spawn is guarded by the absence of a live session (`SpawnGuarded`) and stays so because
dead wrappers do not come back, a wrapper left alive by a shutdown belongs to a closed tab or is doomed, an
open tab's session is dropped inside a call, and after the exit the table is empty. It gives
`OneWrapperPerTab`, `NoSessionForClosedTab`, `UnloadReleasesTable` and `LiveSessionKept`, and lets every
step be matched to a step of `ReplContract` (`ContractCorrect`). `HoldInv` says in which stages a proxy,
a wrapper and a directory can be there at all. Every stage that holds one is in the table, in a call or in a
teardown, hence `NothingUnowned`; and at the exit only teardowns of closed tabs are still in progress (by
`TabInv`), hence `SurvivorsExplained`, which lists all that can outlive the plugin.

**ReplContract.** `TabsOwnRepls` is inductive with the types. With it `LiveNotReplaced` and `OneWayLife` are read off the
steps. Both detailed modules imply `Init /\ [][Next]_vars` of the contract, so these hold of them as well, through
their refinement mappings.

**ReplProcesses.** `BookInv` is the plugin's bookkeeping: which sessions exist and have a directory.
`IdsUnique` says that an id names one group at a time and that the poll before the SIGKILL has not reaped
the leader: `SigkillHitsOwnGroup` follows. `SignalInv` is the heart: a terminal never comes back from
being asked to go, and none is missed, neither that of a signalled wrapper, nor one that
outlived its wrapper, nor one still to be launched by a wrapper that a signal has reached but not
yet killed. From it follow `DeadMeansOver`, `SupersededReplEnding` and `DirOutlivesRepl`. With
`ReplacedIsDead` the steps match those of `ReplContract` here too. The mapping reads each session's state
with a CASE whose guards overlap in states that never occur; `StatusRead` shows that the
bookkeeping excludes these. `DroppedIsDead` adds to `ReplacedIsDead` the session that is being
dropped inside the call, before its group is asked. A dead or replaced session's own window has been told to go, so at most one REPL with a window of its own is in use (`OneReplInUse`), and
a second starts beside one in use only for the named reasons (`SecondReplExplained`).

**DocumentView.** `DocumentInv` has four parts. `LockInv`: a thread outside the switchable places holds the
interpreter lock, who holds which mutex is determined by where it is, and a refresh in its window meets a
free reader mutex. `IndexInv`: the index is that of the mapped snapshot unless some thread is in that
window. `WireInv`: at most one request or answer is under way, of the thread that waits. The fourth is the
types. They give `LookupRight`, `OwnAnswer`, `StuckOnlyInConversion` and `ViewPinned`. `IndexOfFits` is
the lemma on what a rebuilt index contains, for every document. `ContractCorrect` is the refinement. Its steps are proved
by kind: those that take or release a lock are stutters (`ContractLocks`), and so are most steps of the refresh, which takes effect
in `Remap`, under the reader mutex and with the index still the old one; a read takes effect when it finds its entities
(`ContractHands`), a write when the host carries it out. `FreshInv` is what the code's test for a new snapshot
needs: if none is announced, the mapped one is the published one.

**WindowsTree.** `OursInv` says that the wrapper's id is never a stranger's, because the handle holds it, and that a job which
took the wrapper in time contains the whole tree: `JobLeavesNothing`. `CleanInv` adds that a clean walk's
victims are the session's or have ended; with it `StrangersSpared`. For `SubtreeKilled`, `ReachInv` says that every set of ids
which is closed under "listed under", orphans included, contains the tree (`Linked`), and that after a complete
walk the victims, with those the system spared, cover what still lives of it. Reachability is stated by closed sets, so no induction is needed.
Together they give `StraysExplained`: all the ways in which a process of the session can outlive it.

**RegistrySelection and EntityBinding.** `BuildInv`: registries have different dates, what was chosen is complete, and it is
the linked version's or one of the two explanations holds (`BindingsOfLinked`). `Inv` says that every entity in the
document and in the snapshot is storable (no field holds what its type cannot) and that the object at hand comes from a read
or a constructor plus what was assigned. The lemmas about the conversions carry the theorems:
`StoredAgain` (what a setter makes is storable), `NarrowFacts` (a cast keeps what fits and errs by a multiple of the range), `RoundTrip` (what is read and sent
back is what was there, unless the field is `Lossy`), `AssignedKept` and `RecordKept`. They hold for any width
of the integers, any schema and any set of versions. `DictInv` says that a dict has nothing but what was assigned; with
`LeftOut`, what a field becomes when it is left out, it gives `DictDiffersInZAxis`. `RecordsInv` says that a free
handle has no record, at the load and ever after (`RecordsOwned`); a `remove` that finds no entity has therefore no record
to take away either, and `FalseChangesNothing` follows.

**RepinPipeline.** `RunInv` (a run that is past `detect` has a tag, one past the gates is not dry) makes the types
inductive. `CandidateInv` follows the re-pinned commit: until it is merged or rebased it sits on the commit the run
started from (`OnBase`), and a rebased one differs from the `main` under it only in fields that still were as the run found them, or
are not moved by the re-pin (`Lands`). `MergeLands` says that a clean merge is of that kind, field by field. From these follow, for
every push, `HumanWorkKept`, `ShipsWhatItTested` and `VersionNeverFalls`. `PublishedInv` adds to
`PublishedConsistent` that a version has one tag and that what is published is tagged, because the tag may be
set by a run or by hand and the build comes later. `PublishedForGood` is the same read as an action property: a
published version keeps its one tag. A dry run ends before the first push (`DryRunHarmless`).
`LeftoverInv` says of a branch that has no fate yet that a pull request or an issue names it, or that a run is at work on it.

**RepinGates.** `GatesInv` follows the job: `TreeInv`, the working tree is the checkout until the rewrite and then the
checkout rewritten for the host; `LockInv`, what the lockfile consists of after the merge and after the build;
`PassedInv`, what the gates so far have asked; `EndInv`, whose exit code it was. `PlanFacts` says what a
host looks like that `host_plan` accepts. `OneCodec` needs both ends: the same declaration and patch lead to the
same source (`RedirectedExplained`), and a single stanza from the codec's repositories is then that
of the host. For `NoFalseAlarm` the same lemmas are read the other way: what the steps wrote satisfies
`gate_source` (`SourcePasses`), `gate_abi` (`AbiPasses`) and `verify_lockstep` but for what cargo added
(`LockstepPasses`). `NoFalseAlarm` is proved for hosts that take one crate from git, the codec: one that took a second crate from the
codec's repository would be refused by `gate_abi` as having "two codec crates". `AskedInv` remembers what the gates before the
rewrite saw and `RewrittenFixed` says that rewriting twice is rewriting once; so what passes is, but for the version, a fixed
point of the whole job (`PassedIsSettled`); the lockfile names the plugin at the version of its manifest (`MergedPlugin`).

*Only model-checked*: everything with fairness (`CallsReturn`, `StoppedReplEnds`, `ShutdownEnds`,
`CallReturnsOrStuck`, `EachReleaseHandled`, the liveness part of the two refinements), which the prover cannot do.
*Only proved*: `TableAgrees`, `UnloadReleasesTable`, `NoFalseAlarm`, `RegistryExplained` and `ViewPinned`; those that give the
extent of a finding (`SurvivorsExplained`, `SecondReplExplained` with `OneReplInUse`, `StraysExplained`, `DictDiffersInZAxis`); those about
the pipeline's result (`ShipsWhatItTested`, `VersionNeverFalls`, `DryRunHarmless`, `PublishedForGood`, `PassedIsSettled`);
`OnlyStorable`, `RecordsOwned` and `FalseChangesNothing`; and the three of `ReplContract`. No run checks them
because the theorems cover every instance.

## 5. Findings

* `sessions_exit`: a closed tab's session is dropped on a detached thread that nobody joins. An unload
  right after ends the process first, and directory (and perhaps wrapper) stay, against README 405-406.
  The same property also fails without an unload race when the constant `Faults` holds "listener":
  `SessionDir` has no `Drop`, so a `spawn` that fails after creating it leaves it for ever. The theorem
  `SurvivorsCorrect` says that there is no third way, but for a delete that keeps failing.
* `sessions_crash`: the wait "for an immediate wrapper crash" stops at the first poll that finds the
  wrapper alive, spends its 500 ms on one that is already dead, and returns Ok either way.
* `processes_detach`: with gnome-terminal the wrapper exits as soon as the window is open, and
  `PYTHONSHELL` starts a second REPL while the first is in use, against README 204-205. Terminals that are
  their own window are safe from it (`SecondReplCorrect`), unless the wrapper is killed from outside.
* `binding_dict`: the setter of a vector falls back to (0, 0, 0), the dataclass to the manifest's default. A Point added as
  the dict of README 316 gets a null normal, the same Point added as a dataclass the z axis, against README 216-217.
  Fields with such a default that the dict leaves out are the only difference (`DictCorrect`).

* `gates_unreadable`: `load_toml` raises `Unparseable` while the arguments of `guarded(...)` are evaluated, where nothing
  catches it. A host manifest that is not TOML therefore ends `host-plan` with exit code 1, that of a decision, and `escalate` says
  "decision", against repin.yml 485-486 and the exit codes in repin_gates.py 22-31. `gate-api` does the same on `plugin.toml`.

Three disagreements in the re-pin workflow were met while modelling and have no run here. `escalate` needs only `detect` and `repin`,
so a release build that fails after the merge and the tag leaves no issue (repin.yml 414-416 says it does).
`verify_fingerprints` never asks which host tag `host-build.json` names, against its docstring (repin_gates.py 714).
`escalate` repeats `host-plan`, `gate-series` and `gate-api` only, so a stop on purpose by `verify-lockstep`, `gate-source` or `gate-abi`
is reported as a failure "downstream", and not with the text written for it (repin.yml 523).

`RepinPipeline` shows four more consequences that no document rules out. After a clean merge of a run with a push of people,
the manifests on `main` are a mix that nobody tested, though only in fields the re-pin leaves alone (`ShipsWhatItTested`).
A branch whose escalation failed makes every later night skip the release in silence; so does one whose issue was closed but
which was kept (`LeftoverExplained`, `EachReleaseHandled`). After a revert the next night makes the same version
again, whose tag exists, and its push of the tag is refused after `main` has moved. And in `RepinGates`, an escalation that cannot
fetch the manifests gives the verdict `detect`, whose text says that the run failed before a tag was determined, although there was one.

`document` also shows a way to hang that no document of the repository rules out: a thread switched out
while it converts entities holds the reader mutex; another thread that then calls any read method waits
for that mutex without giving up the interpreter lock. The property `StuckOnlyInConversion` says, and
`StuckCorrect` proves, that there is no other way to block on these locks.

## 6. What is not modelled, and the plan

Left out for good: log output, the ribbon, the allocation diagnostics, the start-up script (one interpreter, no shared
state), Python discovery (one search whose answer is cached; what it finds depends on the machine alone). The runner being killed
is modelled on Windows, where a job answers it, and not on Unix, where nothing in the code tries to recover from it.

Left out of `WindowsTree`: the order in which victims are killed (any order is allowed), why the system refuses to end a
process (any may be refused), that a process can be
attached to one console only, so that two shutdowns at once spare each other's event, and the handle that
`create_job_object` leaks when it cannot set the limit. Left out of `EntityBinding`: nested structs and enumerations with
data, whose helpers are made of the same parts; entities that do not deserialize.

Planned, most important first:

1. `HelperOrder` (`generate.rs` `helper_order`): the rounds of the algorithm as a state machine. Theorem:
   without a cycle every helper comes after those it uses; with one, everything is still emitted once. The order
   matters to Python, where a dataclass names others as default factories of its fields.
2. `HostBuildRecord` (`record_host_build.py`): choice among candidates by time interval, checked against its
   documented intent.
3. The refinement of `RepinPipeline` by `RepinGates` (its gates accept or stop as `PassGates` and `StepFails` do).
