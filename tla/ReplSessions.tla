---------------------------- MODULE ReplSessions ----------------------------
(***************************************************************************)
(* The plugin's table of REPL sessions (src/src/lib.rs) and the life of    *)
(* one ReplSession (src/src/repl.rs, session_dir.rs and the Unix half of   *)
(* platform.rs): PYTHONSHELL, the DocumentTabClosed notification, plugin   *)
(* unload, and the shutdown that dropping a session runs.                  *)
(*                                                                         *)
(* Three kinds of actors interleave.  The plugin object runs one call at a *)
(* time (dispatch takes &self, on_notification and drop take &mut self).   *)
(* A session removed by a tab-close notification is dropped on a detached  *)
(* thread of its own.  Wrapper processes, request proxies and the host act *)
(* whenever they like.                                                     *)
(*                                                                         *)
(* Sessions is the pool of ReplSession values a behaviour may create: its  *)
(* size bounds the number of spawns.  Faults names the environment errors  *)
(* the run allows.                                                         *)
(***************************************************************************)
CONSTANTS Tabs, Sessions, NoSession, NoTab, Faults

FaultKinds == {"view", "dir", "listener", "wrapper", "delete"}

ASSUME ConstantsAssumption ==
  /\ NoSession \notin Sessions
  /\ NoTab \notin Tabs
  /\ Faults \subseteq FaultKinds

VARIABLES
  open,      \* tabs the host has open (a closed tab's id is never reused)
  closing,   \* closed tabs whose DocumentTabClosed is not handled yet
  sessions,  \* PythonReplPlugin.sessions: tab -> registered session
  call,      \* what the plugin object is executing
  focus,     \* the ReplSession that call builds or drops, or NoSession
  owner,     \* session -> the tab it was spawned for
  stage,     \* session -> how far its construction or shutdown got
  dir,       \* session -> its temp directory
  proxy,     \* session -> its request proxy thread
  wrapper    \* session -> its wrapper process

host    == <<open, closing>>
plugin  == <<sessions, call, focus>>
vars    == <<open, closing, sessions, call, focus, owner, stage, dir, proxy, wrapper>>

Building    == {"opening", "viewed", "dirMade", "listening", "waiting", "ready"}
TearingDown == {"dropping", "signalled", "joining", "deleting"}
Stages      == {"unused", "registered", "gone", "failed"} \cup Building \cup TearingDown
Alive       == {"running", "terminating", "doomed"}

TypeOK ==
  /\ open \subseteq Tabs
  /\ closing \subseteq Tabs
  /\ sessions \in [Tabs -> Sessions \cup {NoSession}]
  /\ call \in {"idle", "spawning", "replacing", "unloading", "exited"}
  /\ focus \in Sessions \cup {NoSession}
  /\ owner \in [Sessions -> Tabs \cup {NoTab}]
  /\ stage \in [Sessions -> Stages]
  /\ dir \in [Sessions -> {"none", "present", "removed"}]
  /\ proxy \in [Sessions -> {"none", "idle", "busy", "stopped"}]
  /\ wrapper \in [Sessions -> {"none", "zombie", "reaped"} \cup Alive]

Init ==
  /\ open = Tabs
  /\ closing = {}
  /\ sessions = [t \in Tabs |-> NoSession]
  /\ call = "idle"
  /\ focus = NoSession
  /\ owner = [s \in Sessions |-> NoTab]
  /\ stage = [s \in Sessions |-> "unused"]
  /\ dir = [s \in Sessions |-> "none"]
  /\ proxy = [s \in Sessions |-> "none"]
  /\ wrapper = [s \in Sessions |-> "none"]

Advance(s, from, to) ==
  /\ stage[s] = from
  /\ stage' = [stage EXCEPT ![s] = to]

(* ProcessGroup::is_alive is a waitpid(WNOHANG): a child that has exited   *)
(* is reaped by asking, and a reaped one is no child any more.             *)
IsAlive(s)  == wrapper[s] \in Alive
Reaped(S) ==
  [s \in Sessions |->
     IF s \in S /\ wrapper[s] = "zombie" THEN "reaped" ELSE wrapper[s]]

-----------------------------------------------------------------------------
(* PYTHONSHELL: ensure_session *)

HasLiveSession(t) == sessions[t] \in Sessions /\ IsAlive(sessions[t])

EnsureFindsLive(t) ==
  /\ call = "idle"
  /\ t \in open
  /\ HasLiveSession(t)
  /\ UNCHANGED vars

(* Slip: spawn without asking the table first.                             *)
EnsureSpawnsUnasked(t, s) ==
  /\ call = "idle"
  /\ t \in open
  /\ Advance(s, "unused", "opening")
  /\ call' = "spawning"
  /\ focus' = s
  /\ owner' = [owner EXCEPT ![s] = t]
  /\ UNCHANGED <<host, sessions, dir, proxy, wrapper>>

EnsureSpawns(t, s) ==
  /\ call = "idle"
  /\ t \in open
  /\ ~HasLiveSession(t)
  /\ Advance(s, "unused", "opening")
  /\ call' = "spawning"
  /\ focus' = s
  /\ owner' = [owner EXCEPT ![s] = t]
  /\ wrapper' = Reaped({sessions[t]})
  /\ UNCHANGED <<host, sessions, dir, proxy>>

Spawning(s, from, to) ==
  /\ call = "spawning"
  /\ focus = s
  /\ Advance(s, from, to)
  /\ UNCHANGED <<host, sessions, owner>>

(* The host has a V4 view of a tab exactly while the tab is open.          *)
OpenView(s) ==
  /\ owner[s] \in open
  /\ Spawning(s, "opening", "viewed")
  /\ UNCHANGED <<call, focus, dir, proxy, wrapper>>

CreateDir(s) ==
  /\ Spawning(s, "viewed", "dirMade")
  /\ dir' = [dir EXCEPT ![s] = "present"]
  /\ UNCHANGED <<call, focus, proxy, wrapper>>

(* Without a plugin request sender the session has no proxy thread.        *)
StartProxy(s) ==
  /\ Spawning(s, "dirMade", "listening")
  /\ \E p \in {"none", "idle"} : proxy' = [proxy EXCEPT ![s] = p]
  /\ UNCHANGED <<call, focus, dir, wrapper>>

SpawnWrapper(s) ==
  /\ Spawning(s, "listening", "waiting")
  /\ wrapper' = [wrapper EXCEPT ![s] = "running"]
  /\ UNCHANGED <<call, focus, dir, proxy>>

(* The wait loop ends at once when the wrapper is alive and after 500 ms   *)
(* when it is not; both ways spawn returns Ok.                             *)
WaitForWrapper(s) ==
  /\ Spawning(s, "waiting", "ready")
  /\ wrapper' = Reaped({s})
  /\ UNCHANGED <<call, focus, dir, proxy>>

(* Every ? of ReplSession::spawn.  What was made before it stays: neither  *)
(* SessionDir nor the proxy's JoinHandle does anything when dropped.       *)
SpawnFails(s) ==
  /\ \/ /\ owner[s] \notin open \/ "view" \in Faults
        /\ Spawning(s, "opening", "failed")
        /\ UNCHANGED dir
     \/ /\ "dir" \in Faults
        /\ Spawning(s, "viewed", "failed")
        /\ \E d \in {"none", "present"} : dir' = [dir EXCEPT ![s] = d]
     \/ /\ "listener" \in Faults
        /\ Spawning(s, "dirMade", "failed")
        /\ UNCHANGED dir
     \/ /\ "wrapper" \in Faults
        /\ Spawning(s, "listening", "failed")
        /\ UNCHANGED dir
  /\ call' = "idle"
  /\ focus' = NoSession
  /\ UNCHANGED <<proxy, wrapper>>

(* Slip: the replaced session is forgotten instead of dropped.             *)
InsertForgetsOld(s) ==
  /\ call = "spawning"
  /\ focus = s
  /\ Advance(s, "ready", "registered")
  /\ sessions' = [sessions EXCEPT ![owner[s]] = s]
  /\ call' = "idle"
  /\ focus' = NoSession
  /\ UNCHANGED <<host, owner, dir, proxy, wrapper>>

(* HashMap::insert hands back the session it replaces, which is dropped at *)
(* the end of the statement, still under the lock.                         *)
Insert(s) ==
  LET t == owner[s]
      old == sessions[t]
  IN /\ call = "spawning"
     /\ focus = s
     /\ stage[s] = "ready"
     /\ sessions' = [sessions EXCEPT ![t] = s]
     /\ stage' = [r \in Sessions |->
                    IF r = s THEN "registered"
                    ELSE IF r = old THEN "dropping" ELSE stage[r]]
     /\ call' = IF old = NoSession THEN "idle" ELSE "replacing"
     /\ focus' = old
     /\ UNCHANGED <<host, owner, dir, proxy, wrapper>>

DropReturns ==
  /\ call = "replacing"
  /\ stage[focus] = "gone"
  /\ call' = "idle"
  /\ focus' = NoSession
  /\ UNCHANGED <<host, sessions, owner, stage, dir, proxy, wrapper>>

-----------------------------------------------------------------------------
(* Notifications and unload *)

TakeFromTable(t) ==
  /\ t \in closing
  /\ closing' = closing \ {t}
  /\ sessions' = [sessions EXCEPT ![t] = NoSession]
  /\ UNCHANGED <<open, call, focus, owner, dir, proxy, wrapper>>

DropDetached(t) ==
  stage' = [s \in Sessions |-> IF s = sessions[t] THEN "dropping" ELSE stage[s]]

(* Slips: run in the middle of another call; use get where remove is       *)
(* meant; never start the thread that drops the session; keep no entry at  *)
(* all where the table is read again.                                      *)
TabClosedReentrant(t) == TakeFromTable(t) /\ DropDetached(t)

TabClosedKeepsEntry(t) ==
  /\ call = "idle"
  /\ t \in closing
  /\ closing' = closing \ {t}
  /\ DropDetached(t)
  /\ UNCHANGED <<open, plugin, owner, dir, proxy, wrapper>>

TabClosedShrinksTable(t) ==
  /\ call = "idle"
  /\ t \in closing
  /\ closing' = closing \ {t}
  /\ sessions' = [u \in DOMAIN sessions \ {t} |-> sessions[u]]
  /\ DropDetached(t)
  /\ UNCHANGED <<open, call, focus, owner, dir, proxy, wrapper>>

(* on_notification(DocumentTabClosed): the removed session is dropped on a *)
(* detached thread, so the call itself waits for nothing.                  *)
TabClosed(t) == call = "idle" /\ TakeFromTable(t) /\ DropDetached(t)

(* Drop for PythonReplPlugin: remove and drop the sessions one at a time.  *)
BeginUnload ==
  /\ call = "idle"
  /\ call' = "unloading"
  /\ UNCHANGED <<host, sessions, focus, owner, stage, dir, proxy, wrapper>>

DropIsDone == \A s \in Sessions : focus = s => stage[s] = "gone"

UnloadNext(t) ==
  /\ call = "unloading"
  /\ DropIsDone
  /\ sessions[t] \in Sessions
  /\ focus' = sessions[t]
  /\ sessions' = [sessions EXCEPT ![t] = NoSession]
  /\ stage' = [stage EXCEPT ![sessions[t]] = "dropping"]
  /\ UNCHANGED <<host, call, owner, dir, proxy, wrapper>>

(* The runner process ends with the plugin: detached threads and proxies   *)
(* end with it, wherever they are; wrapper processes do not.               *)
UnloadDone ==
  /\ call = "unloading"
  /\ DropIsDone
  /\ \A t \in Tabs : sessions[t] = NoSession
  /\ call' = "exited"
  /\ focus' = NoSession
  /\ proxy' = [s \in Sessions |-> IF proxy[s] = "none" THEN "none" ELSE "stopped"]
  /\ wrapper' = Reaped(Sessions)
  /\ UNCHANGED <<host, sessions, owner, stage, dir>>

-----------------------------------------------------------------------------
(* ReplSession::shutdown, on whichever thread drops the session *)

ShuttingDown(s, from, to) ==
  /\ call # "exited"
  /\ Advance(s, from, to)
  /\ UNCHANGED <<host, plugin, owner>>

Sigterm(s) ==
  /\ ShuttingDown(s, "dropping", "signalled")
  /\ wrapper' = [wrapper EXCEPT ![s] = IF @ = "running" THEN "terminating" ELSE @]
  /\ UNCHANGED <<dir, proxy>>

(* One poll of shutdown_group finds the leader dead.                       *)
FindsDead(s) ==
  /\ ~IsAlive(s)
  /\ ShuttingDown(s, "signalled", "joining")
  /\ wrapper' = Reaped({s})
  /\ UNCHANGED <<dir, proxy>>

(* Slip: poll until the leader is dead, with no limit.                     *)
SigkillNever(s) == ~IsAlive(s) /\ ShuttingDown(s, "signalled", "joining") /\ UNCHANGED <<dir, proxy, wrapper>>

(* The 3 s pass: SIGKILL, and no further wait for the process.             *)
Sigkill(s) ==
  /\ ShuttingDown(s, "signalled", "joining")
  /\ wrapper' = [wrapper EXCEPT ![s] = IF @ \in Alive THEN "doomed" ELSE @]
  /\ UNCHANGED <<dir, proxy>>

(* Slip: tell the proxy to stop, but do not join it.                       *)
JoinSkipped(s) ==
  /\ ShuttingDown(s, "joining", "deleting")
  /\ UNCHANGED <<dir, proxy, wrapper>>

JoinProxy(s) ==
  /\ proxy[s] \in {"none", "stopped"}
  /\ ShuttingDown(s, "joining", "deleting")
  /\ UNCHANGED <<dir, proxy, wrapper>>

(* SessionDir::delete succeeds at one of its ten attempts, or gives up.    *)
DeleteDir(s) ==
  /\ ShuttingDown(s, "deleting", "gone")
  /\ \/ dir' = [dir EXCEPT ![s] = "removed"]
     \/ "delete" \in Faults /\ UNCHANGED dir
  /\ UNCHANGED <<proxy, wrapper>>

-----------------------------------------------------------------------------
(* Environment: host, request proxies, wrapper processes *)

CloseTab(t) ==
  /\ call # "exited"
  /\ t \in open
  /\ open' = open \ {t}
  /\ closing' = closing \cup {t}
  /\ UNCHANGED <<plugin, owner, stage, dir, proxy, wrapper>>

(* A REPL sends a host request through its proxy, which may be after its   *)
(* wrapper has died; the thread is taken until the host answers.           *)
ProxyForwards(s) ==
  /\ proxy[s] = "idle"
  /\ wrapper[s] # "none"
  /\ proxy' = [proxy EXCEPT ![s] = "busy"]
  /\ UNCHANGED <<host, plugin, owner, stage, dir, wrapper>>

HostAnswers(s) ==
  /\ proxy[s] = "busy"
  /\ proxy' = [proxy EXCEPT ![s] = "idle"]
  /\ UNCHANGED <<host, plugin, owner, stage, dir, wrapper>>

(* Between requests the proxy notices its shutdown message, or that the    *)
(* failed spawn dropped the sending end.                                   *)
ProxyStops(s) ==
  /\ stage[s] \in {"joining", "failed"}
  /\ proxy[s] = "idle"
  /\ proxy' = [proxy EXCEPT ![s] = "stopped"]
  /\ UNCHANGED <<host, plugin, owner, stage, dir, wrapper>>

WrapperExits(s) ==
  /\ IsAlive(s)
  /\ wrapper' = [wrapper EXCEPT ![s] = IF call = "exited" THEN "reaped" ELSE "zombie"]
  /\ UNCHANGED <<host, plugin, owner, stage, dir, proxy>>

-----------------------------------------------------------------------------
SpawnStep(s) ==
  \/ OpenView(s) \/ CreateDir(s) \/ StartProxy(s) \/ SpawnWrapper(s)
  \/ WaitForWrapper(s) \/ SpawnFails(s) \/ Insert(s)

ShutdownStep(s) ==
  Sigterm(s) \/ FindsDead(s) \/ Sigkill(s) \/ JoinProxy(s) \/ DeleteDir(s)

UnloadStep == (\E t \in Tabs : UnloadNext(t)) \/ UnloadDone

Next ==
  \/ \E t \in Tabs : EnsureFindsLive(t) \/ TabClosed(t) \/ CloseTab(t)
  \/ \E t \in Tabs, s \in Sessions : EnsureSpawns(t, s)
  \/ \E s \in Sessions : SpawnStep(s) \/ ShutdownStep(s)
  \/ \E s \in Sessions :
       ProxyForwards(s) \/ HostAnswers(s) \/ ProxyStops(s) \/ WrapperExits(s)
  \/ DropReturns \/ BeginUnload \/ UnloadStep

(* Threads of the plugin run; the host delivers notifications and answers  *)
(* every request it was sent; a proxy looks at its channel between any two *)
(* requests, however many come.  Nothing makes a user, a wrapper or the    *)
(* host's own decisions happen.                                            *)
Fairness ==
  /\ \A s \in Sessions :
       /\ WF_vars(SpawnStep(s))
       /\ WF_vars(ShutdownStep(s))
       /\ WF_vars(HostAnswers(s))
       /\ SF_vars(ProxyStops(s))
  /\ \A t \in Tabs : WF_vars(TabClosed(t))
  /\ WF_vars(DropReturns)
  /\ WF_vars(UnloadStep)

Spec == Init /\ [][Next]_vars /\ Fairness

-----------------------------------------------------------------------------
(* Properties *)

(* The table, the owners and the life stages tell one story: a session is  *)
(* in the table exactly while it is registered, under the tab it was       *)
(* spawned for, and a session under construction is the focus of a spawn.  *)
TableAgrees ==
  /\ \A t \in Tabs, s \in Sessions :
       sessions[t] = s <=> stage[s] = "registered" /\ owner[s] = t
  /\ \A s \in Sessions :
       stage[s] \in Building => call = "spawning" /\ focus = s

(* PYTHONSHELL gives a tab at most one running wrapper, even when the old  *)
(* one dies between the liveness check and the insertion, or is still      *)
(* being killed for a tab that has closed.                                 *)
OneWrapperPerTab ==
  \A r, s \in Sessions :
    owner[r] = owner[s] /\ IsAlive(r) /\ IsAlive(s) => r = s

(* While the plugin is loaded, whatever a session still holds belongs to   *)
(* a value that will be dropped: a failed spawn is the one way to lose a   *)
(* directory or a proxy, an exhausted delete the one other way to lose a   *)
(* directory.                                                              *)
Owned(s) ==
  \/ stage[s] \in Building /\ focus = s
  \/ \E t \in Tabs : sessions[t] = s
  \/ stage[s] \in TearingDown

NothingUnowned ==
  call # "exited" =>
    \A s \in Sessions :
      /\ wrapper[s] \in {"running", "terminating"} => Owned(s)
      /\ proxy[s] \in {"idle", "busy"} => Owned(s) \/ stage[s] = "failed"
      /\ dir[s] = "present" =>
           \/ Owned(s)
           \/ stage[s] = "failed"
           \/ stage[s] = "gone" /\ "delete" \in Faults

(* shutdown takes the directory away last: by then the wrapper is dead or  *)
(* has been sent SIGKILL, and the proxy thread has been joined.            *)
DirOutlivesItsUsers ==
  \A s \in Sessions :
    dir[s] = "removed" => /\ wrapper[s] \in {"doomed", "zombie", "reaped"}
                          /\ proxy[s] \in {"none", "stopped"}

(* A closed tab has a session only until its notification is handled, also *)
(* when it closes in the middle of the spawn.                              *)
NoSessionForClosedTab ==
  \A t \in Tabs : sessions[t] \in Sessions => t \in open \cup closing

(* When the plugin has unloaded, every session that was in its table has   *)
(* been killed and its directory removed: what survives was never          *)
(* registered, or sits on a detached thread that the exit cut off.         *)
UnloadReleasesTable ==
  call = "exited" =>
    \A s \in Sessions :
      stage[s] \in {"unused", "failed", "gone"} \cup (IF owner[s] \in open THEN {} ELSE TearingDown)

(* A session leaves the table only when its wrapper is dead, its tab is    *)
(* closed or the plugin unloads: re-running PYTHONSHELL never costs the    *)
(* user a live REPL.                                                       *)
LiveSessionKept ==
  [][\A t \in Tabs :
       sessions[t] \in Sessions /\ sessions'[t] # sessions[t]
         => ~IsAlive(sessions[t]) \/ t \in closing \/ call = "unloading"]_vars

(* Every call into the plugin returns: a spawn ends, dropping a replaced   *)
(* session ends although its wrapper may ignore SIGTERM and its proxy may  *)
(* be waiting for the host, and so does the unload.                        *)
CallsReturn == (call # "idle") ~> (call \in {"idle", "exited"})

(* The refinement: what of this state the promise to the user is about.    *)
ContractStatus(s) ==
  CASE stage[s] \in Building \cup {"unused"} -> "fresh"
    [] stage[s] = "registered" -> IF IsAlive(s) THEN "live" ELSE "dead"
    [] stage[s] \in TearingDown -> IF call = "exited" THEN "abandoned" ELSE "retiring"
    [] stage[s] = "gone" -> "released"
    [] stage[s] = "failed" -> "abandoned"

Contract ==
  INSTANCE ReplContract WITH
    up <- call # "exited",
    current <- sessions,
    status <- [s \in Sessions |-> ContractStatus(s)]

(* Every behaviour of the plugin, the released-eventually part included,   *)
(* is one the contract allows.                                             *)
ImplementsContract == Contract!Spec

(* What outlives the plugin.  A directory is left by a spawn that failed,  *)
(* by a detached shutdown that the exit cut off, or by an exhausted delete;*)
(* a wrapper that was not sent SIGKILL, by such a shutdown alone.          *)
CutOff(s) == stage[s] \in TearingDown /\ owner[s] \notin open

SurvivorsExplained ==
  call = "exited" =>
    \A s \in Sessions :
      /\ dir[s] = "present" =>
           stage[s] = "failed" \/ CutOff(s) \/ (stage[s] = "gone" /\ "delete" \in Faults)
      /\ wrapper[s] \in {"running", "terminating"} => CutOff(s)

(* README.md:405-406, "These directories are removed when the document tab *)
(* closes or when OpenCADStudio shuts down."                               *)
DirsRemovedAtExit ==
  call = "exited" => \A s \in Sessions : dir[s] # "present"

(* repl.rs:134-136 waits "for an immediate wrapper crash": a spawn that    *)
(* ends well has a wrapper that lived to the end of the wait.              *)
SpawnNoticesCrash ==
  [][\A s \in Sessions :
       stage[s] = "waiting" /\ stage'[s] = "ready" => IsAlive(s)]_vars
=============================================================================
