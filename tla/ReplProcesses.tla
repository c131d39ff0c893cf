---------------------------- MODULE ReplProcesses ----------------------------
(***************************************************************************)
(* The processes behind one tab's REPL on Unix: the wrapper                *)
(* (src/templates/repl_wrapper.py), the terminal it starts, the Python     *)
(* REPL inside that terminal, and the plugin's only handle on them, a      *)
(* process-group id (src/src/platform.rs).  ReplSessions sees a wrapper    *)
(* that is alive or dead; here the signals, the handlers, the reaping and  *)
(* the reuse of process ids that stand behind that are in view.            *)
(*                                                                         *)
(* Terminals behave in four ways:                                          *)
(*   "window"    the started process is the window (xterm, konsole, ...)   *)
(*   "stubborn"  the same, but it may sit on a SIGTERM for ever            *)
(*   "client"    it hands the window to a server and exits                 *)
(*               (gnome-terminal without --wait)                           *)
(*   "script"    macOS Terminal.app opens a script; no process is kept     *)
(*                                                                         *)
(* Sessions and Pids are pools: they bound the spawns and the ids.         *)
(***************************************************************************)
CONSTANTS Sessions, NoSession, Pids, NoPid, Terminals, Faults

ASSUME ProcessAssumption ==
  /\ NoSession \notin Sessions
  /\ NoPid \notin Pids
  /\ Terminals \subseteq {"window", "stubborn", "client", "script"}
  /\ Faults \subseteq {"crash"}

VARIABLES
  tab,       \* "open", or "closed" for ever
  pc,        \* what the plugin is doing for the tab
  current,   \* the session in the plugin's table, or NoSession
  focus,     \* the session a call starts or stops, or NoSession
  pid,       \* session -> its ProcessGroup: pid and pgid of the wrapper
  wrapper,   \* session -> the wrapper process
  signal,    \* session -> the last fatal signal sent to the wrapper
  kind,      \* session -> how its terminal behaves, "none" before launch
  terminal,  \* session -> the process Popen started, a group member
  repl,      \* session -> the Python REPL, in a session of its own
  dir,       \* session -> its temp directory
  foreign    \* process groups of others that hold an id of the pool

plugin    == <<tab, pc, current, focus, dir>>
processes == <<wrapper, signal, kind, terminal, repl>>
vars      == <<tab, pc, current, focus, pid, wrapper, signal, kind, terminal,
               repl, dir, foreign>>

Alive  == {"booting", "launched", "waiting"}
Gone   == {"none", "dead"}

TypeOK ==
  /\ tab \in {"open", "closed"}
  /\ pc \in {"idle", "starting", "stopping", "polling", "expired", "deleting"}
  /\ current \in Sessions \cup {NoSession}
  /\ focus \in Sessions \cup {NoSession}
  /\ pid \in [Sessions -> Pids \cup {NoPid}]
  /\ wrapper \in [Sessions -> {"none", "zombie", "reaped"} \cup Alive]
  /\ signal \in [Sessions -> {"none", "term", "kill", "abort"}]
  /\ kind \in [Sessions -> {"none"} \cup Terminals]
  /\ terminal \in [Sessions -> {"running", "asked", "killed"} \cup Gone]
  /\ repl \in [Sessions -> {"running"} \cup Gone]
  /\ dir \in [Sessions -> {"none", "present", "removed"}]
  /\ foreign \subseteq Pids

Init ==
  /\ tab = "open"
  /\ pc = "idle"
  /\ current = NoSession
  /\ focus = NoSession
  /\ pid = [s \in Sessions |-> NoPid]
  /\ wrapper = [s \in Sessions |-> "none"]
  /\ signal = [s \in Sessions |-> "none"]
  /\ kind = [s \in Sessions |-> "none"]
  /\ terminal = [s \in Sessions |-> "none"]
  /\ repl = [s \in Sessions |-> "none"]
  /\ dir = [s \in Sessions |-> "none"]
  /\ foreign = {}

(* Slip: a reaped child is forgotten altogether.                           *)
ReapedForgets(S) ==
  [s \in {r \in Sessions : r \notin S \/ wrapper[r] # "zombie"} |-> wrapper[s]]

IsAlive(s) == wrapper[s] \in Alive
Reaped(S)  ==
  [s \in Sessions |->
     IF s \in S /\ wrapper[s] = "zombie" THEN "reaped" ELSE wrapper[s]]

(* An id is held while its leader is unreaped or its group has a member;   *)
(* w stands for the wrappers of the state that is asked about.             *)
Holds(w, s, p) ==
  /\ pid[s] = p
  /\ w[s] \in Alive \cup {"zombie"} \/ terminal[s] \notin Gone
FreePids(w) == {p \in Pids \ foreign : \A s \in Sessions : ~Holds(w, s, p)}

-----------------------------------------------------------------------------
(* The plugin: one tab's calls run one after the other *)

HasLiveSession == \E s \in Sessions : current = s /\ IsAlive(s)

(* Slip: spawn without asking whether the tab has a live session.          *)
SpawnUnasked(s, p) ==
  /\ pc = "idle"
  /\ tab = "open"
  /\ wrapper[s] = "none"
  /\ p \in FreePids(wrapper)
  /\ pc' = "starting"
  /\ focus' = s
  /\ pid' = [pid EXCEPT ![s] = p]
  /\ wrapper' = [wrapper EXCEPT ![s] = "booting"]
  /\ dir' = [dir EXCEPT ![s] = "present"]
  /\ UNCHANGED <<tab, current, signal, kind, terminal, repl, foreign>>

(* PYTHONSHELL up to the fork.  The liveness check reaps the dead wrapper  *)
(* it finds, so its id is free again before the new wrapper gets one.      *)
EnsureSpawns(s, p) ==
  /\ pc = "idle"
  /\ tab = "open"
  /\ ~HasLiveSession
  /\ wrapper[s] = "none"
  /\ p \in FreePids(Reaped({current}))
  /\ pc' = "starting"
  /\ focus' = s
  /\ pid' = [pid EXCEPT ![s] = p]
  /\ wrapper' = [Reaped({current}) EXCEPT ![s] = "booting"]
  /\ dir' = [dir EXCEPT ![s] = "present"]
  /\ UNCHANGED <<tab, current, signal, kind, terminal, repl, foreign>>

(* Any ? of ReplSession::spawn: the dead session stays in the table.       *)
SpawnFails ==
  /\ pc = "idle"
  /\ tab = "open"
  /\ ~HasLiveSession
  /\ wrapper' = Reaped({current})
  /\ UNCHANGED <<plugin, pid, signal, kind, terminal, repl, foreign>>

(* The start-up poll, then the insertion; a replaced session is dropped.   *)
Register ==
  /\ pc = "starting"
  /\ wrapper' = Reaped({focus})
  /\ current' = focus
  /\ focus' = current
  /\ pc' = IF current = NoSession THEN "idle" ELSE "stopping"
  /\ UNCHANGED <<tab, pid, signal, kind, terminal, repl, dir, foreign>>

(* Slip: no signal for a session whose wrapper is known to be dead.        *)
CloseSkipsDead ==
  /\ pc = "idle"
  /\ tab = "open"
  /\ tab' = "closed"
  /\ current' = NoSession
  /\ focus' = current
  /\ pc' = IF current = NoSession THEN "idle"
           ELSE IF HasLiveSession THEN "stopping" ELSE "deleting"
  /\ UNCHANGED <<pid, processes, dir, foreign>>

(* The tab closes or the plugin unloads: the session is dropped.           *)
Close ==
  /\ pc = "idle"
  /\ tab = "open"
  /\ tab' = "closed"
  /\ current' = NoSession
  /\ focus' = current
  /\ pc' = IF current = NoSession THEN "idle" ELSE "stopping"
  /\ UNCHANGED <<pid, processes, dir, foreign>>

(* kill(-pgid, sig) reaches every member of whatever group has that id;    *)
(* the REPL has a session of its own and is not among them.                *)
SignalWrappers(p, sig) ==
  [s \in Sessions |->
     IF Holds(wrapper, s, p) /\ IsAlive(s) /\ signal[s] # "kill" THEN sig ELSE signal[s]]
SignalTerminals(p, from, to) ==
  [s \in Sessions |->
     IF Holds(wrapper, s, p) /\ terminal[s] \in from THEN to ELSE terminal[s]]

Stopping(from, to) ==
  /\ pc = from
  /\ pc' = to
  /\ UNCHANGED <<tab, current, pid, kind, repl, foreign>>

(* Slip: signal the wrapper alone, kill(pid) where kill(-pgid) is meant.   *)
SigtermLeaderOnly ==
  /\ Stopping("stopping", "polling")
  /\ signal' = SignalWrappers(pid[focus], "term")
  /\ UNCHANGED <<focus, wrapper, terminal, dir>>

Sigterm ==
  /\ Stopping("stopping", "polling")
  /\ signal' = SignalWrappers(pid[focus], "term")
  /\ terminal' = SignalTerminals(pid[focus], {"running"}, "asked")
  /\ UNCHANGED <<focus, wrapper, dir>>

(* Slip: the poll that reaps the wrapper falls through to the SIGKILL.     *)
FindsDeadFallsThrough ==
  /\ Stopping("polling", "expired")
  /\ ~IsAlive(focus)
  /\ wrapper' = Reaped({focus})
  /\ UNCHANGED <<focus, signal, terminal, dir>>

FindsDead ==
  /\ Stopping("polling", "deleting")
  /\ ~IsAlive(focus)
  /\ wrapper' = Reaped({focus})
  /\ UNCHANGED <<focus, signal, terminal, dir>>

(* The last poll of the 3 s finds the wrapper alive; it may die before the *)
(* SIGKILL, but nobody reaps it in between.                                *)
Expires ==
  /\ Stopping("polling", "expired")
  /\ IsAlive(focus)
  /\ UNCHANGED <<focus, wrapper, signal, terminal, dir>>

Sigkill ==
  /\ Stopping("expired", "deleting")
  /\ signal' = SignalWrappers(pid[focus], "kill")
  /\ terminal' = SignalTerminals(pid[focus], {"running", "asked"}, "killed")
  /\ UNCHANGED <<focus, wrapper, dir>>

DeleteDir ==
  /\ Stopping("deleting", "idle")
  /\ dir' = [dir EXCEPT ![focus] = "removed"]
  /\ focus' = NoSession
  /\ UNCHANGED <<wrapper, signal, terminal>>

-----------------------------------------------------------------------------
(* repl_wrapper.py *)

(* Until the handlers are installed SIGTERM has its default action, so a   *)
(* signalled wrapper takes no further step of its program.                 *)
Runs(s, from, to) ==
  /\ wrapper[s] = from
  /\ wrapper' = [wrapper EXCEPT ![s] = to]
  /\ UNCHANGED <<plugin, pid, foreign, repl>>

(* No terminal emulator, or an exception before Popen.                     *)
NoTerminal(s) ==
  /\ signal[s] = "none"
  /\ Runs(s, "booting", "zombie")
  /\ UNCHANGED <<signal, kind, terminal>>

Launch(s) ==
  /\ signal[s] = "none"
  /\ Runs(s, "booting", "launched")
  /\ \E k \in Terminals :
       /\ kind' = [kind EXCEPT ![s] = k]
       /\ terminal' = [terminal EXCEPT ![s] = IF k = "script" THEN "none" ELSE "running"]
  /\ UNCHANGED signal

InstallHandlers(s) ==
  /\ signal[s] = "none"
  /\ kind[s] # "script"
  /\ Runs(s, "launched", "waiting")
  /\ UNCHANGED <<signal, kind, terminal>>

(* Neither Proc nor _DummyProcess has the .pid that main logs: the wrapper *)
(* raises AttributeError, with the REPL up, coming up or never coming.     *)
LogsNoPid(s) ==
  /\ signal[s] = "none"
  /\ kind[s] = "script"
  /\ Runs(s, "launched", "zombie")
  /\ UNCHANGED <<signal, kind, terminal>>

(* The handler: proc.terminate(), proc.kill(), sys.exit(0).                *)
Handle(s) ==
  /\ signal[s] = "term"
  /\ Runs(s, "waiting", "zombie")
  /\ terminal' = [terminal EXCEPT ![s] = IF @ \in Gone THEN @ ELSE "killed"]
  /\ UNCHANGED <<signal, kind>>

(* Slip: give up waiting for the terminal.                                 *)
WaitGivesUp(s) ==
  /\ Runs(s, "waiting", "zombie")
  /\ UNCHANGED <<signal, kind, terminal>>

WaitReturns(s) ==
  /\ terminal[s] = "dead"
  /\ Runs(s, "waiting", "zombie")
  /\ UNCHANGED <<signal, kind, terminal>>

Die(s) ==
  /\ \/ signal[s] = "kill"
     \/ signal[s] = "term" /\ wrapper[s] # "waiting"
  /\ IsAlive(s)
  /\ Runs(s, wrapper[s], "zombie")
  /\ UNCHANGED <<signal, kind, terminal>>

(* Killed from outside, for want of memory say.                            *)
Crash(s) ==
  /\ "crash" \in Faults
  /\ IsAlive(s)
  /\ Runs(s, wrapper[s], "zombie")
  /\ signal' = [signal EXCEPT ![s] = "abort"]
  /\ UNCHANGED <<kind, terminal>>

-----------------------------------------------------------------------------
(* Terminals, REPLs and the process ids of others *)

ReplBecomes(s, from, to) ==
  /\ repl[s] = from
  /\ repl' = [repl EXCEPT ![s] = to]
  /\ UNCHANGED <<plugin, pid, wrapper, signal, kind, terminal, foreign>>

ReplStarts(s) ==
  /\ \/ kind[s] = "script"
     \/ terminal[s] = "running"
  /\ ReplBecomes(s, "none", "running")

(* The user leaves the REPL.                                               *)
ReplEnds(s) == ReplBecomes(s, "running", "dead")

(* A terminal that is the window takes the pty with it: SIGHUP.            *)
Windowed(s) == kind[s] \in {"window", "stubborn"}
HangUp(s)   == Windowed(s) /\ terminal[s] = "dead" /\ ReplBecomes(s, "running", "dead")

(* A client stays until the server has started the REPL.                   *)
TerminalExits(s) ==
  /\ terminal[s] \notin Gone
  /\ kind[s] = "client" /\ terminal[s] = "running" => repl[s] # "none"
  /\ terminal' = [terminal EXCEPT ![s] = "dead"]
  /\ UNCHANGED <<plugin, pid, wrapper, signal, kind, repl, foreign>>

TerminalMustExit(s) ==
  /\ \/ terminal[s] = "killed"
     \/ terminal[s] = "asked" /\ kind[s] # "stubborn"
     \/ repl[s] = "dead"
     \/ kind[s] = "client"
  /\ TerminalExits(s)

ForeignStarts(p) ==
  /\ p \in FreePids(wrapper)
  /\ foreign' = foreign \cup {p}
  /\ UNCHANGED <<plugin, pid, processes>>

ForeignEnds(p) ==
  /\ p \in foreign
  /\ foreign' = foreign \ {p}
  /\ UNCHANGED <<plugin, pid, processes>>

-----------------------------------------------------------------------------
StopStep == Sigterm \/ FindsDead \/ Expires \/ Sigkill \/ DeleteDir

WrapperStep(s) ==
  Launch(s) \/ InstallHandlers(s) \/ LogsNoPid(s) \/ Handle(s)
            \/ WaitReturns(s) \/ Die(s)

Next ==
  \/ \E s \in Sessions, p \in Pids : EnsureSpawns(s, p)
  \/ SpawnFails \/ Register \/ Close \/ StopStep
  \/ \E s \in Sessions : WrapperStep(s) \/ NoTerminal(s) \/ Crash(s)
  \/ \E s \in Sessions :
       ReplStarts(s) \/ ReplEnds(s) \/ HangUp(s) \/ TerminalExits(s)
  \/ \E p \in Pids : ForeignStarts(p) \/ ForeignEnds(p)

(* Threads and processes run; a terminal that must go goes.                *)
Fairness ==
  /\ WF_vars(Register)
  /\ WF_vars(StopStep)
  /\ \A s \in Sessions :
       WF_vars(WrapperStep(s)) /\ WF_vars(HangUp(s)) /\ WF_vars(TerminalMustExit(s))

Spec == Init /\ [][Next]_vars /\ Fairness

-----------------------------------------------------------------------------
(* Properties *)

(* The REPL's own window has been asked to go, or is gone.                 *)
Ending(s) == Windowed(s) /\ terminal[s] # "running"

(* The SIGKILL that shutdown_group sends blindly, after its last poll,     *)
(* reaches the session it is meant for and nobody else: no poll has freed  *)
(* the id since.                                                           *)
SigkillHitsOwnGroup ==
  pc = "expired" => /\ pid[focus] \notin foreign
                    /\ \A s \in Sessions : Holds(wrapper, s, pid[focus]) <=> s = focus

(* is_alive answers for the wrapper, not for the REPL.  For a terminal     *)
(* that is its own window the answer "dead" is right about the REPL,       *)
(* unless the wrapper was killed from outside.                             *)
DeadMeansOver ==
  \A s \in Sessions :
    Windowed(s) /\ ~IsAlive(s) /\ signal[s] # "abort" /\ repl[s] = "running"
      => Ending(s)

(* However its wrapper died, a REPL the tab no longer has was told to go   *)
(* once the call that replaced or dropped it returns.                      *)
SupersededReplEnding ==
  \A s \in Sessions :
    pc = "idle" /\ s # current /\ Windowed(s) /\ repl[s] = "running" => Ending(s)

(* The directory a REPL runs in and reads is not taken from under it.      *)
DirOutlivesRepl ==
  \A s \in Sessions :
    dir[s] = "removed" /\ Windowed(s) /\ repl[s] = "running" => Ending(s)

(* Once a session is shut down, its REPL ends, without any further help.   *)
StoppedReplEnds ==
  \A s \in Sessions :
    (dir[s] = "removed" /\ kind[s] = "window") ~> (repl[s] # "running")

(* README.md:204-205: "Re-running PYTHONSHELL for the same tab is a no-op  *)
(* while the REPL is still alive."                                         *)
NoOpWhileAlive ==
  [][\A r, s \in Sessions :
       repl[r] = "running" /\ ~Ending(r) => ~(wrapper[s] = "none" /\ wrapper'[s] = "booting")]_vars

(* How far that promise is kept.  A REPL is in use while it runs and its   *)
(* window has not been told to go.  Of the terminals that are their own    *)
(* window, at most one is in use, whichever wrapper died when and whatever *)
(* the plugin is doing, unless a wrapper was killed from outside; and a    *)
(* second REPL starts beside one in use for no other reason.               *)
InUse(s) == repl[s] = "running" /\ ~Ending(s)

OneReplInUse ==
  \A r, s \in Sessions :
    /\ Windowed(r) /\ InUse(r) /\ signal[r] # "abort"
    /\ Windowed(s) /\ InUse(s) /\ signal[s] # "abort"
    => r = s

SecondReplExplained ==
  [][\A r, s \in Sessions :
       InUse(r) /\ wrapper[s] = "none" /\ wrapper'[s] = "booting"
         => ~Windowed(r) \/ (r = current /\ signal[r] = "abort")]_vars

(* The same promise ReplSessions keeps, for one tab, with the wrapper's    *)
(* life told process by process.                                           *)
ContractStatus(s) ==
  CASE wrapper[s] = "none" \/ (pc = "starting" /\ s = focus) -> "fresh"
    [] dir[s] = "removed" -> "released"
    [] s = current -> IF IsAlive(s) THEN "live" ELSE "dead"
    [] OTHER -> "retiring"

Contract ==
  INSTANCE ReplContract WITH
    Tabs <- {"tab"},
    up <- TRUE,
    current <- [t \in {"tab"} |-> current],
    status <- [s \in Sessions |-> ContractStatus(s)]

(* Every behaviour of the process model keeps the contract.                *)
ImplementsContract == Contract!Spec
=============================================================================
