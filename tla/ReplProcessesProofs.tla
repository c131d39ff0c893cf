------------------------ MODULE ReplProcessesProofs ------------------------
(***************************************************************************)
(* Machine-checked invariance proofs for ReplProcesses, for every pool of  *)
(* sessions and process ids, every mix of terminals and any crash.         *)
(***************************************************************************)
EXTENDS ReplProcesses, TLAPS

USE DEF Alive, Gone

-----------------------------------------------------------------------------
(* The plugin's bookkeeping *)

(* The session a call works on is not the one in the table, and both have  *)
(* been spawned and still have their directory.                            *)
FocusKnown ==
  /\ pc = "idle" <=> focus = NoSession
  /\ focus \in Sessions => focus # current
  /\ \A s \in Sessions :
       s \in {focus, current} => wrapper[s] # "none" /\ dir[s] = "present"

(* Nothing of a session exists before its wrapper does, and no terminal    *)
(* before the wrapper has launched it.                                     *)
NothingEarly ==
  \A s \in Sessions :
    /\ wrapper[s] = "none" => signal[s] = "none" /\ dir[s] = "none" /\ pid[s] = NoPid
    /\ wrapper[s] \in {"none", "booting"} => kind[s] = "none" /\ terminal[s] = "none"
    /\ wrapper[s] # "none" => pid[s] \in Pids

BookInv == TypeOK /\ FocusKnown /\ NothingEarly

LEMMA BookInit == Init => BookInv
BY ProcessAssumption DEF Init, BookInv, TypeOK, FocusKnown, NothingEarly

LEMMA BookStep == BookInv /\ [Next]_vars => BookInv'
<1> SUFFICES ASSUME BookInv, [Next]_vars PROVE BookInv'
  OBVIOUS
<1> USE ProcessAssumption DEF BookInv, TypeOK, FocusKnown, NothingEarly, plugin, processes
<1>1. ASSUME NEW s \in Sessions, NEW p \in Pids, EnsureSpawns(s, p)
      PROVE  BookInv'
  BY <1>1 DEF EnsureSpawns, Reaped, FreePids
<1>2. CASE SpawnFails \/ Register
  BY <1>2 DEF SpawnFails, Register, Reaped
<1>3. CASE Close
  BY <1>3 DEF Close
<1>4. CASE StopStep
  <2> USE DEF Stopping
  <2>1. CASE Sigterm \/ Sigkill
    BY <2>1 DEF Sigterm, Sigkill, SignalWrappers, SignalTerminals, Holds, IsAlive
  <2>2. CASE FindsDead \/ Expires
    BY <2>2 DEF FindsDead, Expires, Reaped
  <2>3. CASE DeleteDir
    BY <2>3 DEF DeleteDir
  <2>4. QED BY <1>4, <2>1, <2>2, <2>3 DEF StopStep
<1>5. ASSUME NEW s \in Sessions, WrapperStep(s) \/ NoTerminal(s) \/ Crash(s)
      PROVE  BookInv'
  <2> USE DEF Runs
  <2>1. CASE Launch(s)
    BY <2>1 DEF Launch
  <2>2. CASE InstallHandlers(s) \/ LogsNoPid(s) \/ WaitReturns(s) \/ NoTerminal(s)
    BY <2>2 DEF InstallHandlers, LogsNoPid, WaitReturns, NoTerminal
  <2>3. CASE Handle(s)
    BY <2>3 DEF Handle
  <2>4. CASE Die(s) \/ Crash(s)
    BY <2>4 DEF Die, Crash, IsAlive
  <2>5. QED BY <1>5, <2>1, <2>2, <2>3, <2>4 DEF WrapperStep
<1>6. ASSUME NEW s \in Sessions, ReplStarts(s) \/ ReplEnds(s) \/ HangUp(s)
      PROVE  BookInv'
  BY <1>6 DEF ReplStarts, ReplEnds, HangUp, ReplBecomes
<1>7. ASSUME NEW s \in Sessions, TerminalExits(s)
      PROVE  BookInv'
  BY <1>7 DEF TerminalExits
<1>8. ASSUME NEW p \in Pids, ForeignStarts(p) \/ ForeignEnds(p)
      PROVE  BookInv'
  BY <1>8 DEF ForeignStarts, ForeignEnds
<1>9. CASE UNCHANGED vars
  BY <1>9 DEF vars
<1>10. QED BY <1>1, <1>2, <1>3, <1>4, <1>5, <1>6, <1>7, <1>8, <1>9 DEF Next

(* The program keeps its variables in their types.                         *)
THEOREM TypeCorrect == Spec => []TypeOK
<1>1. BookInv => TypeOK
  BY DEF BookInv
<1>2. QED BY <1>1, BookInit, BookStep, PTL DEF Spec

-----------------------------------------------------------------------------
(* Whose group an id names *)

(* An id names one process group, and shutdown_group's last poll before    *)
(* the SIGKILL has not reaped the leader.                                  *)
IdsUnique ==
  /\ \A r, s \in Sessions, p \in Pids : Holds(wrapper, r, p) /\ Holds(wrapper, s, p) => r = s
  /\ \A s \in Sessions, p \in Pids : Holds(wrapper, s, p) => p \notin foreign
  /\ pc = "expired" => \A s \in Sessions : s = focus => wrapper[s] # "reaped"

LEMMA IdsInit == Init => IdsUnique
BY ProcessAssumption DEF Init, IdsUnique, Holds

LEMMA IdsStep == BookInv /\ IdsUnique /\ [Next]_vars => IdsUnique'
<1> SUFFICES ASSUME BookInv, IdsUnique, [Next]_vars PROVE IdsUnique'
  OBVIOUS
<1> USE ProcessAssumption
    DEF BookInv, TypeOK, FocusKnown, NothingEarly, IdsUnique, Holds, plugin, processes
<1>1. ASSUME NEW s \in Sessions, NEW p \in Pids, EnsureSpawns(s, p)
      PROVE  IdsUnique'
  BY <1>1 DEF EnsureSpawns, Reaped, FreePids
<1>2. CASE SpawnFails \/ Register
  BY <1>2 DEF SpawnFails, Register, Reaped
<1>3. CASE Close
  BY <1>3 DEF Close
<1>4. CASE StopStep
  <2> USE DEF Stopping, IsAlive
  <2>1. CASE Sigterm \/ Sigkill
    BY <2>1 DEF Sigterm, Sigkill, SignalWrappers, SignalTerminals
  <2>2. CASE FindsDead \/ Expires
    BY <2>2 DEF FindsDead, Expires, Reaped
  <2>3. CASE DeleteDir
    BY <2>3 DEF DeleteDir
  <2>4. QED BY <1>4, <2>1, <2>2, <2>3 DEF StopStep
<1>5. ASSUME NEW s \in Sessions, WrapperStep(s) \/ NoTerminal(s) \/ Crash(s)
      PROVE  IdsUnique'
  <2> USE DEF Runs, IsAlive
  <2>1. CASE Launch(s)
    BY <2>1 DEF Launch
  <2>2. CASE InstallHandlers(s) \/ LogsNoPid(s) \/ WaitReturns(s) \/ NoTerminal(s)
    BY <2>2 DEF InstallHandlers, LogsNoPid, WaitReturns, NoTerminal
  <2>3. CASE Handle(s)
    BY <2>3 DEF Handle
  <2>4. CASE Die(s) \/ Crash(s)
    BY <2>4 DEF Die, Crash
  <2>5. QED BY <1>5, <2>1, <2>2, <2>3, <2>4 DEF WrapperStep
<1>6. ASSUME NEW s \in Sessions, ReplStarts(s) \/ ReplEnds(s) \/ HangUp(s)
      PROVE  IdsUnique'
  BY <1>6 DEF ReplStarts, ReplEnds, HangUp, ReplBecomes
<1>7. ASSUME NEW s \in Sessions, TerminalExits(s)
      PROVE  IdsUnique'
  BY <1>7 DEF TerminalExits
<1>8. ASSUME NEW p \in Pids, ForeignStarts(p) \/ ForeignEnds(p)
      PROVE  IdsUnique'
  BY <1>8 DEF ForeignStarts, ForeignEnds, FreePids
<1>9. CASE UNCHANGED vars
  BY <1>9 DEF vars
<1>10. QED BY <1>1, <1>2, <1>3, <1>4, <1>5, <1>6, <1>7, <1>8, <1>9 DEF Next

(* SIGKILL reaches the session it is meant for, and nobody else.           *)
THEOREM SigkillCorrect == Spec => []SigkillHitsOwnGroup
<1>1. BookInv /\ IdsUnique => SigkillHitsOwnGroup
  BY ProcessAssumption
     DEF BookInv, TypeOK, FocusKnown, NothingEarly, IdsUnique, SigkillHitsOwnGroup, Holds
<1>2. QED BY <1>1, BookInit, BookStep, IdsInit, IdsStep, PTL DEF Spec

-----------------------------------------------------------------------------
(* What the signals have reached *)

(* A session the plugin has let go of: replaced or dropped earlier, or the *)
(* one being stopped, after the SIGTERM.                                   *)
LetGo(s) ==
  /\ wrapper[s] # "none"
  /\ s # current
  /\ s = focus => pc \in {"polling", "expired", "deleting"}

(* A terminal never comes back from being asked to go, so what has to be   *)
(* shown is that nothing is missed: not the terminal of a signalled        *)
(* wrapper, nor one that outlived its wrapper, nor one still to be         *)
(* launched by a wrapper that SIGTERM has reached but not yet killed.      *)
SignalInv ==
  \A s \in Sessions :
    /\ signal[s] \in {"term", "kill"} => terminal[s] # "running"
    /\ Windowed(s) /\ wrapper[s] \in {"zombie", "reaped"} /\ signal[s] # "abort"
         => terminal[s] # "running"
    /\ LetGo(s) => /\ terminal[s] # "running"
                   /\ IsAlive(s) => signal[s] # "none"
    /\ dir[s] = "removed" => LetGo(s)

LEMMA SignalInit == Init => SignalInv
BY DEF Init, SignalInv, LetGo, Windowed

LEMMA SignalStep == BookInv /\ SignalInv /\ [Next]_vars => SignalInv'
<1> SUFFICES ASSUME BookInv, SignalInv, [Next]_vars PROVE SignalInv'
  OBVIOUS
<1> USE ProcessAssumption
    DEF BookInv, TypeOK, FocusKnown, NothingEarly, SignalInv, LetGo, Windowed, IsAlive,
        plugin, processes
<1>1. ASSUME NEW s \in Sessions, NEW p \in Pids, EnsureSpawns(s, p)
      PROVE  SignalInv'
  BY <1>1 DEF EnsureSpawns, Reaped, FreePids
<1>2. CASE SpawnFails \/ Register
  BY <1>2 DEF SpawnFails, Register, Reaped
<1>3. CASE Close
  BY <1>3 DEF Close
<1>4. CASE StopStep
  <2> USE DEF Stopping
  <2>1. CASE Sigterm
    BY <2>1 DEF Sigterm, SignalWrappers, SignalTerminals, Holds
  <2>2. CASE Sigkill
    BY <2>2 DEF Sigkill, SignalWrappers, SignalTerminals, Holds
  <2>3. CASE FindsDead \/ Expires
    BY <2>3 DEF FindsDead, Expires, Reaped
  <2>4. CASE DeleteDir
    BY <2>4 DEF DeleteDir
  <2>5. QED BY <1>4, <2>1, <2>2, <2>3, <2>4 DEF StopStep
<1>5. ASSUME NEW s \in Sessions, WrapperStep(s) \/ NoTerminal(s) \/ Crash(s)
      PROVE  SignalInv'
  <2> USE DEF Runs
  <2>1. CASE Launch(s)
    BY <2>1 DEF Launch
  <2>2. CASE InstallHandlers(s) \/ LogsNoPid(s) \/ WaitReturns(s) \/ NoTerminal(s)
    BY <2>2 DEF InstallHandlers, LogsNoPid, WaitReturns, NoTerminal
  <2>3. CASE Handle(s)
    BY <2>3 DEF Handle
  <2>4. CASE Die(s) \/ Crash(s)
    BY <2>4 DEF Die, Crash
  <2>5. QED BY <1>5, <2>1, <2>2, <2>3, <2>4 DEF WrapperStep
<1>6. ASSUME NEW s \in Sessions, ReplStarts(s) \/ ReplEnds(s) \/ HangUp(s)
      PROVE  SignalInv'
  BY <1>6 DEF ReplStarts, ReplEnds, HangUp, ReplBecomes
<1>7. ASSUME NEW s \in Sessions, TerminalExits(s)
      PROVE  SignalInv'
  BY <1>7 DEF TerminalExits
<1>8. ASSUME NEW p \in Pids, ForeignStarts(p) \/ ForeignEnds(p)
      PROVE  SignalInv'
  BY <1>8 DEF ForeignStarts, ForeignEnds
<1>9. CASE UNCHANGED vars
  BY <1>9 DEF vars
<1>10. QED BY <1>1, <1>2, <1>3, <1>4, <1>5, <1>6, <1>7, <1>8, <1>9 DEF Next

(* is_alive is right about the REPL of a windowed terminal.                *)
THEOREM DeadCorrect == Spec => []DeadMeansOver
<1>1. BookInv /\ SignalInv => DeadMeansOver
  BY DEF BookInv, TypeOK, NothingEarly, SignalInv, DeadMeansOver, Ending, IsAlive, Windowed
<1>2. QED BY <1>1, BookInit, BookStep, SignalInit, SignalStep, PTL DEF Spec

(* A REPL that was replaced or dropped has been told to go.                *)
THEOREM SupersededCorrect == Spec => []SupersededReplEnding
<1>1. BookInv /\ SignalInv => SupersededReplEnding
  BY ProcessAssumption
     DEF BookInv, TypeOK, FocusKnown, NothingEarly, SignalInv, LetGo, SupersededReplEnding,
         Ending, Windowed
<1>2. QED BY <1>1, BookInit, BookStep, SignalInit, SignalStep, PTL DEF Spec

(* The directory of a REPL goes only after it has been told to go.         *)
THEOREM DirCorrect == Spec => []DirOutlivesRepl
<1>1. SignalInv => DirOutlivesRepl
  BY DEF SignalInv, DirOutlivesRepl, Ending, Windowed
<1>2. QED BY <1>1, BookInit, BookStep, SignalInit, SignalStep, PTL DEF Spec

-----------------------------------------------------------------------------
(* Refinement: the safety part of the contract *)

(* The wrapper a spawn will replace is dead, and stays dead.               *)
ReplacedIsDead == pc = "starting" => \A s \in Sessions : s = current => ~IsAlive(s)

LEMMA ReplacedInit == Init => ReplacedIsDead
BY DEF Init, ReplacedIsDead

LEMMA ReplacedStep == BookInv /\ ReplacedIsDead /\ [Next]_vars => ReplacedIsDead'
<1> SUFFICES ASSUME BookInv, ReplacedIsDead, [Next]_vars PROVE ReplacedIsDead'
  OBVIOUS
<1> USE DEF BookInv, TypeOK, FocusKnown, ReplacedIsDead, IsAlive, plugin, processes
<1>1. ASSUME NEW s \in Sessions, NEW p \in Pids, EnsureSpawns(s, p)
      PROVE  ReplacedIsDead'
  BY <1>1 DEF EnsureSpawns, HasLiveSession, Reaped
<1>2. CASE SpawnFails \/ Register \/ Close
  BY <1>2 DEF SpawnFails, Register, Close, Reaped
<1>3. CASE StopStep
  BY <1>3 DEF StopStep, Stopping, Sigterm, Sigkill, FindsDead, Expires, DeleteDir
<1>4. ASSUME NEW s \in Sessions, WrapperStep(s) \/ NoTerminal(s) \/ Crash(s)
      PROVE  ReplacedIsDead'
  BY <1>4 DEF WrapperStep, Runs, Launch, InstallHandlers, LogsNoPid, WaitReturns, NoTerminal,
              Handle, Die, Crash
<1>5. ASSUME NEW s \in Sessions,
             ReplStarts(s) \/ ReplEnds(s) \/ HangUp(s) \/ TerminalExits(s)
      PROVE  ReplacedIsDead'
  BY <1>5 DEF ReplStarts, ReplEnds, HangUp, ReplBecomes, TerminalExits
<1>6. ASSUME NEW p \in Pids, ForeignStarts(p) \/ ForeignEnds(p)
      PROVE  ReplacedIsDead'
  BY <1>6 DEF ForeignStarts, ForeignEnds
<1>7. CASE UNCHANGED vars
  BY <1>7 DEF vars
<1>8. QED BY <1>1, <1>2, <1>3, <1>4, <1>5, <1>6, <1>7 DEF Next

(* The processes start in the contract's initial state.                    *)
LEMMA ContractInit == Init => Contract!Init
BY ProcessAssumption DEF Init, Contract!Init, ContractStatus

(* The condition of a session the user sees as current.                    *)
Condition(s) == IF IsAlive(s) THEN "live" ELSE "dead"

(* What ContractStatus is in each situation.                               *)
StatusReads ==
  \A s \in Sessions :
    /\ wrapper[s] = "none" \/ (pc = "starting" /\ s = focus) => ContractStatus(s) = "fresh"
    /\ wrapper[s] # "none" /\ ~(pc = "starting" /\ s = focus) =>
         /\ dir[s] = "removed" => ContractStatus(s) = "released"
         /\ dir[s] # "removed" /\ s = current => ContractStatus(s) = Condition(s)
         /\ dir[s] # "removed" /\ s # current => ContractStatus(s) = "retiring"

(* The bookkeeping makes the situations exclude each other.                *)
LEMMA StatusRead == FocusKnown /\ NothingEarly => StatusReads
<1> SUFFICES ASSUME FocusKnown, NothingEarly, NEW s \in Sessions
             PROVE  StatusReads!(s)
  BY DEF StatusReads
<1> USE DEF FocusKnown, NothingEarly
<1>1. CASE wrapper[s] = "none"
  BY <1>1 DEF ContractStatus
<1>2. CASE wrapper[s] # "none" /\ pc = "starting" /\ s = focus
  BY <1>2 DEF ContractStatus
<1>3. CASE wrapper[s] # "none" /\ ~(pc = "starting" /\ s = focus)
  <2>1. CASE dir[s] = "removed"
    BY <1>3, <2>1 DEF ContractStatus
  <2>2. CASE dir[s] # "removed" /\ s = current
    BY <1>3, <2>2 DEF ContractStatus, Condition
  <2>3. CASE dir[s] # "removed" /\ s # current
    BY <1>3, <2>3 DEF ContractStatus
  <2>4. QED BY <1>3, <2>1, <2>2, <2>3
<1>4. QED BY <1>1, <1>2, <1>3

(* A session whose directory is gone is neither worked on nor current.     *)
LEMMA RemovedIsForgotten ==
  FocusKnown => \A s \in Sessions : dir[s] = "removed" => s # focus /\ s # current
BY DEF FocusKnown

(* Every step of the processes is a step of the contract or changes        *)
(* nothing the contract sees.                                              *)
LEMMA ContractStep ==
  BookInv /\ SignalInv /\ ReplacedIsDead /\ [Next]_vars => [Contract!Next]_(Contract!vars)
<1> SUFFICES ASSUME BookInv, SignalInv, ReplacedIsDead, [Next]_vars
             PROVE  Contract!Next \/ UNCHANGED Contract!vars
  OBVIOUS
<1> USE ProcessAssumption
    DEF BookInv, TypeOK, FocusKnown, NothingEarly, Contract!vars, Condition, IsAlive,
        plugin, processes
<1>a. StatusReads /\ StatusReads'
  <2>1. BookInv'
    BY BookStep
  <2>2. QED BY <2>1, StatusRead, PTL DEF BookInv
<1>b. \A s \in Sessions : dir[s] = "removed" => s # focus /\ s # current
  BY RemovedIsForgotten
<1> USE <1>a, <1>b DEF StatusReads
<1>1. ASSUME NEW s \in Sessions, NEW p \in Pids, EnsureSpawns(s, p)
      PROVE  UNCHANGED Contract!vars
  BY <1>1 DEF EnsureSpawns, Reaped
<1>2. CASE SpawnFails
  BY <1>2 DEF SpawnFails, Reaped
<1>3. CASE Register
  <2>1. PICK s \in Sessions : s = focus /\ s # current /\ current' = s
    BY <1>3 DEF Register
  <2> DEFINE new == IF IsAlive(s) THEN "live" ELSE "dead"
  <2>2. /\ pc = "starting" /\ pc' # "starting"
        /\ wrapper[s] # "none" /\ dir[s] = "present" /\ UNCHANGED dir
    BY <1>3, <2>1 DEF Register
  <2>3. \A r \in Sessions : /\ wrapper'[r] = "none" <=> wrapper[r] = "none"
                            /\ wrapper'[r] \in Alive <=> wrapper[r] \in Alive
    BY <1>3 DEF Register, Reaped
  <2>4. ContractStatus(s) = "fresh" /\ ContractStatus(s)' = new
    BY <2>1, <2>2, <2>3
  <2>5. current = NoSession \/ (current \in Sessions /\ ContractStatus(current) = "dead")
    BY <2>1, <2>2 DEF ReplacedIsDead
  <2>6. ASSUME NEW r \in Sessions, r # s
        PROVE  ContractStatus(r)' = IF r = current THEN "retiring" ELSE ContractStatus(r)
    BY <2>1, <2>2, <2>3, <2>6
  <2>7. Contract!Start("tab", s, new)
    BY <2>1, <2>4, <2>5, <2>6 DEF Contract!Start
  <2>8. QED BY <2>7 DEF Contract!Next
<1>4. CASE Close
  <2>1. CASE current \in Sessions
    <3>1. \A r \in Sessions :
            ContractStatus(r)' = IF r = current THEN "retiring" ELSE ContractStatus(r)
      BY <1>4, <2>1 DEF Close
    <3>2. Contract!Retire("tab")
      BY <1>4, <2>1, <3>1 DEF Close, Contract!Retire, Contract!Becomes
    <3>3. QED BY <3>2 DEF Contract!Next
  <2>2. CASE current = NoSession
    BY <1>4, <2>2 DEF Close
  <2>3. QED BY <2>1, <2>2
<1>5. CASE Sigterm \/ FindsDead \/ Expires \/ Sigkill
  BY <1>5 DEF Stopping, Sigterm, FindsDead, Expires, Sigkill, Reaped
<1>6. CASE DeleteDir
  <2>1. /\ focus \in Sessions /\ ContractStatus(focus) = "retiring"
        /\ \A r \in Sessions :
             ContractStatus(r)' = IF r = focus THEN "released" ELSE ContractStatus(r)
    BY <1>6 DEF DeleteDir, Stopping
  <2>2. Contract!Release(focus)
    BY <1>6, <2>1 DEF DeleteDir, Stopping, Contract!Release, Contract!Becomes
  <2>3. QED BY <2>1, <2>2 DEF Contract!Next
<1>7. ASSUME NEW s \in Sessions, WrapperStep(s) \/ NoTerminal(s) \/ Crash(s)
      PROVE  Contract!Next \/ UNCHANGED Contract!vars
  <2>1. /\ UNCHANGED plugin /\ wrapper[s] \in Alive
        /\ \E w \in {"launched", "waiting", "zombie"} : wrapper' = [wrapper EXCEPT ![s] = w]
    BY <1>7 DEF WrapperStep, Runs, Launch, InstallHandlers, LogsNoPid, WaitReturns, NoTerminal,
                Handle, Die, Crash
  <2>2. CASE s = current /\ wrapper'[s] = "zombie"
    <3>1. /\ ContractStatus(s) = "live"
          /\ \A r \in Sessions :
               ContractStatus(r)' = IF r = s THEN "dead" ELSE ContractStatus(r)
      BY <2>1, <2>2
    <3>2. Contract!Die(s)
      BY <2>1, <3>1 DEF Contract!Die, Contract!Becomes
    <3>3. QED BY <3>2 DEF Contract!Next
  <2>3. CASE ~(s = current /\ wrapper'[s] = "zombie")
    BY <2>1, <2>3
  <2>4. QED BY <2>2, <2>3
<1>8. ASSUME NEW s \in Sessions,
             ReplStarts(s) \/ ReplEnds(s) \/ HangUp(s) \/ TerminalExits(s)
      PROVE  UNCHANGED Contract!vars
  BY <1>8 DEF ReplStarts, ReplEnds, HangUp, ReplBecomes, TerminalExits
<1>9. ASSUME NEW p \in Pids, ForeignStarts(p) \/ ForeignEnds(p)
      PROVE  UNCHANGED Contract!vars
  BY <1>9 DEF ForeignStarts, ForeignEnds
<1>10. CASE UNCHANGED vars
  BY <1>10 DEF vars
<1>11. QED BY <1>1, <1>2, <1>3, <1>4, <1>5, <1>6, <1>7, <1>8, <1>9, <1>10 DEF Next, StopStep

(* The process model keeps the safety part of the contract that the        *)
(* session table keeps: one is the other seen from closer.                 *)
THEOREM ContractCorrect == Spec => Contract!Init /\ [][Contract!Next]_(Contract!vars)
BY BookInit, BookStep, SignalInit, SignalStep, ReplacedInit, ReplacedStep, ContractInit,
   ContractStep, PTL
   DEF Spec

-----------------------------------------------------------------------------
(* One REPL at a time *)

(* The session that Register has replaced is dead, too, until the call     *)
(* that drops it has asked its group to go.                                *)
DroppedIsDead ==
  pc = "stopping" /\ current \in Sessions => \A s \in Sessions : s = focus => ~IsAlive(s)

LEMMA DroppedInit == Init => DroppedIsDead
BY DEF Init, DroppedIsDead

LEMMA DroppedStep ==
  BookInv /\ ReplacedIsDead /\ DroppedIsDead /\ [Next]_vars => DroppedIsDead'
<1> SUFFICES ASSUME BookInv, ReplacedIsDead, DroppedIsDead, [Next]_vars PROVE DroppedIsDead'
  OBVIOUS
<1> USE ProcessAssumption
    DEF BookInv, TypeOK, FocusKnown, ReplacedIsDead, DroppedIsDead, IsAlive, plugin, processes
<1>1. ASSUME NEW s \in Sessions, NEW p \in Pids, EnsureSpawns(s, p)
      PROVE  DroppedIsDead'
  BY <1>1 DEF EnsureSpawns
<1>2. CASE SpawnFails \/ Close
  BY <1>2 DEF SpawnFails, Close, Reaped
<1>3. CASE Register
  BY <1>3 DEF Register, Reaped
<1>4. CASE StopStep
  BY <1>4 DEF StopStep, Stopping, Sigterm, Sigkill, FindsDead, Expires, DeleteDir
<1>5. ASSUME NEW s \in Sessions, WrapperStep(s) \/ NoTerminal(s) \/ Crash(s)
      PROVE  DroppedIsDead'
  BY <1>5 DEF WrapperStep, Runs, Launch, InstallHandlers, LogsNoPid, WaitReturns, NoTerminal,
              Handle, Die, Crash
<1>6. ASSUME NEW s \in Sessions,
             ReplStarts(s) \/ ReplEnds(s) \/ HangUp(s) \/ TerminalExits(s)
      PROVE  DroppedIsDead'
  BY <1>6 DEF ReplStarts, ReplEnds, HangUp, ReplBecomes, TerminalExits
<1>7. ASSUME NEW p \in Pids, ForeignStarts(p) \/ ForeignEnds(p)
      PROVE  DroppedIsDead'
  BY <1>7 DEF ForeignStarts, ForeignEnds
<1>8. CASE UNCHANGED vars
  BY <1>8 DEF vars
<1>9. QED BY <1>1, <1>2, <1>3, <1>4, <1>5, <1>6, <1>7, <1>8 DEF Next

(* The session whose REPL the user may be working in: the one in the table *)
(* or the one a call has at hand, and not a dead one.                      *)
Serving(s) ==
  /\ s \in {current, focus}
  /\ IsAlive(s)
  /\ s = focus => pc \in {"starting", "stopping"}

LEMMA InUseServing ==
  ASSUME BookInv, SignalInv, NEW s \in Sessions,
         Windowed(s), InUse(s), signal[s] # "abort"
  PROVE  Serving(s)
<1>1. terminal[s] = "running"
  BY DEF InUse, Ending
<1>2. wrapper[s] \notin {"none", "booting", "zombie", "reaped"}
  BY <1>1 DEF BookInv, NothingEarly, SignalInv
<1>3. IsAlive(s)
  BY <1>2 DEF BookInv, TypeOK, IsAlive
<1>4. ~LetGo(s)
  BY <1>1 DEF SignalInv
<1>5. s = current \/ (s = focus /\ pc \in {"starting", "stopping"})
  BY <1>2, <1>4, ProcessAssumption DEF LetGo, BookInv, TypeOK, FocusKnown
<1>6. QED BY <1>3, <1>5 DEF BookInv, FocusKnown, Serving

(* At most one windowed REPL is in use, at every moment of every call.     *)
THEOREM OneReplCorrect == Spec => []OneReplInUse
<1>1. BookInv /\ SignalInv /\ ReplacedIsDead /\ DroppedIsDead => OneReplInUse
  <2> SUFFICES ASSUME BookInv, SignalInv, ReplacedIsDead, DroppedIsDead,
                      NEW r \in Sessions, Windowed(r), InUse(r), signal[r] # "abort",
                      NEW s \in Sessions, Windowed(s), InUse(s), signal[s] # "abort"
               PROVE  r = s
    BY DEF OneReplInUse
  <2>1. Serving(r) /\ Serving(s)
    BY InUseServing
  <2>2. QED BY <2>1 DEF Serving, ReplacedIsDead, DroppedIsDead
<1>2. QED BY <1>1, BookInit, BookStep, SignalInit, SignalStep, ReplacedInit, ReplacedStep,
             DroppedInit, DroppedStep, PTL DEF Spec

(* A second windowed REPL starts only after the wrapper of the first was   *)
(* killed from outside.                                                    *)
THEOREM SecondReplCorrect == Spec => SecondReplExplained
<1> DEFINE Explained ==
      \A r, s \in Sessions :
        InUse(r) /\ wrapper[s] = "none" /\ wrapper'[s] = "booting"
          => ~Windowed(r) \/ (r = current /\ signal[r] = "abort")
<1>1. BookInv /\ SignalInv /\ [Next]_vars => [Explained]_vars
  <2> SUFFICES ASSUME BookInv, SignalInv, Next,
                      NEW r \in Sessions, InUse(r), Windowed(r),
                      NEW s \in Sessions, wrapper[s] = "none", wrapper'[s] = "booting"
               PROVE  r = current /\ signal[r] = "abort"
    OBVIOUS
  <2>1. \E p \in Pids : EnsureSpawns(s, p)
    BY DEF BookInv, TypeOK, Next, EnsureSpawns, SpawnFails, Register, Close, StopStep, Stopping,
           Sigterm, Sigkill, FindsDead, Expires, DeleteDir, WrapperStep, Runs, Launch,
           InstallHandlers, LogsNoPid, WaitReturns, NoTerminal, Handle, Die, Crash, ReplStarts,
           ReplEnds, HangUp, ReplBecomes, TerminalExits, ForeignStarts, ForeignEnds, Reaped,
           plugin, processes
  <2>2. pc = "idle" /\ (r = current => ~IsAlive(r))
    BY <2>1 DEF EnsureSpawns, HasLiveSession
  <2>3. SupersededReplEnding /\ DeadMeansOver
    BY ProcessAssumption
       DEF BookInv, TypeOK, FocusKnown, NothingEarly, SignalInv, LetGo, SupersededReplEnding,
           DeadMeansOver, Ending, Windowed, IsAlive
  <2>4. QED BY <2>2, <2>3 DEF SupersededReplEnding, DeadMeansOver, InUse
<1>2. QED BY <1>1, BookInit, BookStep, SignalInit, SignalStep, PTL DEF Spec, SecondReplExplained
=============================================================================
