------------------------- MODULE ReplSessionsProofs -------------------------
(***************************************************************************)
(* Machine-checked invariance proofs for ReplSessions, for every set of    *)
(* tabs, every pool of sessions and every set of faults.                   *)
(***************************************************************************)
EXTENDS ReplSessions, TLAPS

USE DEF Building, TearingDown, Stages, Alive

-----------------------------------------------------------------------------
(* The table and the life stages *)

(* TypeOK alone is not inductive: the insertion indexes the table by the   *)
(* owner of the session it inserts, which has to be a tab.                 *)
OwnersKnown == \A s \in Sessions : stage[s] # "unused" => owner[s] \in Tabs

TableInv == TypeOK /\ OwnersKnown /\ TableAgrees

LEMMA TableInit == Init => TableInv
BY ConstantsAssumption DEF Init, TableInv, TypeOK, OwnersKnown, TableAgrees

LEMMA TableStep == TableInv /\ [Next]_vars => TableInv'
<1> SUFFICES ASSUME TableInv, [Next]_vars PROVE TableInv'
  OBVIOUS
<1> USE ConstantsAssumption DEF TableInv, TypeOK, OwnersKnown, TableAgrees, host, plugin
<1>1. ASSUME NEW t \in Tabs, EnsureFindsLive(t)
      PROVE  TableInv'
  BY <1>1 DEF EnsureFindsLive, vars
<1>2. ASSUME NEW t \in Tabs, TabClosed(t)
      PROVE  TableInv'
  BY <1>2 DEF TabClosed, TakeFromTable, DropDetached
<1>3. ASSUME NEW t \in Tabs, CloseTab(t)
      PROVE  TableInv'
  BY <1>3 DEF CloseTab
<1>4. ASSUME NEW t \in Tabs, NEW s \in Sessions, EnsureSpawns(t, s)
      PROVE  TableInv'
  BY <1>4 DEF EnsureSpawns, Advance, Reaped
<1>5. ASSUME NEW s \in Sessions, SpawnStep(s)
      PROVE  TableInv'
  <2>1. CASE OpenView(s) \/ CreateDir(s) \/ StartProxy(s) \/ SpawnWrapper(s) \/ WaitForWrapper(s)
    BY <2>1 DEF OpenView, CreateDir, StartProxy, SpawnWrapper, WaitForWrapper, Spawning,
                Advance, Reaped
  <2>2. CASE SpawnFails(s)
    BY <2>2 DEF SpawnFails, Spawning, Advance
  <2>3. CASE Insert(s)
    <3>1. owner[s] \in Tabs
      BY <2>3 DEF Insert
    <3>2. TypeOK'
      BY <2>3, <3>1 DEF Insert
    <3>3. OwnersKnown'
      BY <2>3, <3>1 DEF Insert
    <3>4. TableAgrees'
      BY <2>3, <3>1 DEF Insert
    <3>5. QED BY <3>2, <3>3, <3>4
  <2>4. QED BY <1>5, <2>1, <2>2, <2>3 DEF SpawnStep
<1>6. ASSUME NEW s \in Sessions, ShutdownStep(s)
      PROVE  TableInv'
  BY <1>6 DEF ShutdownStep, Sigterm, FindsDead, Sigkill, JoinProxy, DeleteDir, ShuttingDown,
              Advance, Reaped
<1>7. ASSUME NEW s \in Sessions,
             ProxyForwards(s) \/ HostAnswers(s) \/ ProxyStops(s) \/ WrapperExits(s)
      PROVE  TableInv'
  BY <1>7 DEF ProxyForwards, HostAnswers, ProxyStops, WrapperExits
<1>8. CASE DropReturns \/ BeginUnload
  BY <1>8 DEF DropReturns, BeginUnload
<1>9. CASE UnloadStep
  <2>1. ASSUME NEW t \in Tabs, UnloadNext(t)
        PROVE  TableInv'
    BY <2>1 DEF UnloadNext
  <2>2. CASE UnloadDone
    BY <2>2 DEF UnloadDone, Reaped
  <2>3. QED BY <1>9, <2>1, <2>2 DEF UnloadStep
<1>10. CASE UNCHANGED vars
  BY <1>10 DEF vars
<1>11. QED BY <1>1, <1>2, <1>3, <1>4, <1>5, <1>6, <1>7, <1>8, <1>9, <1>10 DEF Next

(* The program keeps its variables in their types.                         *)
THEOREM TypeCorrect == Spec => []TypeOK
<1>1. TableInv => TypeOK
  BY DEF TableInv
<1>2. QED BY <1>1, TableInit, TableStep, PTL DEF Spec

(* The session table, the owners and the life stages agree.                *)
THEOREM TableCorrect == Spec => []TableAgrees
<1>1. TableInv => TableAgrees
  BY DEF TableInv
<1>2. QED BY <1>1, TableInit, TableStep, PTL DEF Spec

-----------------------------------------------------------------------------
(* The life of one session *)

(* What the stage of a session says of its process, proxy and directory.   *)
LifeInv ==
  \A s \in Sessions :
    /\ stage[s] \in (Building \ {"waiting", "ready"}) \cup {"unused", "failed"}
         <=> wrapper[s] = "none"
    /\ wrapper[s] = "running" => stage[s] \in {"waiting", "ready", "registered", "dropping"}
    /\ wrapper[s] = "terminating" => stage[s] = "signalled"
    /\ wrapper[s] = "doomed" => stage[s] \in {"joining", "deleting", "gone"}
    /\ stage[s] \in {"joining", "deleting", "gone"} => wrapper[s] \in {"doomed", "zombie", "reaped"}
    /\ stage[s] \in {"deleting", "gone"} => proxy[s] \in {"none", "stopped"}
    /\ dir[s] = "removed" => stage[s] = "gone"

LEMMA LifeInit == Init => LifeInv
BY DEF Init, LifeInv

LEMMA LifeStep == TableInv /\ LifeInv /\ [Next]_vars => LifeInv'
<1> SUFFICES ASSUME TableInv, LifeInv, [Next]_vars PROVE LifeInv'
  OBVIOUS
<1> USE ConstantsAssumption DEF TableInv, TypeOK, TableAgrees, LifeInv, host, plugin
<1>1. ASSUME NEW t \in Tabs, EnsureFindsLive(t) \/ TabClosed(t) \/ CloseTab(t)
      PROVE  LifeInv'
  BY <1>1 DEF EnsureFindsLive, TabClosed, TakeFromTable, DropDetached, CloseTab, vars
<1>2. ASSUME NEW t \in Tabs, NEW s \in Sessions, EnsureSpawns(t, s)
      PROVE  LifeInv'
  BY <1>2 DEF EnsureSpawns, Advance, Reaped
<1>3. ASSUME NEW s \in Sessions, SpawnStep(s)
      PROVE  LifeInv'
  <2>1. CASE OpenView(s) \/ CreateDir(s) \/ StartProxy(s) \/ SpawnWrapper(s) \/ WaitForWrapper(s)
    BY <2>1 DEF OpenView, CreateDir, StartProxy, SpawnWrapper, WaitForWrapper, Spawning,
                Advance, Reaped
  <2>2. CASE SpawnFails(s)
    BY <2>2 DEF SpawnFails, Spawning, Advance
  <2>3. CASE Insert(s)
    BY <2>3 DEF Insert, OwnersKnown
  <2>4. QED BY <1>3, <2>1, <2>2, <2>3 DEF SpawnStep
<1>4. ASSUME NEW s \in Sessions, ShutdownStep(s)
      PROVE  LifeInv'
  <2> USE DEF ShuttingDown, Advance, Reaped, IsAlive
  <2>1. CASE Sigterm(s)
    BY <2>1 DEF Sigterm
  <2>2. CASE FindsDead(s) \/ Sigkill(s)
    BY <2>2 DEF FindsDead, Sigkill
  <2>3. CASE JoinProxy(s) \/ DeleteDir(s)
    BY <2>3 DEF JoinProxy, DeleteDir
  <2>4. QED BY <1>4, <2>1, <2>2, <2>3 DEF ShutdownStep
<1>5. ASSUME NEW s \in Sessions,
             ProxyForwards(s) \/ HostAnswers(s) \/ ProxyStops(s) \/ WrapperExits(s)
      PROVE  LifeInv'
  BY <1>5 DEF ProxyForwards, HostAnswers, ProxyStops, WrapperExits, IsAlive
<1>6. CASE DropReturns \/ BeginUnload
  BY <1>6 DEF DropReturns, BeginUnload
<1>7. CASE UnloadStep
  BY <1>7 DEF UnloadStep, UnloadNext, UnloadDone, Reaped
<1>8. CASE UNCHANGED vars
  BY <1>8 DEF vars
<1>9. QED BY <1>1, <1>2, <1>3, <1>4, <1>5, <1>6, <1>7, <1>8 DEF Next

(* A directory goes only after its proxy was joined and its wrapper died   *)
(* or was sent SIGKILL.                                                    *)
THEOREM DirCorrect == Spec => []DirOutlivesItsUsers
<1>1. LifeInv => DirOutlivesItsUsers
  BY DEF LifeInv, DirOutlivesItsUsers
<1>2. QED BY <1>1, TableInit, TableStep, LifeInit, LifeStep, PTL DEF Spec

-----------------------------------------------------------------------------
(* The sessions of one tab *)

(* A spawn runs for a tab whose close has not been handled and whose old   *)
(* wrapper is dead: both stay so until the insertion, because the plugin   *)
(* runs one call at a time.                                                *)
SpawnGuarded ==
  \A s \in Sessions :
    stage[s] \in Building => /\ owner[s] \in open \cup closing
                             /\ ~HasLiveSession(owner[s])

(* A wrapper that is alive after its session left the table belongs to a   *)
(* tab that will get no other: its close was handled, or the plugin        *)
(* unloads.                                                                *)
LeftAliveForGood ==
  \A s \in Sessions :
    stage[s] \in TearingDown \cup {"gone"} /\ IsAlive(s) =>
      \/ owner[s] \notin open \cup closing
      \/ call \in {"unloading", "exited"} /\ sessions[owner[s]] = NoSession

(* A session of an open tab is shut down by the plugin's own call.         *)
OpenTabDropsInline ==
  \A s \in Sessions :
    stage[s] \in TearingDown /\ owner[s] \in open =>
      focus = s /\ call \in {"replacing", "unloading"}

ExitedIsEmpty == call = "exited" => \A t \in Tabs : sessions[t] = NoSession

TabInv ==
  /\ open \cap closing = {}
  /\ NoSessionForClosedTab
  /\ SpawnGuarded
  /\ LeftAliveForGood
  /\ OpenTabDropsInline
  /\ ExitedIsEmpty
  /\ OneWrapperPerTab

LEMMA TabInit == Init => TabInv
BY ConstantsAssumption
   DEF Init, TabInv, NoSessionForClosedTab, SpawnGuarded, LeftAliveForGood, OpenTabDropsInline,
       ExitedIsEmpty, OneWrapperPerTab, IsAlive

LEMMA TabStep == TableInv /\ LifeInv /\ TabInv /\ [Next]_vars => TabInv'
<1> SUFFICES ASSUME TableInv, LifeInv, TabInv, [Next]_vars PROVE TabInv'
  OBVIOUS
<1> USE ConstantsAssumption
    DEF TableInv, TypeOK, OwnersKnown, TableAgrees, LifeInv, TabInv, NoSessionForClosedTab,
        SpawnGuarded, LeftAliveForGood, OpenTabDropsInline, ExitedIsEmpty, OneWrapperPerTab,
        IsAlive, HasLiveSession, host, plugin
<1>1. ASSUME NEW t \in Tabs, EnsureFindsLive(t)
      PROVE  TabInv'
  BY <1>1 DEF EnsureFindsLive, vars
<1>2. ASSUME NEW t \in Tabs, TabClosed(t)
      PROVE  TabInv'
  BY <1>2 DEF TabClosed, TakeFromTable, DropDetached
<1>3. ASSUME NEW t \in Tabs, CloseTab(t)
      PROVE  TabInv'
  BY <1>3 DEF CloseTab
<1>4. ASSUME NEW t \in Tabs, NEW s \in Sessions, EnsureSpawns(t, s)
      PROVE  TabInv'
  BY <1>4 DEF EnsureSpawns, Advance, Reaped
<1>5. ASSUME NEW s \in Sessions, SpawnStep(s)
      PROVE  TabInv'
  <2>1. CASE OpenView(s) \/ CreateDir(s) \/ StartProxy(s)
    BY <2>1 DEF OpenView, CreateDir, StartProxy, Spawning, Advance
  <2>2. CASE SpawnWrapper(s)
    BY <2>2 DEF SpawnWrapper, Spawning, Advance
  <2>3. CASE WaitForWrapper(s)
    BY <2>3 DEF WaitForWrapper, Spawning, Advance, Reaped
  <2>4. CASE SpawnFails(s)
    BY <2>4 DEF SpawnFails, Spawning, Advance
  <2>5. CASE Insert(s)
    BY <2>5 DEF Insert
  <2>6. QED BY <1>5, <2>1, <2>2, <2>3, <2>4, <2>5 DEF SpawnStep
<1>6. ASSUME NEW s \in Sessions, ShutdownStep(s)
      PROVE  TabInv'
  BY <1>6 DEF ShutdownStep, Sigterm, FindsDead, Sigkill, JoinProxy, DeleteDir, ShuttingDown,
              Advance, Reaped
<1>7. ASSUME NEW s \in Sessions,
             ProxyForwards(s) \/ HostAnswers(s) \/ ProxyStops(s) \/ WrapperExits(s)
      PROVE  TabInv'
  BY <1>7 DEF ProxyForwards, HostAnswers, ProxyStops, WrapperExits
<1>8. CASE DropReturns \/ BeginUnload
  BY <1>8 DEF DropReturns, BeginUnload
<1>9. CASE UnloadStep
  BY <1>9 DEF UnloadStep, UnloadNext, UnloadDone, DropIsDone, Reaped
<1>10. CASE UNCHANGED vars
  BY <1>10 DEF vars
<1>11. QED BY <1>1, <1>2, <1>3, <1>4, <1>5, <1>6, <1>7, <1>8, <1>9, <1>10 DEF Next

(* PYTHONSHELL never gives a tab two running wrappers.                     *)
THEOREM OneWrapperCorrect == Spec => []OneWrapperPerTab
<1>1. TabInv => OneWrapperPerTab
  BY DEF TabInv
<1>2. QED BY <1>1, TableInit, TableStep, LifeInit, LifeStep, TabInit, TabStep, PTL DEF Spec

(* A closed tab keeps no session once its notification is handled.         *)
THEOREM ClosedTabCorrect == Spec => []NoSessionForClosedTab
<1>1. TabInv => NoSessionForClosedTab
  BY DEF TabInv
<1>2. QED BY <1>1, TableInit, TableStep, LifeInit, LifeStep, TabInit, TabStep, PTL DEF Spec

(* After the unload nothing that was ever in the table is left standing,   *)
(* but for what detached threads had not finished.                         *)
THEOREM UnloadCorrect == Spec => []UnloadReleasesTable
<1>1. TableInv /\ TabInv => UnloadReleasesTable
  BY ConstantsAssumption
     DEF TableInv, TypeOK, OwnersKnown, TableAgrees, TabInv, OpenTabDropsInline, ExitedIsEmpty,
         UnloadReleasesTable
<1>2. QED BY <1>1, TableInit, TableStep, LifeInit, LifeStep, TabInit, TabStep, PTL DEF Spec

(* Re-running PYTHONSHELL never takes a live session out of the table.     *)
THEOREM LiveSessionCorrect == Spec => LiveSessionKept
<1> DEFINE Kept == \A t \in Tabs :
             sessions[t] \in Sessions /\ sessions'[t] # sessions[t]
               => ~IsAlive(sessions[t]) \/ t \in closing \/ call = "unloading"
<1>1. TableInv /\ TabInv /\ [Next]_vars => [Kept]_vars
  <2> SUFFICES ASSUME TableInv, TabInv, Next PROVE Kept
    OBVIOUS
  <2> USE ConstantsAssumption DEF TableInv, TypeOK, OwnersKnown, TableAgrees, host, plugin
  <2>1. ASSUME NEW s \in Sessions, Insert(s)
        PROVE  Kept
    BY <2>1 DEF Insert, TabInv, SpawnGuarded, HasLiveSession
  <2>2. ASSUME NEW t \in Tabs, TabClosed(t)
        PROVE  Kept
    BY <2>2 DEF TabClosed, TakeFromTable, DropDetached
  <2>3. ASSUME NEW t \in Tabs, UnloadNext(t)
        PROVE  Kept
    BY <2>3 DEF UnloadNext
  <2>4. sessions' = sessions \/ (\E s \in Sessions : Insert(s))
          \/ (\E t \in Tabs : TabClosed(t) \/ UnloadNext(t))
    BY DEF Next, vars, EnsureFindsLive, CloseTab, EnsureSpawns, SpawnStep, OpenView, CreateDir,
           StartProxy, SpawnWrapper, WaitForWrapper, SpawnFails, Spawning, ShutdownStep, Sigterm,
           FindsDead, Sigkill, JoinProxy, DeleteDir, ShuttingDown, ProxyForwards, HostAnswers,
           ProxyStops, WrapperExits, DropReturns, BeginUnload, UnloadStep, UnloadDone
  <2>5. QED BY <2>1, <2>2, <2>3, <2>4
<1>2. QED BY <1>1, TableInit, TableStep, LifeInit, LifeStep, TabInit, TabStep, PTL
          DEF Spec, LiveSessionKept
-----------------------------------------------------------------------------
(* What a session may still hold *)

(* A proxy exists from the moment the spawn starts it, a directory from    *)
(* the moment the spawn creates it, and a finished shutdown leaves a       *)
(* directory only when the ten attempts to delete it failed.               *)
HoldInv ==
  \A s \in Sessions :
    /\ stage[s] \in {"unused", "opening", "viewed", "dirMade"} => proxy[s] = "none"
    /\ stage[s] \in {"unused", "opening", "viewed"} => dir[s] = "none"
    /\ stage[s] = "gone" /\ dir[s] = "present" => "delete" \in Faults

LEMMA HoldInit == Init => HoldInv
BY DEF Init, HoldInv

LEMMA HoldStep == TableInv /\ HoldInv /\ [Next]_vars => HoldInv'
<1> SUFFICES ASSUME TableInv, HoldInv, [Next]_vars PROVE HoldInv'
  OBVIOUS
<1> USE ConstantsAssumption DEF TableInv, TypeOK, TableAgrees, HoldInv, host, plugin
<1>1. ASSUME NEW t \in Tabs, EnsureFindsLive(t) \/ TabClosed(t) \/ CloseTab(t)
      PROVE  HoldInv'
  BY <1>1 DEF EnsureFindsLive, TabClosed, TakeFromTable, DropDetached, CloseTab, vars
<1>2. ASSUME NEW t \in Tabs, NEW s \in Sessions, EnsureSpawns(t, s)
      PROVE  HoldInv'
  BY <1>2 DEF EnsureSpawns, Advance
<1>3. ASSUME NEW s \in Sessions, SpawnStep(s)
      PROVE  HoldInv'
  <2>1. CASE OpenView(s) \/ CreateDir(s) \/ StartProxy(s) \/ SpawnWrapper(s) \/ WaitForWrapper(s)
    BY <2>1 DEF OpenView, CreateDir, StartProxy, SpawnWrapper, WaitForWrapper, Spawning, Advance
  <2>2. CASE SpawnFails(s)
    BY <2>2 DEF SpawnFails, Spawning, Advance
  <2>3. CASE Insert(s)
    BY <2>3 DEF Insert
  <2>4. QED BY <1>3, <2>1, <2>2, <2>3 DEF SpawnStep
<1>4. ASSUME NEW s \in Sessions, ShutdownStep(s)
      PROVE  HoldInv'
  BY <1>4 DEF ShutdownStep, Sigterm, FindsDead, Sigkill, JoinProxy, DeleteDir, ShuttingDown,
              Advance
<1>5. ASSUME NEW s \in Sessions,
             ProxyForwards(s) \/ HostAnswers(s) \/ ProxyStops(s) \/ WrapperExits(s)
      PROVE  HoldInv'
  BY <1>5 DEF ProxyForwards, HostAnswers, ProxyStops, WrapperExits
<1>6. CASE DropReturns \/ BeginUnload
  BY <1>6 DEF DropReturns, BeginUnload
<1>7. CASE UnloadStep
  BY <1>7 DEF UnloadStep, UnloadNext, UnloadDone
<1>8. CASE UNCHANGED vars
  BY <1>8 DEF vars
<1>9. QED BY <1>1, <1>2, <1>3, <1>4, <1>5, <1>6, <1>7, <1>8 DEF Next

(* A session in the middle of its life has an owner that will drop it.     *)
LEMMA MidLifeOwned ==
  ASSUME TableInv, NEW s \in Sessions, stage[s] \notin {"unused", "failed", "gone"}
  PROVE  Owned(s)
<1>1. CASE stage[s] \in Building
  BY <1>1 DEF TableInv, TableAgrees, Owned
<1>2. CASE stage[s] = "registered"
  BY <1>2 DEF TableInv, OwnersKnown, TableAgrees, Owned
<1>3. CASE stage[s] \in TearingDown
  BY <1>3 DEF Owned
<1>4. QED BY <1>1, <1>2, <1>3 DEF TableInv, TypeOK

(* While the plugin is loaded, every running wrapper, every proxy thread   *)
(* and every directory belongs to a session value that will be dropped,    *)
(* but for what a failed spawn or an exhausted delete leaves behind.       *)
THEOREM NothingUnownedCorrect == Spec => []NothingUnowned
<1>1. TableInv /\ LifeInv /\ HoldInv => NothingUnowned
  <2> SUFFICES ASSUME TableInv, LifeInv, HoldInv, NEW s \in Sessions
               PROVE  /\ wrapper[s] \in {"running", "terminating"} => Owned(s)
                      /\ proxy[s] \in {"idle", "busy"} => Owned(s) \/ stage[s] = "failed"
                      /\ dir[s] = "present" => \/ Owned(s)
                                               \/ stage[s] = "failed"
                                               \/ stage[s] = "gone" /\ "delete" \in Faults
    BY DEF NothingUnowned
  <2>1. CASE stage[s] \in {"unused", "failed", "gone"}
    BY <2>1 DEF LifeInv, HoldInv
  <2>2. CASE stage[s] \notin {"unused", "failed", "gone"}
    BY <2>2, MidLifeOwned
  <2>3. QED BY <2>1, <2>2
<1>2. QED BY <1>1, TableInit, TableStep, LifeInit, LifeStep, HoldInit, HoldStep, PTL DEF Spec

(* After the unload only a failed spawn, a shutdown on a detached thread   *)
(* and an exhausted delete leave a directory, and nothing but such a       *)
(* shutdown leaves a wrapper that nobody killed.                           *)
THEOREM SurvivorsCorrect == Spec => []SurvivorsExplained
<1>1. TableInv /\ LifeInv /\ TabInv /\ HoldInv => SurvivorsExplained
  <2> SUFFICES ASSUME TableInv, LifeInv, TabInv, HoldInv, call = "exited", NEW s \in Sessions
               PROVE  /\ dir[s] = "present" => \/ stage[s] = "failed"
                                               \/ CutOff(s)
                                               \/ stage[s] = "gone" /\ "delete" \in Faults
                      /\ wrapper[s] \in {"running", "terminating"} => CutOff(s)
    BY DEF SurvivorsExplained
  <2>1. stage[s] \in {"unused", "failed", "gone"} \cup TearingDown
    BY ConstantsAssumption DEF TableInv, TypeOK, OwnersKnown, TableAgrees, TabInv, ExitedIsEmpty
  <2>2. CASE stage[s] \in TearingDown
    BY <2>2 DEF TabInv, OpenTabDropsInline, CutOff
  <2>3. CASE stage[s] \in {"unused", "failed", "gone"}
    BY <2>3 DEF LifeInv, HoldInv
  <2>4. QED BY <2>1, <2>2, <2>3
<1>2. QED BY <1>1, TableInit, TableStep, LifeInit, LifeStep, TabInit, TabStep, HoldInit, HoldStep,
             PTL DEF Spec

-----------------------------------------------------------------------------
(* Refinement: the safety part of the contract *)

(* What ContractStatus is in each stage.                                   *)
StatusReads ==
  \A s \in Sessions :
    /\ stage[s] \in Building \cup {"unused"} => ContractStatus(s) = "fresh"
    /\ stage[s] = "registered" /\ IsAlive(s) => ContractStatus(s) = "live"
    /\ stage[s] = "registered" /\ ~IsAlive(s) => ContractStatus(s) = "dead"
    /\ stage[s] \in TearingDown /\ call # "exited" => ContractStatus(s) = "retiring"
    /\ stage[s] \in TearingDown /\ call = "exited" => ContractStatus(s) = "abandoned"
    /\ stage[s] = "gone" => ContractStatus(s) = "released"
    /\ stage[s] = "failed" => ContractStatus(s) = "abandoned"

LEMMA StatusRead == StatusReads
<1> SUFFICES ASSUME NEW s \in Sessions
             PROVE  StatusReads!(s)
  BY DEF StatusReads
<1>1. CASE stage[s] \in Building \cup {"unused"}
  BY <1>1 DEF ContractStatus
<1>2. CASE stage[s] = "registered"
  BY <1>2 DEF ContractStatus
<1>3. CASE stage[s] \in TearingDown
  BY <1>3 DEF ContractStatus
<1>4. CASE stage[s] = "gone"
  BY <1>4 DEF ContractStatus
<1>5. CASE stage[s] = "failed"
  BY <1>5 DEF ContractStatus
<1>6. QED BY <1>1, <1>2, <1>3, <1>4, <1>5

(* The plugin starts in the contract's initial state.                      *)
LEMMA ContractInit == Init => Contract!Init
BY DEF Init, Contract!Init, ContractStatus

(* Every step of the plugin is a step of the contract or changes nothing   *)
(* the contract sees.                                                      *)
LEMMA ContractStep ==
  TableInv /\ LifeInv /\ TabInv /\ [Next]_vars => [Contract!Next]_(Contract!vars)
<1> SUFFICES ASSUME TableInv, LifeInv, TabInv, [Next]_vars
             PROVE  Contract!Next \/ UNCHANGED Contract!vars
  OBVIOUS
<1> USE ConstantsAssumption
    DEF TableInv, TypeOK, OwnersKnown, TableAgrees, Contract!vars, IsAlive, host, plugin
<1>a. StatusReads /\ StatusReads'
  BY StatusRead, PTL
<1> USE <1>a DEF StatusReads
<1>1. ASSUME NEW t \in Tabs, EnsureFindsLive(t) \/ CloseTab(t)
      PROVE  UNCHANGED Contract!vars
  BY <1>1 DEF EnsureFindsLive, CloseTab, vars
<1>2. ASSUME NEW t \in Tabs, TabClosed(t)
      PROVE  Contract!Next \/ UNCHANGED Contract!vars
  <2>1. CASE sessions[t] \in Sessions
    <3>1. /\ call # "exited" /\ UNCHANGED call /\ sessions' = [sessions EXCEPT ![t] = NoSession]
          /\ \A r \in Sessions :
               ContractStatus(r)' = IF r = sessions[t] THEN "retiring" ELSE ContractStatus(r)
      BY <1>2, <2>1 DEF TabClosed, TakeFromTable, DropDetached
    <3>2. Contract!Retire(t)
      BY <3>1, <2>1 DEF Contract!Retire, Contract!Becomes
    <3>3. QED BY <3>2 DEF Contract!Next
  <2>2. CASE sessions[t] = NoSession
    BY <1>2, <2>2 DEF TabClosed, TakeFromTable, DropDetached
  <2>3. QED BY <2>1, <2>2
<1>3. ASSUME NEW t \in Tabs, NEW s \in Sessions, EnsureSpawns(t, s)
      PROVE  UNCHANGED Contract!vars
  BY <1>3 DEF EnsureSpawns, Advance, Reaped
<1>4. ASSUME NEW s \in Sessions, SpawnStep(s)
      PROVE  Contract!Next \/ UNCHANGED Contract!vars
  <2>1. CASE OpenView(s) \/ CreateDir(s) \/ StartProxy(s) \/ SpawnWrapper(s) \/ WaitForWrapper(s)
    BY <2>1 DEF OpenView, CreateDir, StartProxy, SpawnWrapper, WaitForWrapper, Spawning,
                Advance, Reaped
  <2>2. CASE SpawnFails(s)
    <3>1. /\ call # "exited" /\ call' # "exited" /\ UNCHANGED sessions /\ ContractStatus(s) = "fresh"
          /\ \A r \in Sessions :
               ContractStatus(r)' = IF r = s THEN "abandoned" ELSE ContractStatus(r)
      BY <2>2 DEF SpawnFails, Spawning, Advance
    <3>2. Contract!FailToStart(s)
      BY <3>1 DEF Contract!FailToStart, Contract!Becomes
    <3>3. QED BY <3>2 DEF Contract!Next
  <2>3. CASE Insert(s)
    <3> DEFINE c == IF IsAlive(s) THEN "live" ELSE "dead"
    <3>1. owner[s] \in Tabs /\ ~HasLiveSession(owner[s])
      BY <2>3 DEF Insert, TabInv, SpawnGuarded
    <3>2. Contract!Start(owner[s], s, c)
      BY <2>3, <3>1 DEF Insert, HasLiveSession, Contract!Start
    <3>3. QED BY <3>1, <3>2 DEF Contract!Next
  <2>4. QED BY <1>4, <2>1, <2>2, <2>3 DEF SpawnStep
<1>5. ASSUME NEW s \in Sessions, ShutdownStep(s)
      PROVE  Contract!Next \/ UNCHANGED Contract!vars
  <2>1. CASE Sigterm(s) \/ FindsDead(s) \/ Sigkill(s) \/ JoinProxy(s)
    BY <2>1 DEF Sigterm, FindsDead, Sigkill, JoinProxy, ShuttingDown, Advance, Reaped
  <2>2. CASE DeleteDir(s)
    <3>1. /\ call # "exited" /\ UNCHANGED <<call, sessions>> /\ ContractStatus(s) = "retiring"
          /\ \A r \in Sessions :
               ContractStatus(r)' = IF r = s THEN "released" ELSE ContractStatus(r)
      BY <2>2 DEF DeleteDir, ShuttingDown, Advance
    <3>2. Contract!Release(s)
      BY <3>1 DEF Contract!Release, Contract!Becomes
    <3>3. QED BY <3>2 DEF Contract!Next
  <2>3. QED BY <1>5, <2>1, <2>2 DEF ShutdownStep
<1>6. ASSUME NEW s \in Sessions, ProxyForwards(s) \/ HostAnswers(s) \/ ProxyStops(s)
      PROVE  UNCHANGED Contract!vars
  BY <1>6 DEF ProxyForwards, HostAnswers, ProxyStops
<1>7. ASSUME NEW s \in Sessions, WrapperExits(s)
      PROVE  Contract!Next \/ UNCHANGED Contract!vars
  <2>1. CASE stage[s] = "registered"
    <3>1. /\ UNCHANGED <<call, sessions>> /\ ContractStatus(s) = "live"
          /\ \A r \in Sessions :
               ContractStatus(r)' = IF r = s THEN "dead" ELSE ContractStatus(r)
      BY <1>7, <2>1 DEF WrapperExits
    <3>2. Contract!Die(s)
      BY <3>1 DEF Contract!Die, Contract!Becomes
    <3>3. QED BY <3>2 DEF Contract!Next
  <2>2. CASE stage[s] # "registered"
    BY <1>7, <2>2 DEF WrapperExits
  <2>3. QED BY <2>1, <2>2
<1>8. CASE DropReturns \/ BeginUnload
  BY <1>8 DEF DropReturns, BeginUnload
<1>9. CASE UnloadStep
  <2>1. ASSUME NEW t \in Tabs, UnloadNext(t)
        PROVE  Contract!Next
    <3>1. /\ /\ call # "exited" /\ UNCHANGED call /\ sessions[t] \in Sessions
             /\ sessions' = [sessions EXCEPT ![t] = NoSession]
          /\ \A r \in Sessions :
               ContractStatus(r)' = IF r = sessions[t] THEN "retiring" ELSE ContractStatus(r)
      BY <2>1 DEF UnloadNext
    <3>2. Contract!Retire(t)
      BY <3>1 DEF Contract!Retire, Contract!Becomes
    <3>3. QED BY <3>2 DEF Contract!Next
  <2>2. CASE UnloadDone
    <3>1. Contract!Exit
      BY <2>2 DEF UnloadDone, Reaped, Contract!Exit
    <3>2. QED BY <3>1 DEF Contract!Next
  <2>3. QED BY <1>9, <2>1, <2>2 DEF UnloadStep
<1>10. CASE UNCHANGED vars
  BY <1>10 DEF vars
<1>11. QED BY <1>1, <1>2, <1>3, <1>4, <1>5, <1>6, <1>7, <1>8, <1>9, <1>10 DEF Next

(* Every behaviour of the plugin is, seen through ContractStatus, one the  *)
(* contract's safety part allows: a live REPL is never replaced, a tab has *)
(* one at most, and none comes back once it was retired.                   *)
THEOREM ContractCorrect == Spec => Contract!Init /\ [][Contract!Next]_(Contract!vars)
BY TableInit, TableStep, LifeInit, LifeStep, TabInit, TabStep, ContractInit, ContractStep, PTL
   DEF Spec
=============================================================================
