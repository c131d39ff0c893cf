------------------------- MODULE ReplContractProofs -------------------------
(***************************************************************************)
(* What ReplContract means for a tab and its REPL, for every set of tabs   *)
(* and REPLs.  The theorems ContractCorrect of ReplSessionsProofs and      *)
(* ReplProcessesProofs establish Init /\ [][Next]_vars for those modules,  *)
(* so this holds of both of them, seen through ContractStatus.             *)
(***************************************************************************)
EXTENDS ReplContract, TLAPS

TypeOK ==
  /\ up \in BOOLEAN
  /\ current \in [Tabs -> Sessions \cup {NoSession}]
  /\ status \in [Sessions -> Status]

ContractInv == TypeOK /\ TabsOwnRepls

LEMMA ContractInvInit == Init => ContractInv
BY DEF Init, ContractInv, TypeOK, TabsOwnRepls, Status

LEMMA ContractInvStep ==
  ASSUME NoSession \notin Sessions, ContractInv, [Next]_vars
  PROVE  ContractInv'
<1> USE DEF ContractInv, TypeOK, TabsOwnRepls, Status
<1>1. ASSUME NEW t \in Tabs, NEW s \in Sessions, NEW c \in {"live", "dead"}, Start(t, s, c)
      PROVE  ContractInv'
  <2>1. up' /\ status[s] = "fresh" /\ current' = [current EXCEPT ![t] = s]
        /\ (current[t] = NoSession \/ status[current[t]] = "dead")
    BY <1>1 DEF Start
  <2>2. \A r \in Sessions : status'[r] = IF r = s THEN c ELSE IF r = current[t] THEN "retiring" ELSE status[r]
    BY <1>1 DEF Start
  <2>3. TypeOK'
    BY <1>1, <2>1 DEF Start
  <2>4. \A u \in Tabs : current[u] # s
    BY <2>1
  <2>5. \A u \in Tabs : u # t /\ current[u] # NoSession => current[u] # current[t]
    OBVIOUS
  <2>6. \A u \in Tabs : current'[u] # NoSession => status'[current'[u]] \in {"live", "dead"}
    BY <2>1, <2>2, <2>4, <2>5
  <2>7. \A u, v \in Tabs : current'[u] = current'[v] /\ current'[u] # NoSession => u = v
    BY <2>1, <2>4
  <2>8. \A r \in Sessions : status'[r] \in {"live", "dead"} => \E u \in Tabs : current'[u] = r
    BY <2>1, <2>2
  <2>9. QED BY <2>1, <2>3, <2>6, <2>7, <2>8
<1>2. ASSUME NEW s \in Sessions, FailToStart(s) \/ Die(s) \/ Release(s)
      PROVE  ContractInv'
  <2>1. UNCHANGED <<up, current>>
    BY <1>2 DEF FailToStart, Die, Release
  <2>2. PICK v \in Status : \A r \in Sessions : status'[r] = IF r = s THEN v ELSE status[r]
    BY <1>2 DEF FailToStart, Die, Release, Becomes
  <2>3. TypeOK'
    BY <1>2, <2>1 DEF FailToStart, Die, Release, Becomes
  <2>4. \/ status[s] \in {"fresh", "retiring"} /\ v \in {"released", "abandoned"}
        \/ status[s] = "live" /\ v = "dead"
    BY <1>2, <2>2 DEF FailToStart, Die, Release, Becomes
  <2>5. QED BY <2>1, <2>2, <2>3, <2>4
<1>3. ASSUME NEW t \in Tabs, Retire(t)
      PROVE  ContractInv'
  <2>1. /\ up' /\ current[t] \in Sessions /\ current' = [current EXCEPT ![t] = NoSession]
        /\ \A r \in Sessions : status'[r] = IF r = current[t] THEN "retiring" ELSE status[r]
    BY <1>3 DEF Retire, Becomes
  <2>2. TypeOK'
    BY <1>3, <2>1 DEF Retire, Becomes
  <2>3. QED BY <2>1, <2>2
<1>4. CASE Exit
  <2>1. /\ ~up' /\ current' = current /\ \A t \in Tabs : current[t] = NoSession
        /\ \A s \in Sessions : status'[s] = IF status[s] = "retiring" THEN "abandoned" ELSE status[s]
    BY <1>4 DEF Exit
  <2>2. TypeOK'
    BY <1>4 DEF Exit
  <2>3. QED BY <2>1, <2>2
<1>5. CASE UNCHANGED vars
  BY <1>5 DEF vars
<1>6. QED BY <1>1, <1>2, <1>3, <1>4, <1>5 DEF Next

(* Tabs and REPLs belong together in every implementation of the contract. *)
THEOREM OwnershipCorrect ==
  ASSUME NoSession \notin Sessions
  PROVE  Init /\ [][Next]_vars => []TabsOwnRepls
<1>1. ContractInv => TabsOwnRepls
  BY DEF ContractInv
<1>2. QED BY <1>1, ContractInvInit, ContractInvStep, PTL

(* No implementation of the contract takes a live REPL away for another.   *)
THEOREM LiveCorrect ==
  ASSUME NoSession \notin Sessions
  PROVE  Init /\ [][Next]_vars => LiveNotReplaced
<1>1. ContractInv /\ [Next]_vars =>
        [\A t \in Tabs : current'[t] # current[t] /\ current'[t] # NoSession =>
           /\ status[current'[t]] = "fresh"
           /\ current[t] # NoSession => status[current[t]] = "dead" /\ status'[current[t]] = "retiring"]_vars
  <2> SUFFICES ASSUME ContractInv, [Next]_vars, NEW t \in Tabs, current'[t] # current[t], current'[t] # NoSession
               PROVE  /\ status[current'[t]] = "fresh"
                      /\ current[t] # NoSession => status[current[t]] = "dead" /\ status'[current[t]] = "retiring"
    OBVIOUS
  <2>1. PICK u \in Tabs, s \in Sessions, c \in {"live", "dead"} : Start(u, s, c)
    BY DEF Next, vars, FailToStart, Die, Release, Retire, Exit, ContractInv, TypeOK
  <2>2. u = t /\ current'[t] = s
    BY <2>1 DEF Start, ContractInv, TypeOK
  <2>3. QED BY <2>1, <2>2 DEF Start, ContractInv, TypeOK
<1>2. QED BY <1>1, ContractInvInit, ContractInvStep, PTL DEF LiveNotReplaced

(* A REPL only moves on, in every implementation of the contract.          *)
THEOREM LifeCorrect ==
  ASSUME NoSession \notin Sessions
  PROVE  Init /\ [][Next]_vars => OneWayLife
<1>1. ContractInv /\ [Next]_vars =>
        [\A s \in Sessions : status'[s] # status[s] => status'[s] \in Later(status[s])]_vars
  <2> SUFFICES ASSUME ContractInv, [Next]_vars, NEW s \in Sessions, status'[s] # status[s]
               PROVE  status'[s] \in Later(status[s])
    OBVIOUS
  <2> USE DEF ContractInv, TypeOK, Status, Later
  <2>1. ASSUME NEW t \in Tabs, NEW r \in Sessions, NEW c \in {"live", "dead"}, Start(t, r, c)
        PROVE  status'[s] \in Later(status[s])
    BY <2>1 DEF Start
  <2>2. ASSUME NEW r \in Sessions, FailToStart(r) \/ Die(r) \/ Release(r)
        PROVE  status'[s] \in Later(status[s])
    BY <2>2 DEF FailToStart, Die, Release, Becomes
  <2>3. ASSUME NEW t \in Tabs, Retire(t)
        PROVE  status'[s] \in Later(status[s])
    BY <2>3 DEF Retire, Becomes, TabsOwnRepls
  <2>4. CASE Exit
    BY <2>4 DEF Exit
  <2>5. QED BY <2>1, <2>2, <2>3, <2>4 DEF Next, vars
<1>2. QED BY <1>1, ContractInvInit, ContractInvStep, PTL DEF OneWayLife
=============================================================================
