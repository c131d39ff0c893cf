-------------------------- MODULE WindowsTreeProofs --------------------------
(***************************************************************************)
(* Proofs about WindowsTree, for every set of process ids.                 *)
(***************************************************************************)
EXTENDS WindowsTree, TLAPS

Kinds == {"free", "tree", "stray", "other"}

ProcessesTyped ==
  /\ kin \in [Pids -> Kinds]
  /\ parent \in [Pids -> Pids \cup {NoPid}]
  /\ orphan \in SUBSET Pids
  /\ member \in SUBSET Pids
  /\ spared \in SUBSET Pids

(* The types of the process table, through the three ways it changes.      *)
LEMMA ArriveTypes ==
  ASSUME TypeOK, NEW p \in Pids, NEW k \in Kinds, NEW q \in Pids \cup {NoPid}, Arrives(p, k, q)
  PROVE  ProcessesTyped'
BY DEF Arrives, TypeOK, ProcessesTyped, Kinds

LEMMA LeaveTypes ==
  ASSUME TypeOK, NEW ps, NEW c \in {"done", "still_active"}, Leave(ps, c)
  PROVE  ProcessesTyped' /\ code' \in {"active", "done", "still_active"}
<1>1. kin' \in [Pids -> Kinds]
  BY DEF Leave, TypeOK, Kinds
<1>2. parent' \in [Pids -> Pids \cup {NoPid}]
  BY DEF Leave, TypeOK
<1>3. orphan' \in SUBSET Pids /\ member' \in SUBSET Pids /\ spared' \in SUBSET Pids
  BY DEF Leave, TypeOK, Live
<1>4. code' \in {"active", "done", "still_active"}
  BY DEF Leave, TypeOK
<1> QED
  BY <1>1, <1>2, <1>3, <1>4 DEF ProcessesTyped

LEMMA CloseTypes ==
  ASSUME TypeOK, NEW ps, NEW next \in {"idle", "gone"}, Closing(ps, next)
  PROVE  TypeOK'
<1>1. kin' \in [Pids -> Kinds]
  BY DEF Closing, TypeOK, Kinds
<1>2. parent' \in [Pids -> Pids \cup {NoPid}]
  BY DEF Closing, TypeOK
<1>3. orphan' \in SUBSET Pids
  BY DEF Closing, TypeOK, Live
<1> QED
  BY <1>1, <1>2, <1>3 DEF TypeOK, Kinds, Closing

(* The id of the wrapper is known as long as the group exists.             *)
RootKnown ==
  /\ pc \in {"idle", "gone"} => root = NoPid
  /\ pc \notin {"idle", "gone"} => root \in Pids

TypeInv == TypeOK /\ RootKnown

LEMMA TypeInit == Init => TypeInv
BY PidAssumption DEF Init, TypeInv, TypeOK, RootKnown

LEMMA TypeStep == TypeInv /\ [Next]_vars => TypeInv'
<1> SUFFICES ASSUME TypeInv, [Next]_vars PROVE TypeInv'
  OBVIOUS
<1> USE PidAssumption DEF TypeInv, RootKnown
<1>1. ASSUME NEW p \in Pids, NEW q \in Pids \cup {NoPid}, StrangerStarts(p, q) PROVE TypeInv'
  <2>1. (IF q = NoPid THEN "other" ELSE kin[q]) \in Kinds
    BY DEF TypeOK, Kinds
  <2>2. ProcessesTyped'
    BY <1>1, <2>1, ArriveTypes DEF StrangerStarts
  <2> QED
    BY <1>1, <2>2 DEF StrangerStarts, TypeOK, ProcessesTyped, Kinds, group
<1>2. ASSUME NEW p \in Pids, NEW q \in Pids, TreeStarts(p, q) PROVE TypeInv'
  <2>1. ProcessesTyped'
    BY <1>2, ArriveTypes DEF TreeStarts, Kinds
  <2> QED
    BY <1>2, <2>1 DEF TreeStarts, TypeOK, ProcessesTyped, Kinds, group
<1>3. ASSUME NEW p \in Pids, Exits(p) PROVE TypeInv'
  BY <1>3, LeaveTypes DEF Exits, TypeOK, ProcessesTyped, Kinds, group, walk
<1>4. ASSUME NEW p \in Pids, CreateWrapper(p) PROVE TypeInv'
  <2>1. ProcessesTyped'
    BY <1>4, ArriveTypes DEF CreateWrapper, Kinds
  <2> QED
    BY <1>4, <2>1 DEF CreateWrapper, TypeOK, ProcessesTyped, Kinds, walk
<1>5. CASE AssignJob
  BY <1>5 DEF AssignJob, TypeOK, walk
<1>6. CASE Ask \/ PollFindsDead \/ Expires
  BY <1>6 DEF Ask, PollFindsDead, Expires, TypeOK, processes, group, walk
<1>7. CASE TerminateJob
  BY <1>7, LeaveTypes DEF TerminateJob, TypeOK, ProcessesTyped, Kinds, group, walk
<1>8. CASE Snapshot
  <2>1. Descendants \in SUBSET Pids
    BY DEF Descendants, Live
  <2>2. victims' \in SUBSET Pids /\ complete' \in BOOLEAN /\ clean' \in BOOLEAN
    BY <1>8, <2>1 DEF Snapshot
  <2> QED
    BY <1>8, <2>2 DEF Snapshot, TypeOK, processes, group
<1>9. ASSUME NEW p \in Pids, KillVictim(p) PROVE TypeInv'
  BY <1>9, LeaveTypes DEF KillVictim, TypeOK, ProcessesTyped, Kinds, group
<1>10. CASE KillRoot
  BY <1>10, LeaveTypes DEF KillRoot, TypeOK, ProcessesTyped, Kinds, group, walk
<1>14. ASSUME NEW p \in Pids, SpareVictim(p) PROVE TypeInv'
  BY <1>14 DEF SpareVictim, TypeOK, group
<1>15. CASE SpareRoot
  BY <1>15 DEF SpareRoot, TypeOK, group, walk
<1>11. CASE Drop
  BY <1>11, CloseTypes DEF Drop, Closing
<1>12. CASE RunnerDies
  BY <1>12, CloseTypes DEF RunnerDies, Closing
<1>13. CASE UNCHANGED vars
  BY <1>13 DEF vars, processes, group, walk, TypeOK
<1> QED
  BY <1>1, <1>2, <1>3, <1>4, <1>5, <1>6, <1>7, <1>8, <1>9, <1>10, <1>11, <1>12, <1>13, <1>14, <1>15
     DEF Next, ShutdownStep

(* Every variable keeps its type.                                          *)
THEOREM TypeCorrect == Spec => []TypeOK
<1>1. TypeInv => TypeOK
  BY DEF TypeInv
<1> QED
  BY <1>1, TypeInit, TypeStep, PTL DEF Spec

-----------------------------------------------------------------------------
(* The wrapper and the job *)

(* The id of the wrapper belongs to the session until the group is closed, *)
(* and nothing is left of a session whose group is.                        *)
RootOurs ==
  /\ pc \in {"idle", "gone"} => Tree = {}
  /\ root \in Pids => kin[root] \in {"free", "tree"}
  /\ code = "active" => root \in Tree

(* Only the session is in the job, and all of it, if the job was in time.  *)
JobOurs ==
  /\ pc \in {"idle", "created", "gone"} => ~inside
  /\ member \subseteq Tree
  /\ inside => job /\ Tree \subseteq member

OursInv == TypeInv /\ RootOurs /\ JobOurs

LEMMA OursInit == Init => OursInv
BY TypeInit, PidAssumption DEF Init, OursInv, RootOurs, JobOurs, Tree

LEMMA OursStep == OursInv /\ [Next]_vars => OursInv'
<1> SUFFICES ASSUME OursInv, [Next]_vars PROVE RootOurs' /\ JobOurs'
  BY TypeStep DEF OursInv
<1> USE PidAssumption DEF OursInv, TypeInv, TypeOK, RootKnown, RootOurs, JobOurs, Tree
<1>1. ASSUME NEW p \in Pids, NEW q \in Pids \cup {NoPid}, StrangerStarts(p, q)
      PROVE  RootOurs' /\ JobOurs'
  <2>1. (IF q = NoPid THEN "other" ELSE kin[q]) \in {"stray", "other"} /\ q \notin member
    BY <1>1 DEF StrangerStarts, Strangers, Live
  <2>2. Tree' = Tree /\ member' = member
    BY <1>1, <2>1 DEF StrangerStarts, Arrives, Vacant
  <2> QED
    BY <1>1, <2>1, <2>2 DEF StrangerStarts, Arrives, Vacant, group
<1>2. ASSUME NEW p \in Pids, NEW q \in Pids, TreeStarts(p, q)
      PROVE  RootOurs' /\ JobOurs'
  <2>1. Tree' = Tree \cup {p}
    BY <1>2 DEF TreeStarts, Arrives
  <2> QED
    BY <1>2, <2>1 DEF TreeStarts, Arrives, Vacant, group
<1>3. ASSUME NEW ps \in SUBSET Pids, NEW c \in {"done", "still_active"}, Leave(ps, c), 
             UNCHANGED group, pc' \notin {"idle", "created", "gone"} \/ pc' = pc
      PROVE  RootOurs' /\ JobOurs'
  <2>1. Tree' = Tree \ ps
    BY <1>3 DEF Leave
  <2> QED
    BY <1>3, <2>1 DEF Leave, group
<1>4. ASSUME NEW p \in Pids, CreateWrapper(p) PROVE RootOurs' /\ JobOurs'
  BY <1>4 DEF CreateWrapper, Arrives, Vacant
<1>5. CASE AssignJob
  BY <1>5 DEF AssignJob, walk
<1>6. CASE Ask \/ PollFindsDead \/ Expires \/ Snapshot \/ UNCHANGED vars
  <2>1. UNCHANGED processes /\ UNCHANGED group
    BY <1>6 DEF Ask, PollFindsDead, Expires, Snapshot, vars
  <2>2. pc' \notin {"idle", "created", "gone"} \/ pc' = pc
    BY <1>6 DEF Ask, PollFindsDead, Expires, Snapshot, vars
  <2>3. Tree' = Tree
    BY <2>1 DEF processes
  <2> QED
    BY <2>1, <2>2, <2>3 DEF processes, group
<1>7. CASE TerminateJob
  BY <1>7, <1>3 DEF TerminateJob
<1>8. ASSUME NEW p \in Pids, Exits(p) \/ KillVictim(p) PROVE RootOurs' /\ JobOurs'
  BY <1>8, <1>3 DEF Exits, KillVictim, Live
<1>9. CASE KillRoot
  BY <1>9, <1>3 DEF KillRoot, Live
<1>10. CASE Drop \/ RunnerDies
  BY <1>10 DEF Drop, RunnerDies, Closing
<1>11. CASE SpareRoot \/ \E p \in Pids : SpareVictim(p)
  <2>1. UNCHANGED <<kin, member, code, root, job, inside>> /\ pc = "walking" /\ pc' \in {"walking", "killed"}
    BY <1>11 DEF SpareRoot, SpareVictim, group
  <2> QED
    BY <2>1
<1> QED
  BY <1>1, <1>2, <1>4, <1>5, <1>6, <1>7, <1>8, <1>9, <1>10, <1>11 DEF Next, ShutdownStep

(* A process of the session is let go only when the handles are closed.    *)
LEMMA LetGoOnClosing ==
  ASSUME OursInv, Next, NEW p \in Pids, kin[p] = "tree", kin'[p] = "stray"
  PROVE  Drop \/ RunnerDies
<1> USE DEF OursInv, TypeInv, TypeOK
<1>1. CASE \E s \in Pids, q \in Pids \cup {NoPid} : StrangerStarts(s, q)
  BY <1>1 DEF StrangerStarts, Arrives, Vacant
<1>2. CASE \E s, q \in Pids : TreeStarts(s, q)
  BY <1>2 DEF TreeStarts, Arrives, Vacant
<1>3. CASE \E s \in Pids : CreateWrapper(s)
  BY <1>3 DEF CreateWrapper, Arrives, Vacant
<1>4. CASE TerminateJob \/ KillRoot \/ \E s \in Pids : Exits(s) \/ KillVictim(s)
  BY <1>4 DEF TerminateJob, KillRoot, Exits, KillVictim, Leave
<1>6. CASE SpareRoot \/ \E s \in Pids : SpareVictim(s)
  BY <1>6 DEF SpareRoot, SpareVictim
<1>5. CASE AssignJob \/ Ask \/ PollFindsDead \/ Expires \/ Snapshot
  BY <1>5 DEF AssignJob, Ask, PollFindsDead, Expires, Snapshot, processes
<1> QED
  BY <1>1, <1>2, <1>3, <1>4, <1>5, <1>6 DEF Next, ShutdownStep

(* And not when the job holds the session: then closing kills it.          *)
LEMMA LetGoOutsideJob ==
  ASSUME OursInv, Next, NEW p \in Pids, kin[p] = "tree", kin'[p] = "stray"
  PROVE  ~inside
BY LetGoOnClosing
   DEF OursInv, TypeInv, TypeOK, RootKnown, RootOurs, JobOurs, Tree, Drop, RunnerDies, Closing

(* When the job took a wrapper without children, nothing of the session    *)
(* survives the group, whichever way the group ends (platform.rs:499, the  *)
(* job's KILL_ON_JOB_CLOSE).                                               *)
THEOREM NothingSurvivesTheJob == Spec => JobLeavesNothing
<1> DEFINE Survives == \A p \in Pids : kin[p] = "tree" /\ kin'[p] = "stray" => ~inside
<1>1. OursInv /\ [Next]_vars => [Survives]_vars
  BY LetGoOutsideJob
<1> QED
  BY <1>1, OursInit, OursStep, PTL DEF Spec, JobLeavesNothing

-----------------------------------------------------------------------------
(* The walk *)

(* A clean walk found only processes of the session, and an id on its list *)
(* is not given to anybody else without the list being dirty; the wrapper  *)
(* is not on it.                                                           *)
VictimsOurs ==
  /\ root \notin victims
  /\ pc # "walking" => victims = {}
  /\ pc = "walking" /\ clean => \A p \in victims : kin[p] \in {"tree", "free"}

CleanInv == OursInv /\ VictimsOurs

LEMMA CleanInit == Init => CleanInv
BY OursInit, PidAssumption DEF Init, CleanInv, VictimsOurs

(* What is listed under the ids of the tree, and only that, is reached.    *)
LEMMA DescendantsOurs ==
  ASSUME TypeInv, root \in Pids, \A p \in Strangers : parent[p] \notin Tree \cup {root}
  PROVE  Descendants \subseteq Tree
<1>1. Tree \cup {root} \in SUBSET Pids
  BY DEF Tree
<1>2. Closed(Tree \cup {root})
  BY DEF Closed, Strangers
<1> QED
  BY <1>1, <1>2 DEF Descendants

LEMMA CleanStep == CleanInv /\ [Next]_vars => CleanInv'
<1> SUFFICES ASSUME CleanInv, [Next]_vars PROVE VictimsOurs'
  BY OursStep DEF CleanInv
<1> USE PidAssumption DEF CleanInv, OursInv, TypeInv, TypeOK, RootKnown, VictimsOurs
<1>1. ASSUME NEW p \in Pids, NEW q \in Pids \cup {NoPid}, StrangerStarts(p, q) PROVE VictimsOurs'
  <2>1. UNCHANGED <<root, victims, pc>>
    BY <1>1 DEF StrangerStarts, group
  <2>2. ASSUME NEW v \in victims, clean' PROVE clean /\ kin'[v] = kin[v]
    BY <1>1, <2>2 DEF StrangerStarts, Arrives
  <2> QED
    BY <2>1, <2>2
<1>2. ASSUME NEW p \in Pids, NEW q \in Pids, TreeStarts(p, q) PROVE VictimsOurs'
  BY <1>2 DEF TreeStarts, Arrives, group
<1>3. ASSUME NEW p \in Pids, CreateWrapper(p) PROVE VictimsOurs'
  BY <1>3 DEF CreateWrapper, Arrives, walk
<1>4. CASE Snapshot
  <2>1. root' \notin victims'
    BY <1>4 DEF Snapshot, Descendants, group
  <2>2. clean' => victims' \subseteq Tree
    BY <1>4, DescendantsOurs DEF Snapshot
  <2> QED
    BY <1>4, <2>1, <2>2 DEF Snapshot, Tree, processes
<1>5. ASSUME NEW ps, NEW c, Leave(ps, c), UNCHANGED group, UNCHANGED clean,
             victims' \subseteq victims, pc' = "walking" => pc = "walking",
             pc' # "walking" => victims' = {}
      PROVE  VictimsOurs'
  BY <1>5 DEF Leave, group
<1>6. CASE TerminateJob \/ KillRoot \/ \E p \in Pids : Exits(p) \/ KillVictim(p)
  <2>1. CASE TerminateJob
    BY <2>1, <1>5 DEF TerminateJob, walk
  <2>2. CASE KillRoot
    BY <2>2, <1>5 DEF KillRoot, walk
  <2>3. ASSUME NEW p \in Pids, Exits(p) PROVE VictimsOurs'
    BY <2>3, <1>5 DEF Exits, walk
  <2>4. ASSUME NEW p \in Pids, KillVictim(p) PROVE VictimsOurs'
    BY <2>4, <1>5 DEF KillVictim
  <2> QED
    BY <1>6, <2>1, <2>2, <2>3, <2>4
<1>7. CASE Drop \/ RunnerDies
  BY <1>7 DEF Drop, RunnerDies, Closing
<1>10. CASE SpareRoot \/ \E p \in Pids : SpareVictim(p)
  <2>1. CASE SpareRoot
    BY <2>1 DEF SpareRoot, group, walk
  <2>2. ASSUME NEW p \in Pids, SpareVictim(p) PROVE VictimsOurs'
    BY <2>2 DEF SpareVictim, group
  <2> QED
    BY <1>10, <2>1, <2>2
<1>8. CASE AssignJob \/ Ask \/ PollFindsDead \/ Expires
  <2>1. UNCHANGED <<kin, root, victims>> /\ pc # "walking" /\ pc' # "walking"
    BY <1>8 DEF AssignJob, Ask, PollFindsDead, Expires, processes, group, walk
  <2> QED
    BY <2>1
<1>9. CASE UNCHANGED vars
  BY <1>9 DEF vars, processes, group, walk
<1> QED
  BY <1>1, <1>2, <1>3, <1>4, <1>6, <1>7, <1>8, <1>9, <1>10 DEF Next, ShutdownStep

(* kill_group (platform.rs:353) kills nobody else's process, provided that *)
(* none was listed under an id of the tree, and that no id on the list of  *)
(* victims was taken anew; the wrapper's own id is never another's.        *)
THEOREM StrangersAreSpared == Spec => StrangersSpared
<1> DEFINE Spares == \A p \in Pids : Kills(p) => kin[p] = "tree" \/ (p # root /\ ~clean)
<1>1. CleanInv /\ [Next]_vars => [Spares]_vars
  <2> SUFFICES ASSUME CleanInv, Next, NEW p \in Pids, Kills(p)
               PROVE  kin[p] = "tree" \/ (p # root /\ ~clean)
    OBVIOUS
  <2> USE DEF CleanInv, OursInv, TypeInv, TypeOK, RootKnown, RootOurs, VictimsOurs, Kills, Live
  <2>1. ASSUME NEW v \in Pids, KillVictim(v) PROVE kin[p] = "tree" \/ (p # root /\ ~clean)
    BY <2>1 DEF KillVictim, Leave
  <2>2. CASE KillRoot
    BY <2>2 DEF KillRoot, Leave
  <2>3. CASE RunnerDies
    BY <2>3 DEF RunnerDies, Closing, JobOurs, Tree
  <2>4. CASE \E s \in Pids, q \in Pids \cup {NoPid} : StrangerStarts(s, q)
    BY <2>4 DEF StrangerStarts
  <2>5. CASE (\E s, q \in Pids : TreeStarts(s, q)) \/ \E s \in Pids : Exits(s)
    BY <2>5 DEF TreeStarts, Exits, walk
  <2>6. CASE AssignJob \/ Ask \/ PollFindsDead \/ Expires \/ TerminateJob \/ Snapshot \/ Drop
             \/ \E s \in Pids : CreateWrapper(s)
    BY <2>6 DEF AssignJob, Ask, PollFindsDead, Expires, TerminateJob, Snapshot, Drop, CreateWrapper
  <2>7. CASE SpareRoot \/ \E s \in Pids : SpareVictim(s)
    BY <2>7 DEF SpareRoot, SpareVictim
  <2> QED
    BY <2>1, <2>2, <2>3, <2>4, <2>5, <2>6, <2>7 DEF Next, ShutdownStep
<1> QED
  BY <1>1, CleanInit, CleanStep, PTL DEF Spec, StrangersSpared

-----------------------------------------------------------------------------
(* The reach of the walk *)

(* A set of processes that contains the wrapper's id, whatever the session *)
(* started from a member, and the processes whose creator is gone.         *)
Grown(S) ==
  /\ root \in S
  /\ \A p \in Tree \cap orphan : parent[p] # root => p \in S
  /\ \A p \in Tree : parent[p] \in S => p \in S

(* Such a set contains the tree: every other process is linked to the root.*)
Linked == pc \notin {"idle", "gone"} => \A S \in SUBSET Pids : Grown(S) => Tree \subseteq S

(* What is left to be killed is on the list, or was passed over.           *)
Covered ==
  /\ pc = "walking" /\ complete => Tree \subseteq victims \cup {root} \cup spared
  /\ pc = "killed" /\ complete => Tree \subseteq spared

ReachInv == OursInv /\ Linked /\ Covered

LEMMA ReachInit == Init => ReachInv
BY OursInit DEF Init, ReachInv, Linked, Covered

(* Processes that end leave the others linked, or orphans.                 *)
LEMMA LinkedLeave ==
  ASSUME OursInv, Linked, NEW ps \in SUBSET Pids, NEW c, Leave(ps, c), root' = root,
         pc \notin {"idle", "gone"}
  PROVE  Linked'
<1> SUFFICES ASSUME NEW S \in SUBSET Pids, Grown(S)' PROVE Tree' \subseteq S
  BY DEF Linked
<1>1. Tree' = Tree \ ps /\ \A p \in Tree' : parent'[p] = parent[p]
  BY DEF Leave, Tree, OursInv, TypeInv, TypeOK
<1>2. \A p \in Tree : p \notin ps /\ (p \in orphan \/ parent[p] \in ps) => p \in orphan'
  BY DEF Leave, Tree, Live
<1>3. Grown(S \cup ps)
  <2>1. root \in S
    BY DEF Grown
  <2>2. ASSUME NEW p \in Tree, p \in orphan, parent[p] # root PROVE p \in S \cup ps
    BY <1>1, <1>2, <2>2 DEF Grown
  <2>3. ASSUME NEW p \in Tree, parent[p] \in S \cup ps PROVE p \in S \cup ps
    BY <1>1, <1>2, <2>1, <2>3 DEF Grown
  <2> QED
    BY <2>1, <2>2, <2>3 DEF Grown
<1> QED
  BY <1>1, <1>3 DEF Linked

LEMMA LinkedStep == OursInv /\ Linked /\ [Next]_vars => Linked'
<1> SUFFICES ASSUME OursInv, Linked, [Next]_vars PROVE Linked'
  OBVIOUS
<1> USE PidAssumption DEF OursInv, TypeInv, TypeOK, RootKnown, RootOurs
<1>1. ASSUME NEW p \in Pids, NEW q \in Pids \cup {NoPid}, StrangerStarts(p, q) PROVE Linked'
  <2>1. kin[p] = "free" /\ kin' = [kin EXCEPT ![p] = kin'[p]] /\ kin'[p] # "tree"
    BY <1>1 DEF StrangerStarts, Arrives, Vacant, Strangers, Live, Tree
  <2>2. /\ Tree' = Tree /\ Tree' \cap orphan' = Tree \cap orphan
        /\ \A t \in Tree : parent'[t] = parent[t]
    BY <1>1, <2>1 DEF StrangerStarts, Arrives, Tree
  <2> QED
    BY <1>1, <2>2 DEF StrangerStarts, Linked, Grown, group
<1>2. ASSUME NEW p \in Pids, NEW q \in Pids, TreeStarts(p, q) PROVE Linked'
  <2>1. /\ Tree' = Tree \cup {p} /\ p \notin Tree /\ q \in Tree /\ parent'[p] = q
        /\ Tree' \cap orphan' = Tree \cap orphan
        /\ \A t \in Tree : parent'[t] = parent[t]
    BY <1>2 DEF TreeStarts, Arrives, Vacant, Tree
  <2>2. root' = root /\ pc' = pc
    BY <1>2 DEF TreeStarts, group
  <2> SUFFICES ASSUME NEW S \in SUBSET Pids, Grown(S)', pc \notin {"idle", "gone"}
               PROVE  Tree' \subseteq S
    BY <2>2 DEF Linked
  <2>3. Grown(S)
    BY <2>1, <2>2 DEF Grown
  <2>4. Tree \subseteq S
    BY <2>3 DEF Linked
  <2> QED
    BY <2>1, <2>4 DEF Grown
<1>3. ASSUME NEW p \in Pids, CreateWrapper(p) PROVE Linked'
  <2>1. Tree' = {p} /\ root' = p
    BY <1>3 DEF CreateWrapper, Arrives, Tree
  <2> QED
    BY <2>1 DEF Linked, Grown
<1>4. ASSUME NEW p \in Pids, Exits(p) PROVE Linked'
  <2>1. CASE pc \in {"idle", "gone"}
    BY <1>4, <2>1 DEF Exits, Linked
  <2> QED
    BY <1>4, <2>1, LinkedLeave DEF Exits, group
<1>5. CASE TerminateJob \/ KillRoot \/ \E p \in Pids : KillVictim(p)
  BY <1>5, LinkedLeave DEF TerminateJob, KillRoot, KillVictim, Live, group
<1>6. CASE Drop \/ RunnerDies
  BY <1>6 DEF Drop, RunnerDies, Closing, Linked
<1>7. CASE AssignJob \/ Ask \/ PollFindsDead \/ Expires \/ Snapshot \/ SpareRoot \/ UNCHANGED vars
           \/ \E p \in Pids : SpareVictim(p)
  <2>1. UNCHANGED <<kin, parent, orphan, root>> /\ (pc \in {"idle", "gone"} => pc' = pc)
    BY <1>7 DEF AssignJob, Ask, PollFindsDead, Expires, Snapshot, SpareRoot, SpareVictim, vars, processes, group
  <2> QED
    BY <2>1 DEF Linked, Grown, Tree
<1> QED
  BY <1>1, <1>2, <1>3, <1>4, <1>5, <1>6, <1>7 DEF Next, ShutdownStep

LEMMA ReachStep == ReachInv /\ [Next]_vars => ReachInv'
<1> SUFFICES ASSUME ReachInv, [Next]_vars PROVE Covered'
  BY OursStep, LinkedStep DEF ReachInv
<1> USE PidAssumption DEF ReachInv, OursInv, TypeInv, TypeOK, RootKnown, RootOurs, Covered
<1>1. ASSUME NEW p \in Pids, NEW q \in Pids \cup {NoPid}, StrangerStarts(p, q) PROVE Covered'
  <2>1. Tree' = Tree /\ spared' = spared
    BY <1>1 DEF StrangerStarts, Arrives, Vacant, Strangers, Live, Tree
  <2> QED
    BY <1>1, <2>1 DEF StrangerStarts, group
<1>2. CASE \E p, q \in Pids : TreeStarts(p, q)
  BY <1>2 DEF TreeStarts
<1>3. CASE \E p \in Pids : CreateWrapper(p)
  BY <1>3 DEF CreateWrapper
<1>4. CASE Snapshot
  <2>1. ASSUME complete', NEW p \in Tree, p # root PROVE p \in Descendants
    <3>1. \A S \in SUBSET Pids : Closed(S) => Grown(S)
      BY <1>4, <2>1 DEF Snapshot, Closed, Grown, Tree, Live
    <3>2. \A S \in SUBSET Pids : Closed(S) => p \in S
      BY <1>4, <3>1 DEF Snapshot, Linked
    <3> QED
      BY <2>1, <3>2 DEF Descendants, Tree, Live
  <2>2. complete' => victims' = Descendants
    BY <1>4 DEF Snapshot
  <2> QED
    BY <1>4, <2>1, <2>2 DEF Snapshot, Tree, processes, group
<1>5. ASSUME NEW p \in Pids, KillVictim(p) PROVE Covered'
  <2>1. Tree' = Tree \ {p} /\ spared \ {p} \subseteq spared'
    BY <1>5 DEF KillVictim, Leave, Live, Tree
  <2> QED
    BY <1>5, <2>1 DEF KillVictim, group
<1>6. CASE KillRoot
  <2>1. Tree' = Tree \ {root} /\ spared \ {root} \subseteq spared'
    BY <1>6 DEF KillRoot, Leave, Live, Tree
  <2> QED
    BY <1>6, <2>1 DEF KillRoot, group, walk
<1>7. ASSUME NEW p \in Pids, Exits(p) PROVE Covered'
  <2>1. Tree' = Tree \ {p} /\ spared' = spared \ {p}
    BY <1>7 DEF Exits, Leave, Tree
  <2> QED
    BY <1>7, <2>1 DEF Exits, group, walk
<1>11. CASE SpareRoot \/ \E p \in Pids : SpareVictim(p)
  <2>1. Tree' = Tree
    BY <1>11 DEF SpareRoot, SpareVictim, Tree
  <2> QED
    BY <1>11, <2>1 DEF SpareRoot, SpareVictim, group, walk
<1>8. CASE Drop \/ RunnerDies
  BY <1>8 DEF Drop, RunnerDies, Closing
<1>9. CASE AssignJob \/ Ask \/ PollFindsDead \/ Expires \/ TerminateJob
  BY <1>9 DEF AssignJob, Ask, PollFindsDead, Expires, TerminateJob
<1>10. CASE UNCHANGED vars
  BY <1>10 DEF vars, processes, group, walk, Tree
<1> QED
  BY <1>1, <1>2, <1>3, <1>4, <1>5, <1>6, <1>7, <1>8, <1>9, <1>10, <1>11 DEF Next, ShutdownStep

(* kill_group (platform.rs:353) ends the whole session but for what the    *)
(* system refused it, with or without a job, when the walk was complete:   *)
(* the wrapper may have ended long ago.                                    *)
THEOREM WholeSubtreeKilled == Spec => []SubtreeKilled
<1>1. ReachInv => SubtreeKilled
  BY DEF ReachInv, Covered, SubtreeKilled
<1> QED
  BY <1>1, ReachInit, ReachStep, PTL DEF Spec

(* Why a process of the session may outlive its group: there is no other   *)
(* way than the four that StraysExplained lists.                           *)
THEOREM StraysAreExplained == Spec => StraysExplained
<1> DEFINE Explained ==
      \A p \in Pids : kin[p] = "tree" /\ kin'[p] = "stray" =>
        /\ ~inside
        /\ pc = "over" \/ (pc = "killed" /\ (~complete \/ p \in spared)) \/ pc' = "gone"
<1>1. ReachInv /\ [Next]_vars => [Explained]_vars
  <2> SUFFICES ASSUME ReachInv, Next, NEW p \in Pids, kin[p] = "tree", kin'[p] = "stray"
               PROVE  /\ ~inside
                      /\ pc = "over" \/ (pc = "killed" /\ (~complete \/ p \in spared)) \/ pc' = "gone"
    OBVIOUS
  <2>1. ~inside
    BY LetGoOutsideJob DEF ReachInv
  <2>2. CASE Drop
    BY <2>1, <2>2 DEF Drop, ReachInv, Covered, Tree
  <2>3. CASE RunnerDies
    BY <2>1, <2>3 DEF RunnerDies, Closing
  <2> QED
    BY <2>2, <2>3, LetGoOnClosing DEF ReachInv
<1> QED
  BY <1>1, ReachInit, ReachStep, PTL DEF Spec, StraysExplained
=============================================================================
