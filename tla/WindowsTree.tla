----------------------------- MODULE WindowsTree -----------------------------
(***************************************************************************)
(* The processes of a REPL session on Windows (src/src/platform.rs): the   *)
(* wrapper is put into a job object after it was created, and shut down by *)
(* Ctrl+Break, by the job, and by a walk over a snapshot of the system's   *)
(* process table.                                                          *)
(*                                                                         *)
(* The process table is the system's.  A process id is taken again as soon *)
(* as its process has ended and nobody holds a handle to it, and a process *)
(* is listed under the id of its creator for good, also when that id is    *)
(* somebody else's by now.                                                 *)
(*                                                                         *)
(* Pids bounds the processes that exist at a time.                         *)
(***************************************************************************)
CONSTANTS Pids, NoPid

ASSUME PidAssumption == NoPid \notin Pids

VARIABLES
  kin,      \* pid -> "free", of this session ("tree"), of an earlier one that
            \* was let go ("stray"), or of somebody else ("other")
  parent,   \* pid -> th32ParentProcessID; NoPid if the creator is no concern
  orphan,   \* the processes whose creator has ended
  member,   \* the processes in the job of the group
  root,     \* ProcessGroup.pid; ProcessGroup.handle keeps the id from others
  job,      \* ProcessGroup.job is a handle
  code,     \* what GetExitCodeProcess says of the wrapper
  spared,   \* the processes that the walk could not open or terminate
  pc,       \* where the plugin is with the group
  victims,  \* descendants still to be killed
  inside,   \* when the job took the wrapper, it had started nothing yet
  complete, \* the walk found the whole tree, and the tree has not grown since
  clean     \* the walk found nothing but the tree, and no id was taken since

processes == <<kin, parent, orphan, member, code, spared>>
group     == <<root, job, inside>>
walk      == <<victims, complete, clean>>
vars      == <<processes, group, pc, walk>>

TypeOK ==
  /\ kin \in [Pids -> {"free", "tree", "stray", "other"}]
  /\ parent \in [Pids -> Pids \cup {NoPid}]
  /\ orphan \in SUBSET Pids
  /\ member \in SUBSET Pids
  /\ root \in Pids \cup {NoPid}
  /\ job \in BOOLEAN
  /\ code \in {"active", "done", "still_active"}
  /\ spared \in SUBSET Pids
  /\ pc \in {"idle", "created", "held", "asked", "expired", "terminated", "walking",
             "killed", "over", "gone"}
  /\ victims \in SUBSET Pids
  /\ inside \in BOOLEAN
  /\ complete \in BOOLEAN
  /\ clean \in BOOLEAN

Init ==
  /\ kin = [p \in Pids |-> "free"]
  /\ parent = [p \in Pids |-> NoPid]
  /\ orphan = {}
  /\ member = {}
  /\ root = NoPid
  /\ job = FALSE
  /\ code = "done"
  /\ spared = {}
  /\ pc = "idle"
  /\ victims = {}
  /\ inside = FALSE
  /\ complete = FALSE
  /\ clean = FALSE

-----------------------------------------------------------------------------
(* The process table *)

Live      == {p \in Pids : kin[p] # "free"}
Tree      == {p \in Pids : kin[p] = "tree"}
Strangers == Live \ Tree

(* Slip: the handle of the wrapper is closed as soon as it runs.           *)
VacantUnpinned(p) == kin[p] = "free"

(* An id that a new process may get.                                       *)
Vacant(p) == kin[p] = "free" /\ p # root

(* p starts, created by q, into q's job; q = NoPid is out of our sight.    *)
Arrives(p, k, q) ==
  /\ Vacant(p)
  /\ kin' = [kin EXCEPT ![p] = k]
  /\ parent' = [parent EXCEPT ![p] = q]
  /\ orphan' = orphan \ {p}
  /\ member' = IF q \in member THEN member \cup {p} ELSE member
  /\ UNCHANGED spared

(* The processes ps end; c is the wrapper's exit code if it is one of them.*)
Leave(ps, c) ==
  /\ kin' = [p \in Pids |-> IF p \in ps THEN "free" ELSE kin[p]]
  /\ parent' = [p \in Pids |-> IF p \in ps THEN NoPid ELSE parent[p]]
  /\ orphan' = (orphan \cup {p \in Live : parent[p] \in ps}) \ ps
  /\ member' = member \ ps
  /\ code' = IF root \in ps /\ code = "active" THEN c ELSE code
  /\ spared' = spared \ ps

(* A process of the system or of a let-go session starts another.          *)
StrangerStarts(p, q) ==
  /\ q \in Strangers \cup {NoPid}
  /\ Arrives(p, IF q = NoPid THEN "other" ELSE kin[q], q)
  /\ clean' = (clean /\ p \notin victims)
  /\ UNCHANGED <<code, group, pc, victims, complete>>

(* The wrapper starts IPython, and that whatever the user runs.            *)
TreeStarts(p, q) ==
  /\ q \in Tree
  /\ Arrives(p, "tree", q)
  /\ complete' = FALSE
  /\ UNCHANGED <<code, group, pc, victims, clean>>

(* Any process may end, by Ctrl+Break or by itself; the wrapper passes on  *)
(* the exit code of the REPL, which is the user's to choose.               *)
Exits(p) ==
  /\ p \in Live
  /\ \E c \in {"done", "still_active"} : Leave({p}, c)
  /\ UNCHANGED <<group, pc, walk>>

-----------------------------------------------------------------------------
(* spawn_wrapper_windows *)

(* One of the two CreateProcessW has worked; else nothing changes.         *)
CreateWrapper(p) ==
  /\ pc = "idle"
  /\ Arrives(p, "tree", NoPid)
  /\ root' = p
  /\ code' = "active"
  /\ pc' = "created"
  /\ UNCHANGED <<job, inside, walk>>

(* The wrapper runs already when the job is made for it, and may not be    *)
(* assignable: it has ended, or sits in a job that does not nest.          *)
AssignJob ==
  /\ pc = "created"
  /\ pc' = "held"
  /\ \/ /\ code = "active"
        /\ job' = TRUE
        /\ member' = {root}
        /\ inside' = (Tree = {root})
     \/ UNCHANGED <<job, member, inside>>
  /\ UNCHANGED <<kin, parent, orphan, root, code, spared, walk>>

-----------------------------------------------------------------------------
(* shutdown_group, kill_group and Drop *)

(* is_alive: STILL_ACTIVE is an exit code like any other.                  *)
IsAlive == code \in {"active", "still_active"}

(* The tab is closed, the plugin unloaded, or the session replaced.  What  *)
(* Ctrl+Break does to the tree is in Exits: nobody needs to react to it.   *)
Ask ==
  /\ pc = "held"
  /\ pc' = "asked"
  /\ UNCHANGED <<processes, group, walk>>

PollFindsDead ==
  /\ pc = "asked"
  /\ ~IsAlive
  /\ pc' = "over"
  /\ UNCHANGED <<processes, group, walk>>

(* Slip: give up waiting only when the wrapper is dead.                    *)
ExpiresWhenDead ==
  /\ pc = "asked"
  /\ ~IsAlive
  /\ pc' = "expired"
  /\ UNCHANGED <<processes, group, walk>>

(* The last poll in time finds the wrapper alive.                          *)
Expires ==
  /\ pc = "asked"
  /\ IsAlive
  /\ pc' = "expired"
  /\ UNCHANGED <<processes, group, walk>>

(* TerminateJobObject may fail, which nobody looks at.                     *)
TerminateJob ==
  /\ pc = "expired"
  /\ \E ps \in {{}, IF job THEN member ELSE {}} : Leave(ps, "done")
  /\ pc' = "terminated"
  /\ UNCHANGED <<group, walk>>

(* Slip: the children of the wrapper, but not theirs.                      *)
ChildrenOnly == {p \in Live \ {root} : parent[p] = root}

(* Slip: the two columns of the snapshot are swapped.                      *)
Ancestors == {parent[p] : p \in Live}

(* What the walk from the wrapper's id reaches in the snapshot: all that   *)
(* is in every set with the id that is closed under "listed under".        *)
Closed(S)   == root \in S /\ \A p \in Live : parent[p] \in S => p \in S
Descendants == {p \in Live \ {root} : \A S \in SUBSET Pids : Closed(S) => p \in S}

(* The snapshot may fail, and then the walk finds nothing.                 *)
Snapshot ==
  /\ pc = "terminated"
  /\ pc' = "walking"
  /\ victims' \in {Descendants, {}}
  /\ complete' = /\ victims' = Descendants
                 /\ \A p \in Tree \cap orphan : parent[p] = root
  /\ clean' = \A p \in Strangers : parent[p] \notin Tree \cup {root}
  /\ UNCHANGED <<processes, group>>

(* Whoever has the id now is terminated.  Children come before parents in  *)
(* the code; here the order is open.                                       *)
KillVictim(p) ==
  /\ pc = "walking"
  /\ p \in victims
  /\ Leave({p} \cap Live, "done")
  /\ victims' = victims \ {p}
  /\ UNCHANGED <<group, pc, complete, clean>>

(* The system does not open a process to everybody, nor terminate it: it   *)
(* is passed over, and lives on.                                           *)
SpareVictim(p) ==
  /\ pc = "walking"
  /\ p \in victims \cap Live
  /\ spared' = spared \cup {p}
  /\ victims' = victims \ {p}
  /\ UNCHANGED <<kin, parent, orphan, member, code, group, pc, complete, clean>>

KillRoot ==
  /\ pc = "walking"
  /\ victims = {}
  /\ Leave({root} \cap Live, "done")
  /\ pc' = "killed"
  /\ UNCHANGED <<group, walk>>

SpareRoot ==
  /\ pc = "walking"
  /\ victims = {}
  /\ root \in Live
  /\ spared' = spared \cup {root}
  /\ pc' = "killed"
  /\ UNCHANGED <<kin, parent, orphan, member, code, group, walk>>

(* The handles are closed; the last handle of the job takes its members    *)
(* along, and what is left of the tree is nobody's.                        *)
Closing(ps, next) ==
  /\ kin' = [p \in Pids |-> IF p \in ps THEN "free"
                            ELSE IF p \in Tree THEN "stray" ELSE kin[p]]
  /\ parent' = [p \in Pids |-> IF p \in ps THEN NoPid ELSE parent[p]]
  /\ orphan' = (orphan \cup {p \in Live : parent[p] \in ps}) \ ps
  /\ member' = {}
  /\ code' = "done"
  /\ spared' = {}
  /\ root' = NoPid
  /\ job' = FALSE
  /\ inside' = FALSE
  /\ victims' = {}
  /\ complete' = FALSE
  /\ clean' = FALSE
  /\ pc' = next

(* Slip: the handle of the job is never closed.                            *)
DropKeepsJob ==
  /\ pc \in {"killed", "over"}
  /\ Closing({}, "idle")

Drop ==
  /\ pc \in {"killed", "over"}
  /\ Closing(IF job THEN member ELSE {}, "idle")

(* The runner dies, by a crash, or by the Ctrl+Break it has sent to the    *)
(* console it was attached to itself: the system closes the handles.       *)
RunnerDies ==
  /\ pc # "gone"
  /\ Closing(IF job THEN member ELSE {}, "gone")

-----------------------------------------------------------------------------
ShutdownStep ==
  \/ PollFindsDead \/ Expires \/ TerminateJob \/ Snapshot
  \/ \E p \in Pids : KillVictim(p) \/ SpareVictim(p)
  \/ KillRoot \/ SpareRoot \/ Drop

Next ==
  \/ \E p \in Pids, q \in Pids \cup {NoPid} : StrangerStarts(p, q)
  \/ \E p, q \in Pids : TreeStarts(p, q)
  \/ \E p \in Pids : Exits(p) \/ CreateWrapper(p)
  \/ AssignJob \/ Ask \/ ShutdownStep \/ RunnerDies

(* A shutdown that has begun goes on: it is a thread of the runner, and    *)
(* each of its waits is limited.  Nothing else has to happen.              *)
Spec == Init /\ [][Next]_vars /\ WF_vars(ShutdownStep)

-----------------------------------------------------------------------------
(* Properties *)

(* kill_group ends the whole session but for what the system refused it,   *)
(* with or without a job, provided that the snapshot worked, that no       *)
(* process between the wrapper and one that lives had ended by then, and   *)
(* that the session started nothing after it.  The wrapper itself may have *)
(* ended: its handle keeps the links to it.                                *)
SubtreeKilled == pc = "killed" /\ complete => Tree \subseteq spared

(* Nobody else's process is killed, provided that none was listed under an *)
(* id of the tree, left there by an earlier owner of the id, and that no   *)
(* id on the list of victims was taken anew.  The wrapper's id never is.   *)
Kills(p) == /\ pc = "walking"
            /\ victims' # victims \/ pc' = "killed"
            /\ p \in Live /\ kin'[p] = "free"

StrangersSpared == [][\A p \in Pids : Kills(p) => kin[p] = "tree" \/ (p # root /\ ~clean)]_vars

(* When the job took a wrapper without children, nothing of the session    *)
(* survives the group, whichever way the group ends, the runner's death    *)
(* included, and however the wrapper ended.                                *)
JobLeavesNothing ==
  [][\A p \in Pids : kin[p] = "tree" /\ kin'[p] = "stray" => ~inside]_vars

(* What of a session outlives its group: the whole list.  The job did not  *)
(* take the wrapper in time, and the wrapper had ended before the shutdown *)
(* looked, so that nothing was killed at all, or the walk missed some of   *)
(* the tree, or could not end the process, or the runner died.             *)
StraysExplained ==
  [][\A p \in Pids : kin[p] = "tree" /\ kin'[p] = "stray" =>
       /\ ~inside
       /\ pc = "over" \/ (pc = "killed" /\ (~complete \/ p \in spared)) \/ pc' = "gone"]_vars

(* A shutdown ends, whatever the session's processes do.                   *)
ShutdownEnds == (pc = "asked") ~> (pc \in {"idle", "gone"})
=============================================================================
