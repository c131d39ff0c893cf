---------------------------- MODULE ReplContract ----------------------------
(***************************************************************************)
(* What PYTHONSHELL promises, without threads, directories or processes:   *)
(* a tab has at most one current REPL, a live REPL is never replaced, and  *)
(* a REPL that is no longer current is released unless the plugin's own    *)
(* process ends first.  README.md:30-33, 204-205 and 405-406 of the        *)
(* repository are the promises; ReplSessions implements this module.       *)
(***************************************************************************)
CONSTANTS Tabs, Sessions, NoSession

VARIABLES
  up,       \* the plugin's process is running
  current,  \* tab -> the REPL it is bound to, or NoSession
  status    \* REPL -> where it is in its life

vars == <<up, current, status>>

Status == {"fresh", "live", "dead", "retiring", "released", "abandoned"}

Init ==
  /\ up = TRUE
  /\ current = [t \in Tabs |-> NoSession]
  /\ status = [s \in Sessions |-> "fresh"]

Becomes(s, v) == status' = [r \in Sessions |-> IF r = s THEN v ELSE status[r]]

(* A tab gets a REPL when it has none, or only a dead one, which retires.  *)
Start(t, s, condition) ==
  /\ up
  /\ status[s] = "fresh"
  /\ current[t] # NoSession => status[current[t]] = "dead"
  /\ current' = [current EXCEPT ![t] = s]
  /\ status' = [r \in Sessions |->
                  IF r = s THEN condition
                  ELSE IF r = current[t] THEN "retiring" ELSE status[r]]
  /\ UNCHANGED up

(* A spawn that fails uses its REPL up without ever making it current.     *)
FailToStart(s) ==
  /\ up
  /\ status[s] = "fresh"
  /\ Becomes(s, "abandoned")
  /\ UNCHANGED <<up, current>>

(* The user closes the terminal, or the wrapper crashes.                   *)
Die(s) ==
  /\ status[s] = "live"
  /\ Becomes(s, "dead")
  /\ UNCHANGED <<up, current>>

(* The tab closes or the plugin unloads.                                   *)
Retire(t) ==
  /\ up
  /\ current[t] \in Sessions
  /\ current' = [current EXCEPT ![t] = NoSession]
  /\ Becomes(current[t], "retiring")
  /\ UNCHANGED up

Release(s) ==
  /\ up
  /\ status[s] = "retiring"
  /\ Becomes(s, "released")
  /\ UNCHANGED <<up, current>>

(* The process ends only after every tab has let go of its REPL.           *)
Exit ==
  /\ up
  /\ \A t \in Tabs : current[t] = NoSession
  /\ up' = FALSE
  /\ status' = [s \in Sessions |->
                  IF status[s] = "retiring" THEN "abandoned" ELSE status[s]]
  /\ UNCHANGED current

Next ==
  \/ \E t \in Tabs, s \in Sessions, c \in {"live", "dead"} : Start(t, s, c)
  \/ \E s \in Sessions : FailToStart(s) \/ Die(s) \/ Release(s)
  \/ \E t \in Tabs : Retire(t)
  \/ Exit

Spec == Init /\ [][Next]_vars /\ \A s \in Sessions : WF_vars(Release(s))

-----------------------------------------------------------------------------
(* What follows from it for every implementation *)

(* A tab is bound to a REPL that is up or has died on its own, never to    *)
(* one that is being taken down; no two tabs share a REPL; no REPL is up   *)
(* or dead without a tab to take it down; and the end of the process       *)
(* leaves nothing half done but what is accounted for as abandoned.        *)
TabsOwnRepls ==
  /\ \A t \in Tabs : current[t] # NoSession => status[current[t]] \in {"live", "dead"}
  /\ \A t, u \in Tabs : current[t] = current[u] /\ current[t] # NoSession => t = u
  /\ \A s \in Sessions : status[s] \in {"live", "dead"} => \E t \in Tabs : current[t] = s
  /\ ~up => \A s \in Sessions : status[s] \in {"fresh", "released", "abandoned"}

(* A user's REPL is not taken away in favour of another: whatever a step   *)
(* binds to a tab is newly started, and a REPL that is up leaves its tab   *)
(* only with nothing in its place.                                         *)
LiveNotReplaced ==
  [][\A t \in Tabs : current'[t] # current[t] /\ current'[t] # NoSession =>
       /\ status[current'[t]] = "fresh"
       /\ current[t] # NoSession => status[current[t]] = "dead" /\ status'[current[t]] = "retiring"]_vars

(* A REPL only moves on in its life; in particular what was released or    *)
(* abandoned is never started again, and a dead REPL never comes back.     *)
Later(v) ==
  CASE v = "fresh"    -> {"live", "dead", "abandoned"}
    [] v = "live"     -> {"dead", "retiring"}
    [] v = "dead"     -> {"retiring"}
    [] v = "retiring" -> {"released", "abandoned"}
    [] OTHER          -> {}

OneWayLife == [][\A s \in Sessions : status'[s] # status[s] => status'[s] \in Later(status[s])]_vars
=============================================================================
