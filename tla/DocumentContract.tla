-------------------------- MODULE DocumentContract --------------------------
(***************************************************************************)
(* What ocs.doc promises to the code that uses it, without mutexes,        *)
(* handle index, positions or messages: the document is a set of handles;  *)
(* a read takes effect at one instant of its call and delivers what was in *)
(* the view at that instant; only refresh changes the view; and the host   *)
(* has seen to a write, at most once, when the call returns over a         *)
(* connection that is up, while no other Python thread touches ocs.doc.    *)
(* README.md:4-6, 27 and 217-218 of the repository are the promises;       *)
(* DocumentView implements this module.                                    *)
(***************************************************************************)
CONSTANTS Threads, Handles

VARIABLES
  doc,        \* the host's entities
  published,  \* those of the snapshot the host published last
  view,       \* those Python sees
  call,       \* thread -> the call it is in, until that takes effect, and then "delivering"
  wanted,     \* thread -> the handle of its entity() call
  result,     \* thread -> the entities it is being handed
  asked,      \* what the host has still to do for the thread that writes
  connected   \* it can be asked

vars == <<doc, published, view, call, wanted, result, asked, connected>>

Operations == {"add", "remove", "in_place"}

(* A view without a snapshot reads as an empty one.                        *)
Init ==
  /\ doc \subseteq Handles
  /\ published \in {doc, {}}
  /\ view = published
  /\ call = [t \in Threads |-> "none"]
  /\ wanted \in [Threads -> Handles]
  /\ result = [t \in Threads |-> {}]
  /\ asked = "nothing"
  /\ connected \in BOOLEAN

(* Nobody waits for the host; nobody is being handed entities.             *)
Quiet    == \A t \in Threads : call[t] # "writing"
Unpinned == \A t \in Threads : call[t] # "delivering"

Calls(t, from, to) ==
  /\ call[t] = from
  /\ call' = [call EXCEPT ![t] = to]
  /\ UNCHANGED <<doc, published, connected>>

-----------------------------------------------------------------------------
(* Reading *)

Start(t) ==
  /\ Quiet
  /\ \E m \in {"refresh", "count", "scan"} : Calls(t, "none", m)
  /\ UNCHANGED <<view, wanted, result, asked>>

StartEntity(t, h) ==
  /\ Quiet
  /\ Calls(t, "none", "entity")
  /\ wanted' = [wanted EXCEPT ![t] = h]
  /\ UNCHANGED <<view, result, asked>>

(* The one step that changes what Python sees.                             *)
Refresh(t) ==
  /\ Quiet /\ Unpinned
  /\ Calls(t, "refresh", "none")
  /\ view' = published
  /\ UNCHANGED <<wanted, result, asked>>

Count(t) ==
  /\ Quiet /\ Unpinned
  /\ Calls(t, "count", "none")
  /\ UNCHANGED <<view, wanted, result, asked>>

Hand(t, from, entities) ==
  /\ Quiet /\ Unpinned
  /\ Calls(t, from, IF entities = {} THEN "none" ELSE "delivering")
  /\ result' = [result EXCEPT ![t] = entities]
  /\ UNCHANGED <<view, wanted, asked>>

(* entities() hands out the whole view, entity(h) is h if it is in there.  *)
Scan(t)   == Hand(t, "scan", view)
Entity(t) == Hand(t, "entity", view \intersect {wanted[t]})

Deliver(t) ==
  /\ Quiet
  /\ Calls(t, "delivering", "none")
  /\ result' = [result EXCEPT ![t] = {}]
  /\ UNCHANGED <<view, wanted, asked>>

-----------------------------------------------------------------------------
(* Writing *)

Write(t) ==
  /\ Quiet /\ connected
  /\ Calls(t, "none", "writing")
  /\ asked' \in Operations
  /\ UNCHANGED <<view, wanted, result>>

(* What may become of the document; the host may also refuse.              *)
Does(op) ==
  CASE op = "add"      -> doc \subseteq doc' /\ doc' \subseteq Handles
    [] op = "remove"   -> \E h \in Handles : doc' = doc \ {h}
    [] op = "in_place" -> doc' = doc

CarryOut ==
  /\ asked # "nothing"
  /\ Does(asked) \/ doc' = doc
  /\ asked' = "nothing"
  /\ UNCHANGED <<published, view, call, wanted, result, connected>>

(* With the connection up a write returns only when the host has answered. *)
Return(t) ==
  /\ asked = "nothing"
  /\ Calls(t, "writing", "none")
  /\ UNCHANGED <<view, wanted, result, asked>>

(* A request that is not carried out by now never is.                      *)
HangUp ==
  /\ connected
  /\ connected' = FALSE
  /\ asked' = "nothing"
  /\ UNCHANGED <<doc, published, view, call, wanted, result>>

-----------------------------------------------------------------------------
(* The host *)

Edit ==
  /\ doc' \subseteq Handles
  /\ UNCHANGED <<published, view, call, wanted, result, asked, connected>>

Publish ==
  /\ published' = doc
  /\ UNCHANGED <<doc, view, call, wanted, result, asked, connected>>

Next ==
  \/ \E t \in Threads :
       \/ Start(t) \/ Refresh(t) \/ Count(t) \/ Scan(t) \/ Entity(t) \/ Deliver(t)
       \/ Write(t) \/ Return(t)
  \/ \E t \in Threads, h \in Handles : StartEntity(t, h)
  \/ CarryOut \/ HangUp \/ Edit \/ Publish

Spec == Init /\ [][Next]_vars
=============================================================================
