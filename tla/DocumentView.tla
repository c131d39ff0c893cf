---------------------------- MODULE DocumentView ----------------------------
(***************************************************************************)
(* ocs.doc, the document handle of a REPL process (src/src/document.rs).   *)
(* Reads go to a shared snapshot that the host republishes, through an     *)
(* index from handle to position that refresh rebuilds; writes are         *)
(* requests over one connection, answered in order.                        *)
(*                                                                         *)
(* The actors are the Python threads of the REPL, which share the          *)
(* interpreter lock and the two mutexes of Document, and the host.  Every  *)
(* method of Document holds the interpreter lock from its call to its      *)
(* return, except where it makes Python objects of entities: their         *)
(* constructors are Python code, in which the interpreter may switch       *)
(* threads.                                                                *)
(*                                                                         *)
(* Handles bounds the entities of the document.                            *)
(***************************************************************************)
EXTENDS Naturals, Sequences, FiniteSets

CONSTANTS Threads, NoThread, Handles, NoSnapshot

ASSUME DocumentAssumption ==
  /\ NoThread \notin Threads
  /\ IsFiniteSet(Handles)
  /\ NoSnapshot \notin Seq(Handles)

VARIABLES
  doc,        \* the host's entities, by handle, in order
  published,  \* the snapshot the host published last
  fresh,      \* it is newer than the one the reader has mapped
  view,       \* SharedDocumentReader: the mapped snapshot
  index,      \* handle_index: position in the view, 0 for no entry
  gil,        \* the thread that holds the interpreter lock
  reader,     \* the thread that holds the reader mutex
  indexer,    \* the thread that holds the handle_index mutex
  pc,         \* thread -> where it is in Document, "python" outside
  wanted,     \* thread -> the handle an entity() call asked for
  connected,  \* the request connection is up
  requests,   \* requests on the wire
  answers     \* answers on the wire

host == <<doc, published>>
wire == <<connected, requests, answers>>
vars == <<doc, published, fresh, view, index, gil, reader, indexer, pc, wanted,
          connected, requests, answers>>

(* "add" stands for add and add_many, "in_place" for update and the three  *)
(* record calls, which leave the list of entities as it is.                *)
Operations == {"add", "remove", "in_place"}
Requests   == [from : Threads, op : Operations]

(* A document lists every entity once.                                     *)
Documents ==
  {d \in UNION {[1 .. n -> Handles] : n \in 0 .. Cardinality(Handles)} :
     \A i, j \in DOMAIN d : d[i] = d[j] => i = j}
Snapshots == Documents \cup {NoSnapshot}
Listed(d) == {d[i] : i \in DOMAIN d}

Pcs == {"python", "refresh", "remapped", "rebuilding", "count", "scan", "entity",
        "lookup", "converting", "awaiting"}

TypeOK ==
  /\ doc \in Documents
  /\ published \in Snapshots
  /\ fresh \in BOOLEAN
  /\ view \in Snapshots
  /\ index \in [Handles -> 0 .. Cardinality(Handles)]
  /\ gil \in Threads \cup {NoThread}
  /\ reader \in Threads \cup {NoThread}
  /\ indexer \in Threads \cup {NoThread}
  /\ pc \in [Threads -> Pcs]
  /\ wanted \in [Threads -> Handles]
  /\ connected \in BOOLEAN
  /\ requests \in Seq(Requests)
  /\ answers \in Seq(Requests)

(* Slip: positions counted from one in a list counted from one.            *)
IndexFromOne(snapshot) ==
  [h \in Handles |->
     IF snapshot # NoSnapshot /\ h \in Listed(snapshot)
       THEN 1 + CHOOSE i \in DOMAIN snapshot : snapshot[i] = h ELSE 0]

(* What rebuild_handle_index makes of a payload, none included.            *)
IndexOf(snapshot) ==
  [h \in Handles |->
     IF snapshot # NoSnapshot /\ h \in Listed(snapshot)
       THEN CHOOSE i \in DOMAIN snapshot : snapshot[i] = h ELSE 0]

(* Document::new opens whatever the host has published by then, possibly   *)
(* nothing, and goes on without a connection if it cannot have one.        *)
Init ==
  /\ doc \in Documents
  /\ published \in {doc, NoSnapshot}
  /\ fresh = FALSE
  /\ view = published
  /\ index = IndexOf(view)
  /\ gil = NoThread
  /\ reader = NoThread
  /\ indexer = NoThread
  /\ pc = [t \in Threads |-> "python"]
  /\ wanted \in [Threads -> Handles]
  /\ connected \in BOOLEAN
  /\ requests = <<>>
  /\ answers = <<>>

-----------------------------------------------------------------------------
(* The interpreter lock *)

(* Slips: let go of the interpreter lock around the blocking request, or   *)
(* around the locks that refresh takes.                                    *)
SwitchesInRequest == {"python", "converting", "awaiting"}
SwitchesInRefresh == {"python", "converting", "remapped"}

(* Where the interpreter may run another thread.                           *)
Switchable == {"python", "converting"}

SwitchIn(t) ==
  /\ gil = NoThread
  /\ pc[t] \in Switchable
  /\ gil' = t
  /\ UNCHANGED <<host, wire, fresh, view, index, reader, indexer, pc, wanted>>

SwitchOut(t) ==
  /\ gil = t
  /\ pc[t] \in Switchable
  /\ gil' = NoThread
  /\ UNCHANGED <<host, wire, fresh, view, index, reader, indexer, pc, wanted>>

-----------------------------------------------------------------------------
(* Reading *)

Goes(t, from, to) ==
  /\ gil = t
  /\ pc[t] = from
  /\ pc' = [pc EXCEPT ![t] = to]
  /\ UNCHANGED <<host, wire, gil>>

Call(t) ==
  /\ \E m \in {"refresh", "count", "scan"} : Goes(t, "python", m)
  /\ UNCHANGED <<fresh, view, index, reader, indexer, wanted>>

CallEntity(t, h) ==
  /\ Goes(t, "python", "entity")
  /\ wanted' = [wanted EXCEPT ![t] = h]
  /\ UNCHANGED <<fresh, view, index, reader, indexer>>

(* Slip: remap without the reader mutex.                                   *)
RemapUnlocked(t) ==
  /\ Goes(t, "refresh", "remapped")
  /\ view' = published
  /\ fresh' = FALSE
  /\ UNCHANGED <<index, reader, indexer, wanted>>

(* refresh, up to drop(reader).                                            *)
Remap(t) ==
  /\ reader = NoThread
  /\ Goes(t, "refresh", IF fresh THEN "remapped" ELSE "python")
  /\ view' = IF fresh THEN published ELSE view
  /\ fresh' = FALSE
  /\ UNCHANGED <<index, reader, indexer, wanted>>

(* rebuild_handle_index takes the reader mutex anew, then the index's.     *)
LockForRebuild(t) ==
  /\ reader = NoThread
  /\ Goes(t, "remapped", "rebuilding")
  /\ reader' = t
  /\ UNCHANGED <<fresh, view, index, indexer, wanted>>

Rebuild(t) ==
  /\ indexer = NoThread
  /\ Goes(t, "rebuilding", "python")
  /\ index' = IndexOf(view)
  /\ reader' = NoThread
  /\ UNCHANGED <<fresh, view, indexer, wanted>>

(* layers, counts: all in Rust, Python objects only after the unlock.      *)
Count(t) ==
  /\ reader = NoThread
  /\ Goes(t, "count", "python")
  /\ UNCHANGED <<fresh, view, index, reader, indexer, wanted>>

(* entities: the reader mutex stays locked while Python objects are made.  *)
Scan(t) ==
  /\ reader = NoThread
  /\ \/ /\ view \in {NoSnapshot, <<>>}
        /\ Goes(t, "scan", "python")
        /\ UNCHANGED reader
     \/ /\ view \notin {NoSnapshot, <<>>}
        /\ Goes(t, "scan", "converting")
        /\ reader' = t
  /\ UNCHANGED <<fresh, view, index, indexer, wanted>>

(* entity: both mutexes stay locked while the Python object is made.       *)
LockForEntity(t) ==
  /\ reader = NoThread
  /\ \/ /\ view = NoSnapshot
        /\ Goes(t, "entity", "python")
        /\ UNCHANGED reader
     \/ /\ view # NoSnapshot
        /\ Goes(t, "entity", "lookup")
        /\ reader' = t
  /\ UNCHANGED <<fresh, view, index, indexer, wanted>>

Lookup(t) ==
  /\ indexer = NoThread
  /\ \/ /\ index[wanted[t]] = 0
        /\ Goes(t, "lookup", "python")
        /\ reader' = NoThread
        /\ UNCHANGED indexer
     \/ /\ index[wanted[t]] # 0
        /\ Goes(t, "lookup", "converting")
        /\ indexer' = t
        /\ UNCHANGED reader
  /\ UNCHANGED <<fresh, view, index, wanted>>

(* Slip: the reader mutex stays locked.                                    *)
ConvertedKeepsLock(t) ==
  /\ Goes(t, "converting", "python")
  /\ indexer' = IF indexer = t THEN NoThread ELSE indexer
  /\ UNCHANGED <<fresh, view, index, reader, wanted>>

(* entity_to_py is through, or raised: either way the guards are dropped.  *)
Converted(t) ==
  /\ Goes(t, "converting", "python")
  /\ reader' = NoThread
  /\ indexer' = IF indexer = t THEN NoThread ELSE indexer
  /\ UNCHANGED <<fresh, view, index, wanted>>

-----------------------------------------------------------------------------
(* Writing: add, add_many, update, remove and the three record calls *)

(* py_to_entity has run, as Python; without a connection the call raises   *)
(* and nothing changes.  request() blocks with the interpreter lock held.  *)
Request(t) ==
  /\ gil = t
  /\ pc[t] = "python"
  /\ connected
  /\ pc' = [pc EXCEPT ![t] = "awaiting"]
  /\ \E op \in Operations : requests' = Append(requests, [from |-> t, op |-> op])
  /\ UNCHANGED <<host, fresh, view, index, gil, reader, indexer, wanted, connected, answers>>

(* The next answer on the connection, or an error when it is down.         *)
Receive(t) ==
  /\ gil = t
  /\ pc[t] = "awaiting"
  /\ connected => answers # <<>>
  /\ pc' = [pc EXCEPT ![t] = "python"]
  /\ answers' = IF connected THEN Tail(answers) ELSE answers
  /\ UNCHANGED <<host, fresh, view, index, gil, reader, indexer, wanted, connected, requests>>

(* The documents a request may leave; contents of entities are not kept.   *)
Effects(op) ==
  CASE op = "add" ->
         {d \in Documents : \A i \in DOMAIN doc : i \in DOMAIN d /\ d[i] = doc[i]}
    [] op = "remove" ->
         {d \in Documents : \E h \in Handles : Listed(d) = Listed(doc) \ {h}}
    [] op = "in_place" -> {doc}

HostAnswers ==
  /\ requests # <<>>
  /\ doc' \in Effects(Head(requests).op) \cup {doc}  \* done, or refused
  /\ requests' = Tail(requests)
  /\ answers' = Append(answers, Head(requests))
  /\ UNCHANGED <<published, fresh, view, index, gil, reader, indexer, pc, wanted, connected>>

HostEdits ==
  /\ doc' \in Documents
  /\ UNCHANGED <<published, fresh, view, index, gil, reader, indexer, pc, wanted, wire>>

Publish ==
  /\ published' = doc
  /\ fresh' = TRUE
  /\ UNCHANGED <<doc, view, index, gil, reader, indexer, pc, wanted, wire>>

(* The session is shut down under the REPL.                                *)
Disconnect ==
  /\ connected
  /\ connected' = FALSE
  /\ requests' = <<>>
  /\ answers' = <<>>
  /\ UNCHANGED <<host, fresh, view, index, gil, reader, indexer, pc, wanted>>

-----------------------------------------------------------------------------
Step(t) ==
  \/ Remap(t) \/ LockForRebuild(t) \/ Rebuild(t) \/ Count(t) \/ Scan(t)
  \/ LockForEntity(t) \/ Lookup(t) \/ Converted(t) \/ Receive(t)

Next ==
  \/ \E t \in Threads : SwitchIn(t) \/ SwitchOut(t) \/ Call(t) \/ Request(t) \/ Step(t)
  \/ \E t \in Threads, h \in Handles : CallEntity(t, h)
  \/ HostAnswers \/ HostEdits \/ Publish \/ Disconnect

(* CPython makes the holder of the interpreter lock give way to a waiting  *)
(* thread; a thread gets some work done each time it holds the lock, so a  *)
(* conversion ends; and the host answers.  Nothing makes anybody call or   *)
(* publish.                                                                *)
Fairness ==
  /\ \A t \in Threads :
       /\ WF_vars(Step(t)) /\ SF_vars(Converted(t))
       /\ SF_vars(SwitchIn(t)) /\ SF_vars(SwitchOut(t))
  /\ WF_vars(HostAnswers)

Spec == Init /\ [][Next]_vars /\ Fairness

-----------------------------------------------------------------------------
(* Properties *)

(* entity(h) answers from the snapshot that is mapped: an index entry it   *)
(* uses points into that snapshot, at h, and a handle it does not find is  *)
(* not in it.  Between drop(reader) and the rebuild only the interpreter   *)
(* lock keeps other threads from the old index and the new snapshot.       *)
LookupRight ==
  \A t \in Threads :
    pc[t] = "lookup" \/ (pc[t] = "converting" /\ indexer = t) =>
      LET i == index[wanted[t]]
      IN IF i = 0 THEN wanted[t] \notin Listed(view)
                  ELSE i \in DOMAIN view /\ view[i] = wanted[t]

(* The mapped memory is not exchanged under a thread that iterates over    *)
(* it, also while that thread has lost the interpreter lock.               *)
ViewPinned ==
  [][\A t \in Threads : pc[t] \in {"lookup", "converting"} => view' = view /\ index' = index]_vars

(* What DocumentContract sees of this module: which handles are listed,    *)
(* where a call has not taken effect yet, and what is being converted.     *)
Entities(snapshot) == IF snapshot = NoSnapshot THEN {} ELSE Listed(snapshot)

ContractCall(t) ==
  CASE pc[t] \in {"refresh", "count", "scan", "entity"} -> pc[t]
    [] pc[t] = "lookup"     -> "entity"
    [] pc[t] = "converting" -> "delivering"
    [] pc[t] = "awaiting"   -> "writing"
    [] OTHER                -> "none"

ContractResult(t) ==
  IF pc[t] # "converting" THEN {}
  ELSE IF indexer = t THEN {view[index[wanted[t]]]} ELSE Entities(view)

Contract ==
  INSTANCE DocumentContract WITH
    doc <- Listed(doc),
    published <- Entities(published),
    view <- Entities(view),
    call <- [t \in Threads |-> ContractCall(t)],
    result <- [t \in Threads |-> ContractResult(t)],
    asked <- IF requests = <<>> THEN "nothing" ELSE Head(requests).op

(* With two mutexes taken one after the other, a third lock that comes and *)
(* goes in between and an index rebuilt after the snapshot was exchanged,  *)
(* every call still takes effect at one instant.                           *)
ImplementsContract == Contract!Spec

(* Answers carry no request id: the next one on the connection is the      *)
(* caller's own.                                                           *)
OwnAnswer ==
  \A t \in Threads :
    pc[t] = "awaiting" /\ answers # <<>> => Head(answers).from = t

(* A thread that waits for a mutex holds the interpreter lock.  It can     *)
(* only be waiting for the reader mutex, of a thread that was switched out *)
(* while it made Python objects, and never in the middle of a refresh.     *)
Waits(t) == gil = t /\ pc[t] \in {"refresh", "remapped", "count", "scan", "entity"}
                    /\ reader # NoThread
Stuck    == \E t \in Threads : Waits(t) /\ reader # t /\ pc[reader] = "converting"

StuckOnlyInConversion ==
  \A t \in Threads :
    /\ Waits(t) => reader # t /\ pc[reader] = "converting" /\ pc[t] # "remapped"
    /\ gil = t /\ pc[t] \in {"rebuilding", "lookup"} => indexer = NoThread

(* Every call returns, or the REPL is stuck in the one way described.      *)
CallReturnsOrStuck ==
  \A t \in Threads : (pc[t] # "python") ~> (pc[t] = "python" \/ Stuck)
=============================================================================
