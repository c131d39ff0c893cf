------------------------- MODULE DocumentViewProofs -------------------------
(***************************************************************************)
(* Machine-checked invariance proofs for DocumentView, for every finite    *)
(* set of handles and every set of Python threads.                         *)
(***************************************************************************)
EXTENDS DocumentView, FiniteSetTheorems, TLAPS

-----------------------------------------------------------------------------
(* Types *)

LEMMA CountIsNat == Cardinality(Handles) \in Nat
BY DocumentAssumption, FS_CardinalityType

(* A document is a sequence without repetitions, and never NoSnapshot.     *)
LEMMA DocumentFacts ==
  ASSUME NEW d \in Documents
  PROVE  /\ \E n \in 0 .. Cardinality(Handles) : d \in [1 .. n -> Handles]
         /\ d # NoSnapshot
<1>1. PICK n \in 0 .. Cardinality(Handles) : d \in [1 .. n -> Handles]
  BY DEF Documents
<1>2. n \in Nat
  BY CountIsNat
<1>3. d \in Seq(Handles)
  BY <1>1, <1>2
<1>4. QED BY <1>1, <1>3, DocumentAssumption

(* The index of a snapshot has a position for the handles listed, the      *)
(* right one, and no other entry.                                          *)
IndexFits(i, snapshot, h) ==
  /\ i \in 0 .. Cardinality(Handles)
  /\ i = 0 => snapshot = NoSnapshot \/ h \notin Listed(snapshot)
  /\ i # 0 => snapshot # NoSnapshot /\ i \in DOMAIN snapshot /\ snapshot[i] = h

LEMMA IndexOfFits ==
  ASSUME NEW snapshot \in Snapshots, NEW h \in Handles
  PROVE  IndexFits(IndexOf(snapshot)[h], snapshot, h)
<1> DEFINE i == IndexOf(snapshot)[h]
<1>1. CASE snapshot = NoSnapshot \/ h \notin Listed(snapshot)
  <2>1. i = 0
    BY <1>1 DEF IndexOf
  <2>2. QED BY <1>1, <2>1, CountIsNat DEF IndexFits
<1>2. CASE snapshot # NoSnapshot /\ h \in Listed(snapshot)
  <2>1. snapshot \in Documents
    BY <1>2 DEF Snapshots
  <2>2. PICK n \in 0 .. Cardinality(Handles) : snapshot \in [1 .. n -> Handles]
    BY <2>1, DocumentFacts
  <2>3. i = CHOOSE j \in DOMAIN snapshot : snapshot[j] = h
    BY <1>2 DEF IndexOf
  <2>4. \E j \in DOMAIN snapshot : snapshot[j] = h
    BY <1>2 DEF Listed
  <2>5. i \in DOMAIN snapshot /\ snapshot[i] = h
    BY <2>3, <2>4
  <2>6. i \in 1 .. n
    BY <2>2, <2>5
  <2>7. i # 0 /\ i \in 0 .. Cardinality(Handles)
    BY <2>6, CountIsNat
  <2>8. QED BY <1>2, <2>5, <2>7 DEF IndexFits
<1>3. QED BY <1>1, <1>2

(* The type invariant without the sequences of the wire, which WireInv     *)
(* describes exactly.                                                      *)
StateTypes ==
  /\ doc \in Documents
  /\ published \in Snapshots
  /\ fresh \in BOOLEAN
  /\ view \in Snapshots
  /\ index \in [Handles -> 0 .. Cardinality(Handles)]
  /\ gil \in Threads \cup {NoThread}
  /\ reader \in Threads \cup {NoThread}
  /\ indexer \in Threads \cup {NoThread}
  /\ pc \in [Threads -> Pcs]
  /\ wanted \in [Threads -> Handles]
  /\ connected \in BOOLEAN

LEMMA IndexOfType ==
  ASSUME NEW snapshot \in Snapshots
  PROVE  IndexOf(snapshot) \in [Handles -> 0 .. Cardinality(Handles)]
<1>1. \A h \in Handles : IndexOf(snapshot)[h] \in 0 .. Cardinality(Handles)
  BY IndexOfFits DEF IndexFits
<1>2. \E f : IndexOf(snapshot) = [h \in Handles |-> f[h]]
  <2>1. IndexOf(snapshot) = [h \in Handles |-> IndexOf(snapshot)[h]]
    BY DEF IndexOf
  <2>2. QED BY <2>1
<1>3. QED BY <1>1, <1>2

(* A request leaves a document, whatever the host makes of it.             *)
LEMMA EffectsType ==
  ASSUME doc \in Documents, NEW op \in Operations
  PROVE  Effects(op) \subseteq Documents
BY DEF Operations, Effects

-----------------------------------------------------------------------------
(* The wire: at most one request or its answer, and of a waiting thread *)

WireInv ==
  \/ /\ requests = <<>> /\ answers = <<>>
     /\ \A t \in Threads : pc[t] = "awaiting" => ~connected
  \/ /\ connected
     /\ \E t \in Threads, op \in Operations :
          /\ pc[t] = "awaiting"
          /\ gil = t
          /\ \/ requests = <<[from |-> t, op |-> op]>> /\ answers = <<>>
             \/ requests = <<>> /\ answers = <<[from |-> t, op |-> op]>>

(* Who holds the interpreter lock and the two mutexes: a thread outside    *)
(* the places where the interpreter may switch holds the lock.             *)
LockInv ==
  /\ \A t \in Threads : pc[t] \notin Switchable => gil = t
  /\ \A t \in Threads : reader = t <=> pc[t] \in {"rebuilding", "lookup", "converting"}
  /\ \A t \in Threads : indexer = t => pc[t] = "converting"
  /\ \A t \in Threads : pc[t] = "remapped" => reader = NoThread

(* The index is that of the mapped snapshot, but for the rest of a         *)
(* refresh, and who reads entities has a snapshot.                         *)
IndexInv ==
  /\ \/ index = IndexOf(view)
     \/ \E t \in Threads : pc[t] \in {"remapped", "rebuilding"}
  /\ \A t \in Threads : pc[t] \in {"lookup", "converting"} => view # NoSnapshot

DocumentInv == StateTypes /\ WireInv /\ LockInv /\ IndexInv

LEMMA DocumentInit == Init => DocumentInv
<1> SUFFICES ASSUME Init PROVE DocumentInv
  OBVIOUS
<1>1. StateTypes
  BY IndexOfType DEF Init, StateTypes, Snapshots, Pcs
<1>2. WireInv /\ LockInv /\ IndexInv
  BY DocumentAssumption DEF Init, WireInv, LockInv, IndexInv, Switchable
<1>3. QED BY <1>1, <1>2 DEF DocumentInv

LEMMA TypesStep == StateTypes /\ WireInv /\ [Next]_vars => StateTypes'
<1> SUFFICES ASSUME StateTypes, WireInv, [Next]_vars PROVE StateTypes'
  OBVIOUS
<1> USE DEF StateTypes, Pcs, host, wire
<1>1. ASSUME NEW t \in Threads, SwitchIn(t) \/ SwitchOut(t) \/ Call(t) \/ Request(t)
      PROVE  StateTypes'
  BY <1>1 DEF SwitchIn, SwitchOut, Call, Request, Goes
<1>2. ASSUME NEW t \in Threads, NEW h \in Handles, CallEntity(t, h)
      PROVE  StateTypes'
  BY <1>2 DEF CallEntity, Goes
<1>3. ASSUME NEW t \in Threads, Step(t)
      PROVE  StateTypes'
  <2>1. CASE Remap(t) \/ LockForRebuild(t) \/ Count(t) \/ Scan(t)
    BY <2>1 DEF Remap, LockForRebuild, Count, Scan, Goes
  <2>2. CASE Rebuild(t)
    BY <2>2, IndexOfType DEF Rebuild, Goes
  <2>3. CASE LockForEntity(t) \/ Lookup(t) \/ Converted(t) \/ Receive(t)
    BY <2>3 DEF LockForEntity, Lookup, Converted, Receive, Goes
  <2>4. QED BY <1>3, <2>1, <2>2, <2>3 DEF Step
<1>4. CASE HostAnswers
  <2>1. PICK t \in Threads, op \in Operations : requests = <<[from |-> t, op |-> op]>>
    BY <1>4 DEF HostAnswers, WireInv
  <2>2. Head(requests).op = op
    BY <2>1
  <2>3. doc' \in Documents
    BY <1>4, <2>2, EffectsType DEF HostAnswers
  <2>4. QED BY <1>4, <2>3 DEF HostAnswers
<1>5. CASE HostEdits \/ Publish \/ Disconnect
  BY <1>5 DEF HostEdits, Publish, Disconnect, Snapshots
<1>6. CASE UNCHANGED vars
  BY <1>6 DEF vars
<1>7. QED BY <1>1, <1>2, <1>3, <1>4, <1>5, <1>6 DEF Next

LEMMA WireStep == StateTypes /\ LockInv /\ WireInv /\ [Next]_vars => WireInv'
<1> SUFFICES ASSUME StateTypes, LockInv, WireInv, [Next]_vars PROVE WireInv'
  OBVIOUS
<1> USE DocumentAssumption DEF StateTypes, WireInv, LockInv, Switchable, host, wire
<1>1. ASSUME NEW t \in Threads, SwitchIn(t) \/ SwitchOut(t) \/ Call(t)
      PROVE  WireInv'
  BY <1>1 DEF SwitchIn, SwitchOut, Call, Goes
<1>2. ASSUME NEW t \in Threads, NEW h \in Handles, CallEntity(t, h)
      PROVE  WireInv'
  BY <1>2 DEF CallEntity, Goes
<1>3. ASSUME NEW t \in Threads, Request(t)
      PROVE  WireInv'
  <2>1. requests = <<>> /\ answers = <<>>
    BY <1>3 DEF Request
  <2>2. PICK op \in Operations : requests' = Append(requests, [from |-> t, op |-> op])
    BY <1>3 DEF Request
  <2>3. requests' = <<[from |-> t, op |-> op]>>
    BY <2>1, <2>2
  <2>4. QED BY <1>3, <2>1, <2>3 DEF Request
<1>4. ASSUME NEW t \in Threads, Receive(t)
      PROVE  WireInv'
  <2>1. CASE connected
    <3>1. PICK u \in Threads, op \in Operations :
            gil = u /\ requests = <<>> /\ answers = <<[from |-> u, op |-> op]>>
      BY <1>4, <2>1 DEF Receive
    <3>2. answers' = <<>> /\ requests' = <<>>
      BY <1>4, <2>1, <3>1 DEF Receive
    <3>3. \A v \in Threads : pc'[v] # "awaiting"
      BY <1>4, <3>1 DEF Receive
    <3>4. QED BY <3>2, <3>3
  <2>2. CASE ~connected
    BY <1>4, <2>2 DEF Receive
  <2>3. QED BY <2>1, <2>2
<1>5. ASSUME NEW t \in Threads, Step(t), ~Receive(t)
      PROVE  WireInv'
  <2>1. CASE Remap(t) \/ LockForRebuild(t) \/ Rebuild(t) \/ Count(t) \/ Scan(t)
    BY <2>1 DEF Remap, LockForRebuild, Rebuild, Count, Scan, Goes
  <2>2. CASE LockForEntity(t) \/ Lookup(t) \/ Converted(t)
    BY <2>2 DEF LockForEntity, Lookup, Converted, Goes
  <2>3. QED BY <1>5, <2>1, <2>2 DEF Step
<1>6. CASE HostAnswers
  <2>1. PICK t \in Threads, op \in Operations :
          /\ connected /\ pc[t] = "awaiting" /\ gil = t
          /\ requests = <<[from |-> t, op |-> op]>> /\ answers = <<>>
    BY <1>6 DEF HostAnswers
  <2>2. requests' = <<>> /\ answers' = <<[from |-> t, op |-> op]>>
    BY <1>6, <2>1 DEF HostAnswers
  <2>3. QED BY <1>6, <2>1, <2>2 DEF HostAnswers
<1>7. CASE HostEdits \/ Publish \/ Disconnect
  BY <1>7 DEF HostEdits, Publish, Disconnect
<1>8. CASE UNCHANGED vars
  BY <1>8 DEF vars
<1>9. QED BY <1>1, <1>2, <1>3, <1>4, <1>5, <1>6, <1>7, <1>8 DEF Next

LEMMA LockStep == StateTypes /\ LockInv /\ [Next]_vars => LockInv'
<1> SUFFICES ASSUME StateTypes, LockInv, [Next]_vars PROVE LockInv'
  OBVIOUS
<1> USE DocumentAssumption DEF StateTypes, LockInv, Switchable, host, wire
<1>1. ASSUME NEW t \in Threads, SwitchIn(t) \/ SwitchOut(t) \/ Call(t) \/ Request(t)
      PROVE  LockInv'
  BY <1>1 DEF SwitchIn, SwitchOut, Call, Request, Goes
<1>2. ASSUME NEW t \in Threads, NEW h \in Handles, CallEntity(t, h)
      PROVE  LockInv'
  BY <1>2 DEF CallEntity, Goes
<1>3. ASSUME NEW t \in Threads, Step(t)
      PROVE  LockInv'
  <2>1. CASE Remap(t) \/ LockForRebuild(t) \/ Rebuild(t) \/ Count(t)
    BY <2>1 DEF Remap, LockForRebuild, Rebuild, Count, Goes
  <2>2. CASE Scan(t) \/ LockForEntity(t) \/ Lookup(t)
    BY <2>2 DEF Scan, LockForEntity, Lookup, Goes
  <2>3. CASE Converted(t) \/ Receive(t)
    BY <2>3 DEF Converted, Receive, Goes
  <2>4. QED BY <1>3, <2>1, <2>2, <2>3 DEF Step
<1>4. CASE HostAnswers \/ HostEdits \/ Publish \/ Disconnect
  BY <1>4 DEF HostAnswers, HostEdits, Publish, Disconnect
<1>5. CASE UNCHANGED vars
  BY <1>5 DEF vars
<1>6. QED BY <1>1, <1>2, <1>3, <1>4, <1>5 DEF Next

LEMMA IndexStep == StateTypes /\ LockInv /\ IndexInv /\ [Next]_vars => IndexInv'
<1> SUFFICES ASSUME StateTypes, LockInv, IndexInv, [Next]_vars PROVE IndexInv'
  OBVIOUS
<1> USE DocumentAssumption DEF StateTypes, LockInv, IndexInv, Switchable, IndexOf, host, wire
<1>1. ASSUME NEW t \in Threads, SwitchIn(t) \/ SwitchOut(t) \/ Call(t) \/ Request(t)
      PROVE  IndexInv'
  BY <1>1 DEF SwitchIn, SwitchOut, Call, Request, Goes
<1>2. ASSUME NEW t \in Threads, NEW h \in Handles, CallEntity(t, h)
      PROVE  IndexInv'
  BY <1>2 DEF CallEntity, Goes
<1>3. ASSUME NEW t \in Threads, Step(t)
      PROVE  IndexInv'
  <2>1. CASE Remap(t) \/ LockForRebuild(t) \/ Rebuild(t)
    BY <2>1 DEF Remap, LockForRebuild, Rebuild, Goes
  <2>2. CASE Count(t) \/ Scan(t) \/ LockForEntity(t) \/ Lookup(t)
    BY <2>2 DEF Count, Scan, LockForEntity, Lookup, Goes
  <2>3. CASE Converted(t) \/ Receive(t)
    BY <2>3 DEF Converted, Receive, Goes
  <2>4. QED BY <1>3, <2>1, <2>2, <2>3 DEF Step
<1>4. CASE HostAnswers \/ HostEdits \/ Publish \/ Disconnect
  BY <1>4 DEF HostAnswers, HostEdits, Publish, Disconnect
<1>5. CASE UNCHANGED vars
  BY <1>5 DEF vars
<1>6. QED BY <1>1, <1>2, <1>3, <1>4, <1>5 DEF Next

LEMMA DocumentStep == DocumentInv /\ [Next]_vars => DocumentInv'
BY TypesStep, WireStep, LockStep, IndexStep DEF DocumentInv

-----------------------------------------------------------------------------
(* What follows *)

LEMMA ShortSequences ==
  ASSUME NEW S, NEW r \in S
  PROVE  <<>> \in Seq(S) /\ <<r>> \in Seq(S)
OBVIOUS

(* The document handle keeps its variables in their types.                 *)
THEOREM TypeCorrect == Spec => []TypeOK
<1>1. DocumentInv => TypeOK
  <2> SUFFICES ASSUME DocumentInv PROVE requests \in Seq(Requests) /\ answers \in Seq(Requests)
    BY DEF DocumentInv, StateTypes, TypeOK
  <2>1. CASE requests = <<>> /\ answers = <<>>
    BY <2>1
  <2>2. ASSUME NEW t \in Threads, NEW op \in Operations,
               \/ requests = <<[from |-> t, op |-> op]>> /\ answers = <<>>
               \/ requests = <<>> /\ answers = <<[from |-> t, op |-> op]>>
        PROVE  requests \in Seq(Requests) /\ answers \in Seq(Requests)
    <3>1. [from |-> t, op |-> op] \in Requests
      BY DEF Requests
    <3>2. <<>> \in Seq(Requests) /\ <<[from |-> t, op |-> op]>> \in Seq(Requests)
      BY <3>1, ShortSequences
    <3>3. QED BY <2>2, <3>2
  <2>3. QED BY <2>1, <2>2 DEF DocumentInv, WireInv
<1>2. QED BY <1>1, DocumentInit, DocumentStep, PTL DEF Spec

LEMMA LookupHolds == DocumentInv => LookupRight
<1> SUFFICES ASSUME DocumentInv, NEW t \in Threads, pc[t] \in {"lookup", "converting"}
             PROVE  LET i == index[wanted[t]]
                    IN  IF i = 0 THEN wanted[t] \notin Listed(view)
                                 ELSE i \in DOMAIN view /\ view[i] = wanted[t]
  BY DEF LookupRight
<1>1. index = IndexOf(view)
  BY DocumentAssumption DEF DocumentInv, StateTypes, LockInv, IndexInv
<1>2. wanted[t] \in Handles /\ view \in Snapshots
  BY DEF DocumentInv, StateTypes
<1>3. IndexFits(index[wanted[t]], view, wanted[t])
  BY <1>1, <1>2, IndexOfFits
<1>4. view # NoSnapshot
  BY DEF DocumentInv, IndexInv
<1>5. QED BY <1>3, <1>4 DEF IndexFits

(* An entity() call answers from the snapshot that is mapped.              *)
THEOREM LookupCorrect == Spec => []LookupRight
BY LookupHolds, DocumentInit, DocumentStep, PTL DEF Spec

(* The next answer on the connection is that of the thread that waits.     *)
THEOREM AnswerCorrect == Spec => []OwnAnswer
<1>1. DocumentInv => OwnAnswer
  <2> SUFFICES ASSUME DocumentInv, NEW t \in Threads, pc[t] = "awaiting", answers # <<>>
               PROVE  Head(answers).from = t
    BY DEF OwnAnswer
  <2>1. PICK u \in Threads, op \in Operations : gil = u /\ answers = <<[from |-> u, op |-> op]>>
    BY DEF DocumentInv, WireInv
  <2>2. gil = t
    BY DEF DocumentInv, LockInv, Switchable
  <2>3. QED BY <2>1, <2>2
<1>2. QED BY <1>1, DocumentInit, DocumentStep, PTL DEF Spec

(* Whoever waits for a mutex waits for a thread that was switched out      *)
(* while it made Python objects.                                           *)
THEOREM StuckCorrect == Spec => []StuckOnlyInConversion
<1>1. DocumentInv => StuckOnlyInConversion
  BY DocumentAssumption
     DEF DocumentInv, StateTypes, LockInv, Switchable, StuckOnlyInConversion, Waits
<1>2. QED BY <1>1, DocumentInit, DocumentStep, PTL DEF Spec

(* What a thread iterates over stays mapped, and the index stays with it.  *)
THEOREM PinnedCorrect == Spec => ViewPinned
<1>1. DocumentInv /\ [Next]_vars =>
        [\A t \in Threads : pc[t] \in {"lookup", "converting"}
                            => view' = view /\ index' = index]_vars
  <2> SUFFICES ASSUME DocumentInv, [Next]_vars,
                      NEW u \in Threads, pc[u] \in {"lookup", "converting"}
               PROVE  view' = view /\ index' = index
    OBVIOUS
  <2> USE DocumentAssumption DEF DocumentInv, StateTypes, LockInv, host, wire
  <2>1. ASSUME NEW t \in Threads, Remap(t) \/ Rebuild(t)
        PROVE  FALSE
    BY <2>1 DEF Remap, Rebuild, Goes
  <2>2. ASSUME NEW t \in Threads, Step(t), ~Remap(t), ~Rebuild(t)
        PROVE  view' = view /\ index' = index
    BY <2>2 DEF Step, LockForRebuild, Count, Scan, LockForEntity, Lookup, Converted, Receive
  <2>3. ASSUME NEW t \in Threads, SwitchIn(t) \/ SwitchOut(t) \/ Call(t) \/ Request(t)
        PROVE  view' = view /\ index' = index
    BY <2>3 DEF SwitchIn, SwitchOut, Call, Request
  <2>4. ASSUME NEW t \in Threads, NEW h \in Handles, CallEntity(t, h)
        PROVE  view' = view /\ index' = index
    BY <2>4 DEF CallEntity
  <2>5. CASE HostAnswers \/ HostEdits \/ Publish \/ Disconnect
    BY <2>5 DEF HostAnswers, HostEdits, Publish, Disconnect
  <2>6. CASE UNCHANGED vars
    BY <2>6 DEF vars
  <2>7. QED BY <2>1, <2>2, <2>3, <2>4, <2>5, <2>6 DEF Next
<1>2. QED BY <1>1, DocumentInit, DocumentStep, PTL DEF Spec, ViewPinned

-----------------------------------------------------------------------------
(* DocumentContract: every call takes effect at one instant *)

(* What the view is made of shows, unless the host has published anew.     *)
FreshInv == fresh \/ view = published

LEMMA FreshInit == Init => FreshInv
BY DEF Init, FreshInv

LEMMA FreshStep == FreshInv /\ [Next]_vars => FreshInv'
<1> SUFFICES ASSUME FreshInv, [Next]_vars PROVE FreshInv'
  OBVIOUS
<1> USE DEF FreshInv, host, wire
<1>1. ASSUME NEW t \in Threads, SwitchIn(t) \/ SwitchOut(t) \/ Call(t) \/ Request(t)
      PROVE  FreshInv'
  BY <1>1 DEF SwitchIn, SwitchOut, Call, Request, Goes
<1>2. ASSUME NEW t \in Threads, NEW h \in Handles, CallEntity(t, h)
      PROVE  FreshInv'
  BY <1>2 DEF CallEntity, Goes
<1>3. ASSUME NEW t \in Threads, Step(t)
      PROVE  FreshInv'
  <2>1. CASE Remap(t) \/ LockForRebuild(t) \/ Rebuild(t) \/ Count(t) \/ Scan(t)
    BY <2>1 DEF Remap, LockForRebuild, Rebuild, Count, Scan, Goes
  <2>2. CASE LockForEntity(t) \/ Lookup(t) \/ Converted(t) \/ Receive(t)
    BY <2>2 DEF LockForEntity, Lookup, Converted, Receive, Goes
  <2>3. QED BY <1>3, <2>1, <2>2 DEF Step
<1>4. CASE HostAnswers \/ HostEdits \/ Publish \/ Disconnect
  BY <1>4 DEF HostAnswers, HostEdits, Publish, Disconnect
<1>5. CASE UNCHANGED vars
  BY <1>5 DEF vars
<1>6. QED BY <1>1, <1>2, <1>3, <1>4, <1>5 DEF Next

(* No snapshot and an empty one look alike.                                *)
LEMMA EntitiesFacts ==
  ASSUME NEW d \in Snapshots
  PROVE  Entities(d) \subseteq Handles /\ (Entities(d) = {} <=> d \in {NoSnapshot, <<>>})
<1>1. CASE d = NoSnapshot
  BY <1>1 DEF Entities
<1>2. CASE d # NoSnapshot
  <2>1. d \in Documents
    BY <1>2 DEF Snapshots
  <2>2. PICK n \in 0 .. Cardinality(Handles) : d \in [1 .. n -> Handles]
    BY <2>1, DocumentFacts
  <2>3. n \in Nat
    BY CountIsNat
  <2>4. Listed(d) \subseteq Handles
    BY <2>2 DEF Listed
  <2>5. d \in Seq(Handles) /\ Len(d) = n
    BY <2>2, <2>3
  <2>6. n = 0 => d = <<>> /\ Listed(d) = {}
    BY <2>2, <2>5 DEF Listed
  <2>7. n # 0 => d # <<>> /\ d[1] \in Listed(d)
    BY <2>2, <2>3, <2>5 DEF Listed
  <2>8. QED BY <1>2, <2>4, <2>6, <2>7 DEF Entities
<1>3. QED BY <1>1, <1>2

LEMMA ContractCalls ==
  ASSUME StateTypes, NEW t \in Threads
  PROVE  /\ pc[t] \in {"refresh", "count", "scan", "entity"} => ContractCall(t) = pc[t]
         /\ pc[t] = "lookup" => ContractCall(t) = "entity"
         /\ pc[t] = "converting" <=> ContractCall(t) = "delivering"
         /\ pc[t] = "awaiting" <=> ContractCall(t) = "writing"
         /\ pc[t] \in {"python", "remapped", "rebuilding"} => ContractCall(t) = "none"
<1>1. pc[t] \in Pcs
  BY DEF StateTypes
<1>2. QED BY <1>1 DEF ContractCall, Pcs

CallMap   == [t \in Threads |-> ContractCall(t)]
ResultMap == [t \in Threads |-> ContractResult(t)]

(* A step of one thread is one thread's step for the contract as well.     *)
LEMMA OneThreadMoves ==
  ASSUME StateTypes, NEW t \in Threads, NEW to, pc' = [pc EXCEPT ![t] = to],
         \A u \in Threads \ {t} : pc[u] = "converting" =>
           view' = view /\ index' = index /\ wanted'[u] = wanted[u] /\ (indexer' = u <=> indexer = u)
  PROVE  /\ CallMap' = [CallMap EXCEPT ![t] = ContractCall(t)']
         /\ ResultMap' = [ResultMap EXCEPT ![t] = ContractResult(t)']
<1>1. \A u \in Threads \ {t} : pc'[u] = pc[u]
  BY DEF StateTypes
<1>2. \A u \in Threads \ {t} : ContractCall(u)' = ContractCall(u)
  BY <1>1 DEF ContractCall
<1>3. \A u \in Threads \ {t} : ContractResult(u)' = ContractResult(u)
  BY <1>1 DEF ContractResult, Entities
<1>4. QED BY <1>2, <1>3 DEF CallMap, ResultMap

(* The interpreter lock and the reader mutex, as the contract sees them.   *)
LEMMA ContractLocks ==
  ASSUME StateTypes, LockInv
  PROVE  /\ \A t \in Threads : gil = t /\ pc[t] # "awaiting" => Contract!Quiet
         /\ reader = NoThread => Contract!Unpinned
         /\ \A t \in Threads : reader = t /\ pc[t] # "converting" => Contract!Unpinned
<1>1. ASSUME NEW t \in Threads, gil = t, pc[t] # "awaiting"
      PROVE  Contract!Quiet
  <2>1. \A u \in Threads : pc[u] # "awaiting"
    BY <1>1 DEF LockInv, Switchable
  <2>2. QED BY <2>1, ContractCalls DEF Contract!Quiet
<1>2. ASSUME \A u \in Threads : pc[u] # "converting"
      PROVE  Contract!Unpinned
  BY <1>2, ContractCalls DEF Contract!Unpinned
<1>3. QED BY <1>1, <1>2, DocumentAssumption DEF LockInv

LEMMA ContractInit == Init => Contract!Init
<1> SUFFICES ASSUME Init PROVE Contract!Init
  OBVIOUS
<1>1. doc \in Snapshots /\ doc # NoSnapshot
  BY DocumentFacts DEF Init, Snapshots
<1>2. Listed(doc) \subseteq Handles
  BY <1>1, EntitiesFacts DEF Entities
<1>3. Entities(published) \in {Listed(doc), {}} /\ Entities(view) = Entities(published)
  BY <1>1 DEF Init, Entities
<1>4. \A t \in Threads : ContractCall(t) = "none" /\ ContractResult(t) = {}
  BY DEF Init, ContractCall, ContractResult
<1>5. QED BY <1>2, <1>3, <1>4 DEF Init, Contract!Init

(* Where nothing is called, taken or handed out the contract sees nothing. *)
LEMMA NoThreadMoves ==
  ASSUME UNCHANGED <<view, index, indexer, pc, wanted>>
  PROVE  CallMap' = CallMap /\ ResultMap' = ResultMap
<1>1. \A t \in Threads : ContractCall(t)' = ContractCall(t)
  BY DEF ContractCall
<1>2. \A t \in Threads : ContractResult(t)' = ContractResult(t)
  BY DEF ContractResult, Entities
<1>3. QED BY <1>1, <1>2 DEF CallMap, ResultMap

(* A step of a call in which nothing is handed out.                        *)
LEMMA ContractMoves ==
  ASSUME StateTypes, NEW t \in Threads, NEW to, pc' = [pc EXCEPT ![t] = to],
         UNCHANGED <<host, connected>>, pc[t] # "converting", to # "converting",
         NEW f, ContractCall(t) = f, NEW g, ContractCall(t)' = g,
         \A u \in Threads \ {t} : pc[u] = "converting" =>
           view' = view /\ index' = index /\ wanted'[u] = wanted[u] /\ (indexer' = u <=> indexer = u)
  PROVE  Contract!Calls(t, f, g) /\ ResultMap' = ResultMap /\ (f = g => CallMap' = CallMap)
<1>1. CallMap' = [CallMap EXCEPT ![t] = g] /\ ResultMap' = [ResultMap EXCEPT ![t] = ContractResult(t)']
  BY OneThreadMoves
<1>2. ContractResult(t) = {} /\ ContractResult(t)' = {}
  BY DEF ContractResult, StateTypes
<1>3. UNCHANGED <<Listed(doc), Entities(published), connected>>
  BY DEF host, Listed, Entities
<1>4. Contract!Calls(t, f, g)
  BY <1>1, <1>3 DEF Contract!Calls, CallMap
<1>5. QED BY <1>1, <1>2, <1>4 DEF CallMap, ResultMap

(* A step of a read that takes effect, while nobody else is handed         *)
(* anything.                                                               *)
LEMMA ContractHands ==
  ASSUME StateTypes, NEW t \in Threads, NEW to, pc' = [pc EXCEPT ![t] = to],
         UNCHANGED <<host, connected, requests, view, wanted>>,
         \A u \in Threads \ {t} : pc[u] # "converting",
         Contract!Quiet, Contract!Unpinned,
         NEW f, NEW e, ContractCall(t) = f, ContractResult(t)' = e,
         ContractCall(t)' = IF e = {} THEN "none" ELSE "delivering"
  PROVE  Contract!Hand(t, f, e)
<1>1. CallMap' = [CallMap EXCEPT ![t] = IF e = {} THEN "none" ELSE "delivering"]
      /\ ResultMap' = [ResultMap EXCEPT ![t] = e]
  BY OneThreadMoves
<1>2. UNCHANGED <<Listed(doc), Entities(published), Entities(view)>>
  BY DEF host, Listed, Entities
<1>3. QED BY <1>1, <1>2 DEF Contract!Hand, Contract!Calls, CallMap, ResultMap

LEMMA ContractStep ==
  DocumentInv /\ DocumentInv' /\ FreshInv /\ [Next]_vars => [Contract!Next]_(Contract!vars)
<1> SUFFICES ASSUME DocumentInv, DocumentInv', FreshInv, [Next]_vars
             PROVE  Contract!Next \/ UNCHANGED Contract!vars
  OBVIOUS
<1>0. StateTypes /\ LockInv /\ StateTypes' /\ LockInv'
  BY DEF DocumentInv
<1>1. ASSUME NEW t \in Threads, SwitchIn(t) \/ SwitchOut(t)
      PROVE  UNCHANGED Contract!vars
  <2>1. UNCHANGED <<doc, published, view, index, indexer, pc, wanted, connected, requests>>
    BY <1>1 DEF SwitchIn, SwitchOut, host, wire
  <2>2. CallMap' = CallMap /\ ResultMap' = ResultMap
    BY <2>1, NoThreadMoves
  <2>3. QED BY <2>1, <2>2 DEF Contract!vars, CallMap, ResultMap, Listed, Entities
<1>2. ASSUME NEW t \in Threads, Call(t)
      PROVE  Contract!Next
  <2>1. PICK m \in {"refresh", "count", "scan"} : Goes(t, "python", m)
    BY <1>2 DEF Call
  <2>2. UNCHANGED <<view, index, indexer, wanted, connected, requests, host>>
    BY <1>2, <2>1 DEF Call, Goes, wire
  <2>3. ContractCall(t) = "none" /\ ContractCall(t)' = m
    BY <1>0, <2>1, ContractCalls DEF Goes, ContractCall, StateTypes
  <2>4. Contract!Calls(t, "none", m) /\ ResultMap' = ResultMap
    BY <1>0, <2>1, <2>2, <2>3, ContractMoves DEF Goes
  <2>5. Contract!Quiet
    BY <1>0, <2>1, ContractLocks DEF Goes
  <2>6. Contract!Start(t)
    BY <2>2, <2>4, <2>5 DEF Contract!Start, ResultMap, Entities
  <2>7. QED BY <2>6 DEF Contract!Next
<1>3. ASSUME NEW t \in Threads, NEW h \in Handles, CallEntity(t, h)
      PROVE  Contract!Next
  <2>1. Goes(t, "python", "entity") /\ wanted' = [wanted EXCEPT ![t] = h]
        /\ UNCHANGED <<view, index, indexer, connected, requests, host>>
    BY <1>3 DEF CallEntity, Goes, wire
  <2>2. ContractCall(t) = "none" /\ ContractCall(t)' = "entity"
    BY <1>0, <2>1, ContractCalls DEF Goes, ContractCall, StateTypes
  <2>3. \A u \in Threads \ {t} : wanted'[u] = wanted[u]
    BY <1>0, <2>1 DEF StateTypes
  <2>4. Contract!Calls(t, "none", "entity") /\ ResultMap' = ResultMap
    BY <1>0, <2>1, <2>2, <2>3, ContractMoves DEF Goes
  <2>5. Contract!Quiet
    BY <1>0, <2>1, ContractLocks DEF Goes
  <2>6. Contract!StartEntity(t, h)
    BY <2>1, <2>4, <2>5 DEF Contract!StartEntity, ResultMap, Entities
  <2>7. QED BY <2>6 DEF Contract!Next
<1>4. ASSUME NEW t \in Threads, Request(t)
      PROVE  Contract!Next
  <2>1. PICK op \in Operations : requests' = Append(requests, [from |-> t, op |-> op])
    BY <1>4 DEF Request
  <2>2. gil = t /\ pc[t] = "python" /\ connected /\ pc' = [pc EXCEPT ![t] = "awaiting"]
        /\ UNCHANGED <<view, index, indexer, wanted, connected, host>>
    BY <1>4 DEF Request
  <2>3. requests = <<>>
    BY <1>0, <2>2 DEF DocumentInv, WireInv
  <2>4. requests' # <<>> /\ Head(requests').op = op
    BY <2>1, <2>3
  <2>5. ContractCall(t) = "none" /\ ContractCall(t)' = "writing"
    BY <1>0, <2>2, ContractCalls DEF ContractCall, StateTypes
  <2>6. Contract!Calls(t, "none", "writing") /\ ResultMap' = ResultMap
    BY <1>0, <2>2, <2>5, ContractMoves
  <2>7. Contract!Quiet
    BY <1>0, <2>2, ContractLocks
  <2>8. Contract!Write(t)
    BY <2>2, <2>4, <2>6, <2>7 DEF Contract!Write, Contract!Operations, Operations, ResultMap, Entities
  <2>9. QED BY <2>8 DEF Contract!Next
<1>5. ASSUME NEW t \in Threads, Remap(t)
      PROVE  Contract!Next
  <2>1. /\ reader = NoThread /\ gil = t /\ pc[t] = "refresh"
        /\ pc' = [pc EXCEPT ![t] = IF fresh THEN "remapped" ELSE "python"]
        /\ view' = published /\ UNCHANGED <<index, indexer, wanted, connected, requests, host>>
    BY <1>5 DEF Remap, Goes, wire, FreshInv
  <2>2. \A u \in Threads : pc[u] # "converting"
    BY <1>0, <2>1, DocumentAssumption DEF LockInv
  <2>3. ContractCall(t) = "refresh" /\ ContractCall(t)' = "none"
    BY <1>0, <2>1, ContractCalls DEF ContractCall, StateTypes
  <2>4. Contract!Calls(t, "refresh", "none") /\ ResultMap' = ResultMap
    BY <1>0, <2>1, <2>2, <2>3, ContractMoves
  <2>5. Contract!Quiet /\ Contract!Unpinned
    BY <1>0, <2>1, ContractLocks
  <2>6. Contract!Refresh(t)
    BY <2>1, <2>4, <2>5 DEF Contract!Refresh, ResultMap, host, Entities, Listed
  <2>7. QED BY <2>6 DEF Contract!Next
<1>6. ASSUME NEW t \in Threads, LockForRebuild(t) \/ Rebuild(t)
      PROVE  UNCHANGED Contract!vars
  <2>1. PICK to \in {"rebuilding", "python"} : pc' = [pc EXCEPT ![t] = to]
    BY <1>6 DEF LockForRebuild, Rebuild, Goes
  <2>2. /\ pc[t] \in {"remapped", "rebuilding"} /\ reader \in {NoThread, t}
        /\ UNCHANGED <<view, indexer, wanted, connected, requests, host>>
    BY <1>0, <1>6 DEF LockForRebuild, Rebuild, Goes, wire, LockInv
  <2>3. \A u \in Threads : pc[u] # "converting"
    BY <1>0, <2>2, DocumentAssumption DEF LockInv
  <2>4. ContractCall(t) = "none" /\ ContractCall(t)' = "none"
    BY <1>0, <2>1, <2>2, ContractCalls DEF ContractCall, StateTypes
  <2>5. CallMap' = CallMap /\ ResultMap' = ResultMap
    BY <1>0, <2>1, <2>2, <2>3, <2>4, ContractMoves
  <2>6. QED BY <2>2, <2>5 DEF Contract!vars, CallMap, ResultMap, host, Entities, Listed
<1>7. ASSUME NEW t \in Threads, Count(t)
      PROVE  Contract!Next
  <2>1. /\ reader = NoThread /\ gil = t /\ pc[t] = "count" /\ pc' = [pc EXCEPT ![t] = "python"]
        /\ UNCHANGED <<view, index, indexer, wanted, connected, requests, host>>
    BY <1>7 DEF Count, Goes, wire
  <2>2. ContractCall(t) = "count" /\ ContractCall(t)' = "none"
    BY <1>0, <2>1, ContractCalls DEF ContractCall, StateTypes
  <2>3. Contract!Calls(t, "count", "none") /\ ResultMap' = ResultMap
    BY <1>0, <2>1, <2>2, ContractMoves
  <2>4. Contract!Quiet /\ Contract!Unpinned
    BY <1>0, <2>1, ContractLocks
  <2>5. Contract!Count(t)
    BY <2>1, <2>3, <2>4 DEF Contract!Count, ResultMap, Entities
  <2>6. QED BY <2>5 DEF Contract!Next
<1>8. ASSUME NEW t \in Threads, Scan(t)
      PROVE  Contract!Next
  <2>1. PICK to \in {"python", "converting"} :
          /\ Goes(t, "scan", to)
          /\ to = "python" <=> view \in {NoSnapshot, <<>>}
    BY <1>8 DEF Scan
  <2>2. /\ reader = NoThread /\ gil = t /\ pc[t] = "scan" /\ pc' = [pc EXCEPT ![t] = to]
        /\ UNCHANGED <<view, index, indexer, wanted, connected, requests, host>>
    BY <1>8, <2>1 DEF Scan, Goes, wire
  <2>3. \A u \in Threads : pc[u] # "converting"
    BY <1>0, <2>2, DocumentAssumption DEF LockInv
  <2>4. Contract!Quiet /\ Contract!Unpinned
    BY <1>0, <2>2, ContractLocks
  <2>5. view \in Snapshots /\ indexer # t
    BY <1>0, <2>2 DEF StateTypes, LockInv
  <2>6. Entities(view) = {} <=> to = "python"
    BY <2>1, <2>5, EntitiesFacts
  <2>7. ContractCall(t) = "scan" /\ ContractCall(t)' = IF Entities(view) = {} THEN "none" ELSE "delivering"
    BY <1>0, <2>1, <2>2, <2>6, ContractCalls DEF ContractCall, StateTypes
  <2>8. ContractResult(t)' = Entities(view)
    BY <1>0, <2>2, <2>5, <2>6 DEF ContractResult, StateTypes, Entities
  <2>9. Contract!Scan(t)
    BY <1>0, <2>2, <2>3, <2>4, <2>7, <2>8, ContractHands DEF Contract!Scan
  <2>10. QED BY <2>9 DEF Contract!Next
<1>9. ASSUME NEW t \in Threads, LockForEntity(t)
      PROVE  Contract!Next \/ UNCHANGED Contract!vars
  <2>1. PICK to \in {"python", "lookup"} : Goes(t, "entity", to) /\ (to = "python" <=> view = NoSnapshot)
    BY <1>9 DEF LockForEntity
  <2>2. /\ reader = NoThread /\ gil = t /\ pc[t] = "entity" /\ pc' = [pc EXCEPT ![t] = to]
        /\ UNCHANGED <<view, index, indexer, wanted, connected, requests, host>>
    BY <1>9, <2>1 DEF LockForEntity, Goes, wire
  <2>3. \A u \in Threads : pc[u] # "converting"
    BY <1>0, <2>2, DocumentAssumption DEF LockInv
  <2>4. CASE to = "python"
    <3>1. ContractCall(t) = "entity" /\ ContractCall(t)' = "none"
      BY <1>0, <2>2, <2>4, ContractCalls DEF ContractCall, StateTypes
    <3>2. ContractResult(t)' = {} /\ Entities(view) \intersect {wanted[t]} = {}
      BY <1>0, <2>1, <2>2, <2>4 DEF ContractResult, StateTypes, Entities
    <3>3. Contract!Quiet /\ Contract!Unpinned
      BY <1>0, <2>2, ContractLocks
    <3>4. Contract!Entity(t)
      BY <1>0, <2>2, <2>3, <3>1, <3>2, <3>3, ContractHands DEF Contract!Entity
    <3>5. QED BY <3>4 DEF Contract!Next
  <2>5. CASE to = "lookup"
    <3>1. ContractCall(t) = "entity" /\ ContractCall(t)' = "entity"
      BY <1>0, <2>2, <2>5, ContractCalls DEF ContractCall, StateTypes
    <3>2. CallMap' = CallMap /\ ResultMap' = ResultMap
      BY <1>0, <2>2, <2>3, <2>5, <3>1, ContractMoves
    <3>3. QED BY <2>2, <3>2 DEF Contract!vars, CallMap, ResultMap, host, Entities, Listed
  <2>6. QED BY <2>1, <2>4, <2>5
<1>10. ASSUME NEW t \in Threads, Lookup(t)
      PROVE  Contract!Next
  <2> DEFINE i == index[wanted[t]]
             found == Entities(view) \intersect {wanted[t]}
  <2>1. PICK to \in {"python", "converting"} :
          Goes(t, "lookup", to) /\ (to = "python" <=> i = 0) /\ (to = "converting" => indexer' = t)
    BY <1>10 DEF Lookup
  <2>2. /\ gil = t /\ pc[t] = "lookup" /\ pc' = [pc EXCEPT ![t] = to]
        /\ UNCHANGED <<view, index, wanted, connected, requests, host>>
    BY <1>10, <2>1 DEF Lookup, Goes, wire
  <2>3. reader = t /\ \A u \in Threads : pc[u] # "converting"
    BY <1>0, <2>2 DEF LockInv
  <2>4. Contract!Quiet /\ Contract!Unpinned
    BY <1>0, <2>2, <2>3, ContractLocks
  <2>5. view # NoSnapshot
    BY <2>2 DEF DocumentInv, IndexInv
  <2>6. /\ to = "python" => found = {}
        /\ to = "converting" => view[i] = wanted[t] /\ found = {wanted[t]}
    <3>1. IF i = 0 THEN wanted[t] \notin Listed(view) ELSE i \in DOMAIN view /\ view[i] = wanted[t]
      BY <2>2, LookupHolds DEF LookupRight
    <3>2. QED BY <2>1, <2>5, <3>1 DEF Entities, Listed
  <2>7. ContractCall(t) = "entity" /\ ContractCall(t)' = IF found = {} THEN "none" ELSE "delivering"
    BY <1>0, <2>1, <2>2, <2>6, ContractCalls DEF ContractCall, StateTypes
  <2>8. ContractResult(t)' = found
    BY <1>0, <2>1, <2>2, <2>6 DEF ContractResult, StateTypes
  <2>9. Contract!Entity(t)
    BY <1>0, <2>2, <2>3, <2>4, <2>7, <2>8, ContractHands DEF Contract!Entity
  <2>10. QED BY <2>9 DEF Contract!Next
<1>11. ASSUME NEW t \in Threads, Converted(t)
      PROVE  Contract!Next
  <2>1. /\ gil = t /\ pc[t] = "converting" /\ pc' = [pc EXCEPT ![t] = "python"]
        /\ UNCHANGED <<view, index, wanted, connected, requests, host>>
    BY <1>11 DEF Converted, Goes, wire
  <2>2. \A u \in Threads \ {t} : pc[u] # "converting"
    BY <1>0, <2>1 DEF LockInv
  <2>3. ContractCall(t) = "delivering" /\ ContractCall(t)' = "none" /\ ContractResult(t)' = {}
    BY <1>0, <2>1, ContractCalls DEF ContractCall, ContractResult, StateTypes
  <2>4. CallMap' = [CallMap EXCEPT ![t] = "none"] /\ ResultMap' = [ResultMap EXCEPT ![t] = {}]
    BY <1>0, <2>1, <2>2, <2>3, OneThreadMoves
  <2>5. Contract!Quiet
    BY <1>0, <2>1, ContractLocks
  <2>6. Contract!Deliver(t)
    BY <2>1, <2>3, <2>4, <2>5 DEF Contract!Deliver, Contract!Calls, CallMap, ResultMap, host, Entities, Listed
  <2>7. QED BY <2>6 DEF Contract!Next
<1>12. ASSUME NEW t \in Threads, Receive(t)
      PROVE  Contract!Next
  <2>1. /\ pc[t] = "awaiting" /\ pc' = [pc EXCEPT ![t] = "python"] /\ (connected => answers # <<>>)
        /\ UNCHANGED <<view, index, indexer, wanted, connected, requests, host>>
    BY <1>12 DEF Receive
  <2>2. requests = <<>>
    BY <2>1 DEF DocumentInv, WireInv
  <2>3. ContractCall(t) = "writing" /\ ContractCall(t)' = "none"
    BY <1>0, <2>1, ContractCalls DEF ContractCall, StateTypes
  <2>4. Contract!Calls(t, "writing", "none") /\ ResultMap' = ResultMap
    BY <1>0, <2>1, <2>3, ContractMoves
  <2>5. Contract!Return(t)
    BY <2>1, <2>2, <2>4 DEF Contract!Return, ResultMap, Entities
  <2>6. QED BY <2>5 DEF Contract!Next
<1>13. CASE HostAnswers
  <2>1. PICK t \in Threads, op \in Operations : requests = <<[from |-> t, op |-> op]>>
    BY <1>13 DEF HostAnswers, DocumentInv, WireInv
  <2>2. requests # <<>> /\ Head(requests).op = op /\ requests' = <<>>
    BY <1>13, <2>1 DEF HostAnswers
  <2>3. /\ doc' \in Effects(op) \cup {doc}
        /\ UNCHANGED <<published, view, index, indexer, pc, wanted, connected>>
    BY <1>13, <2>2 DEF HostAnswers
  <2>4. CallMap' = CallMap /\ ResultMap' = ResultMap
    BY <2>3, NoThreadMoves
  <2>5. Listed(doc') \subseteq Handles
    BY <1>0, DocumentFacts, EntitiesFacts DEF StateTypes, Snapshots, Entities
  <2>6. \/ op = "add" /\ Listed(doc) \subseteq Listed(doc')
        \/ op = "remove" /\ \E h \in Handles : Listed(doc') = Listed(doc) \ {h}
        \/ Listed(doc') = Listed(doc)
    BY <2>3 DEF Effects, Operations, Listed
  <2>7. op # "nothing"
    BY DEF Operations
  <2>8. Contract!CarryOut
    BY <2>2, <2>3, <2>4, <2>5, <2>6, <2>7 DEF Contract!CarryOut, Contract!Does, CallMap, ResultMap, Entities, Listed
  <2>9. QED BY <2>8 DEF Contract!Next
<1>14. CASE HostEdits
  <2>1. UNCHANGED <<published, view, index, indexer, pc, wanted, connected, requests>>
    BY <1>14 DEF HostEdits, wire
  <2>2. CallMap' = CallMap /\ ResultMap' = ResultMap
    BY <2>1, NoThreadMoves
  <2>3. Listed(doc') \subseteq Handles
    BY <1>0, DocumentFacts, EntitiesFacts DEF StateTypes, Snapshots, Entities
  <2>4. Contract!Edit
    BY <2>1, <2>2, <2>3 DEF Contract!Edit, CallMap, ResultMap, Entities, Listed
  <2>5. QED BY <2>4 DEF Contract!Next
<1>15. CASE Publish
  <2>1. published' = doc /\ UNCHANGED <<doc, view, index, indexer, pc, wanted, connected, requests>>
    BY <1>15 DEF Publish, wire
  <2>2. CallMap' = CallMap /\ ResultMap' = ResultMap
    BY <2>1, NoThreadMoves
  <2>3. doc # NoSnapshot
    BY <1>0, DocumentFacts DEF StateTypes
  <2>4. Contract!Publish
    BY <2>1, <2>2, <2>3 DEF Contract!Publish, CallMap, ResultMap, Entities, Listed
  <2>5. QED BY <2>4 DEF Contract!Next
<1>16. CASE Disconnect
  <2>1. /\ connected /\ connected' = FALSE /\ requests' = <<>>
        /\ UNCHANGED <<doc, published, view, index, indexer, pc, wanted>>
    BY <1>16 DEF Disconnect, host
  <2>2. CallMap' = CallMap /\ ResultMap' = ResultMap
    BY <2>1, NoThreadMoves
  <2>3. Contract!HangUp
    BY <2>1, <2>2 DEF Contract!HangUp, CallMap, ResultMap, Entities, Listed
  <2>4. QED BY <2>3 DEF Contract!Next
<1>17. CASE UNCHANGED vars
  <2>1. UNCHANGED <<doc, published, view, index, indexer, pc, wanted, connected, requests>>
    BY <1>17 DEF vars
  <2>2. CallMap' = CallMap /\ ResultMap' = ResultMap
    BY <2>1, NoThreadMoves
  <2>3. QED BY <2>1, <2>2 DEF Contract!vars, CallMap, ResultMap, Listed, Entities
<1>18. ASSUME NEW t \in Threads, Step(t)
      PROVE  Contract!Next \/ UNCHANGED Contract!vars
  BY <1>5, <1>6, <1>7, <1>8, <1>9, <1>10, <1>11, <1>12, <1>18 DEF Step
<1>19. QED BY <1>1, <1>2, <1>3, <1>4, <1>13, <1>14, <1>15, <1>16, <1>17, <1>18 DEF Next

(* Every behaviour of the document handle is one of DocumentContract:      *)
(* reads and refreshes take effect at one instant, in spite of the two     *)
(* mutexes and the stale index between remap and rebuild, and writes are   *)
(* carried out once.                                                       *)
THEOREM ContractCorrect == Spec => ImplementsContract
BY DocumentInit, DocumentStep, FreshInit, FreshStep, ContractInit, ContractStep, PTL
   DEF Spec, ImplementsContract, Contract!Spec
=============================================================================
