------------------------- MODULE EntityBindingProofs -------------------------
(***************************************************************************)
(* Proofs about RegistrySelection and EntityBinding, for every set of      *)
(* versions, fields, handles and drawings and every width of the integers. *)
(***************************************************************************)
EXTENDS EntityBinding, TLAPS

-----------------------------------------------------------------------------
(* The choice of the registry *)

(* No two registries were written at one time.                             *)
Dated ==
  /\ \A v \in Versions : written[v] <= clock
  /\ \A u, v \in Versions : u # v /\ written[u] # 0 => written[u] # written[v]

BuildInv ==
  /\ BuildTypeOK
  /\ Dated
  /\ linked \in Versions => chosen \in Versions /\ Complete(chosen)
  /\ RegistryExplained

LEMMA WriteDated ==
  ASSUME BuildTypeOK, Dated, Write
  PROVE  /\ written' \in [Versions -> Nat] /\ clock' \in Nat
         /\ written'[pin] # 0
         /\ Dated'
<1>1. /\ written' = [written EXCEPT ![pin] = clock + 1] /\ clock' = clock + 1
      /\ pin \in Versions /\ clock \in Nat /\ written \in [Versions -> Nat]
  BY DEF Write, BuildTypeOK
<1>2. \A v \in Versions : written'[v] = IF v = pin THEN clock + 1 ELSE written[v]
  BY <1>1
<1> QED
  BY <1>1, <1>2 DEF Dated

(* What is chosen is complete; it is older than no other that is.          *)
LEMMA NewestFacts ==
  ASSUME NEW w, NEW b, NEW v \in Newest(w, b)
  PROVE  /\ v \in Versions /\ Complete(v)
         /\ \A u \in Versions : w[u] # 0 /\ u \notin b /\ Complete(u) => w[u] <= w[v]
BY DEF Newest, Candidates

LEMMA GenerateStep ==
  ASSUME BuildInv, Generate
  PROVE  BuildInv'
<1> USE DEF BuildInv
<1>1. pin \in Versions /\ pin' = pin
  BY DEF BuildTypeOK, Generate
<1>2. /\ written' \in [Versions -> Nat] /\ clock' \in Nat /\ broken' \in SUBSET Versions
      /\ written'[pin] # 0 /\ pin \notin broken'
      /\ Dated'
  <2>1. CASE Write /\ broken' = broken \ {pin}
    BY <2>1, WriteDated DEF BuildTypeOK
  <2>2. CASE /\ written[pin] # 0 /\ pin \notin broken
             /\ UNCHANGED <<written, broken, clock>>
    BY <2>2 DEF BuildTypeOK, Dated
  <2> QED
    BY <2>1, <2>2 DEF Generate
<1>3. CASE UNCHANGED <<linked, chosen, reused>>
  BY <1>1, <1>2, <1>3 DEF BuildTypeOK, RegistryExplained
<1>4. ASSUME NEW v \in Newest(written', broken'),
             linked' = pin, chosen' = v, reused' = (written'[v] > written'[pin])
      PROVE  BuildInv'
  <2>1. v \in Versions /\ Complete(v)
    BY <1>4, NewestFacts
  <2>2. RegistryExplained'
    <3> SUFFICES ASSUME v # pin, Complete(pin) PROVE reused'
      BY <1>4 DEF RegistryExplained
    <3>1. written'[pin] <= written'[v]
      BY <1>1, <1>2, <1>4, NewestFacts
    <3>2. written'[pin] # written'[v]
      BY <1>1, <1>2, <2>1 DEF Dated
    <3>3. written'[v] > written'[pin]
      BY <1>1, <1>2, <2>1, <3>1, <3>2
    <3> QED
      BY <1>4, <3>3, Zenon
  <2> QED
    BY <1>1, <1>2, <1>4, <2>1, <2>2 DEF BuildTypeOK
<1>5. \/ Newest(written', broken') = {} /\ UNCHANGED <<linked, chosen, reused>>
      \/ \E v \in Newest(written', broken') :
           IF Compiles(v)
             THEN linked' = pin /\ chosen' = v /\ reused' = (written'[v] > written'[pin])
             ELSE UNCHANGED <<linked, chosen, reused>>
  BY Zenon DEF Generate
<1> QED
  BY <1>3, <1>4, <1>5, Zenon

LEMMA BuildInvInit == BuildInit => BuildInv
<1> SUFFICES ASSUME BuildInit PROVE BuildInv
  OBVIOUS
<1>1. BuildTypeOK
  BY DEF BuildInit, BuildTypeOK
<1>2. Dated /\ linked \notin Versions
  BY RegistryAssumption DEF BuildInit, Dated
<1>3. RegistryExplained
  BY Zenon DEF BuildInit, RegistryExplained
<1> QED
  BY <1>1, <1>2, <1>3, Zenon DEF BuildInv

LEMMA BuildInvStep == BuildInv /\ (BuildStep \/ UNCHANGED build) => BuildInv'
<1> SUFFICES ASSUME BuildInv, BuildStep \/ UNCHANGED build PROVE BuildInv'
  OBVIOUS
<1> USE DEF BuildInv
<1>1. CASE UNCHANGED build
  BY <1>1 DEF build, BuildTypeOK, Dated, RegistryExplained
<1>2. ASSUME NEW v \in Versions, Repin(v) PROVE BuildInv'
  BY <1>2 DEF Repin, BuildTypeOK, Dated, RegistryExplained
<1>3. CASE Generate
  BY <1>3, GenerateStep
<1>4. CASE Interrupted
  <2>1. /\ written' \in [Versions -> Nat] /\ clock' \in Nat /\ Dated'
    BY <1>4, WriteDated DEF Interrupted
  <2> QED
    BY <1>4, <2>1 DEF Interrupted, BuildTypeOK, RegistryExplained
<1>5. CASE CargoClean
  BY <1>5 DEF CargoClean, BuildTypeOK, Dated, RegistryExplained
<1> QED
  BY <1>1, <1>2, <1>3, <1>4, <1>5 DEF BuildStep

-----------------------------------------------------------------------------
(* The conversions *)

(* A cast to a narrow integer keeps what fits, and is off by a multiple of *)
(* its range for the rest.                                                 *)
LEMMA NarrowFacts ==
  ASSUME NEW n \in 0 .. Word - 1
  PROVE  /\ Narrow(n) \in -Half .. Half - 1
         /\ n < Half => Narrow(n) = n
         /\ n >= Half => \E k \in 1 .. n : n = Narrow(n) + k * (2 * Half)
<1>1. Half \in Nat \ {0} /\ Word \in Nat /\ n \in Nat
  BY BindingAssumption
<1>2. CASE n < Half
  BY <1>1, <1>2 DEF Narrow
<1>3. CASE n >= Half
  <2> DEFINE m == 2 * Half
             q == (n + Half) \div m
             r == (n + Half) % m
  <2>1. m \in Nat \ {0} /\ m = Half + Half
    BY <1>1
  <2>2. q \in Int /\ r \in 0 .. m - 1 /\ n + Half = m * q + r
    BY <1>1, <2>1, Z3
  <2>3. Narrow(n) = r - Half
    BY <1>1, <1>3 DEF Narrow
  <2>4. n = Narrow(n) + q * m
    BY <2>1, <2>2, <2>3, <1>1
  <2>5. q >= 1
    <3> SUFFICES ASSUME q <= 0 PROVE FALSE
      BY <2>2
    <3>1. m * q <= 0
      BY <2>1, <2>2
    <3> QED
      BY <1>1, <1>3, <2>1, <2>2, <3>1
  <2>6. q <= n
    <3> SUFFICES ASSUME q >= n + 1 PROVE FALSE
      BY <1>1, <2>2
    <3>1. m * q >= m * (n + 1)
      BY <1>1, <2>1, <2>2
    <3>2. m * (n + 1) >= 2 * (n + 1)
      BY <1>1, <2>1
    <3> QED
      BY <1>1, <1>3, <2>1, <2>2, <3>1, <3>2
  <2> QED
    BY <1>1, <1>3, <2>1, <2>2, <2>3, <2>4, <2>5, <2>6
<1> QED
  BY <1>1, <1>2, <1>3
(* What a field holds can be stored in it again.                          *)
LEMMA StoredAgain ==
  ASSUME NEW f \in Fields, NEW p
  PROVE  Storable(f, FromPy(f, p))
<1>1. Storable(f, Default(f))
  BY BindingAssumption DEF Storable, Default
<1>2. CASE ~Exposed(f) \/ ~Fits(f, p) \/ (TypeOf[f] = "name" /\ p = 0)
  BY <1>1, <1>2 DEF FromPy
<1>3. CASE Exposed(f) /\ Fits(f, p) /\ ~(TypeOf[f] = "name" /\ p = 0)
  <2>1. CASE TypeOf[f] = "int"
    <3>1. Narrow(p) \in -Half .. Half - 1 /\ FromPy(f, p) = Narrow(p)
      BY <1>3, <2>1, NarrowFacts DEF FromPy, Fits
    <3> QED
      BY <2>1, <3>1, BindingAssumption DEF Storable
  <2>2. CASE TypeOf[f] # "int"
    BY <1>3, <2>2 DEF FromPy, Fits, Storable
  <2> QED
    BY <2>1, <2>2
<1> QED
  BY <1>2, <1>3

(* What Python is shown of a field, and sends back as it was, is what the  *)
(* field held, unless the field is one that loses something.               *)
LEMMA RoundTrip ==
  ASSUME NEW f \in Fields, NEW v, Storable(f, v), Exposed(f), ~Lossy(f, v),
         ~Refused(f, ToPy(f, v))
  PROVE  FromPy(f, ToPy(f, v)) = v
<1>1. v \in Int /\ ToPy(f, v) = v
  BY BindingAssumption DEF Storable, Lossy, ToPy
<1>2. CASE TypeOf[f] = "int"
  <2>1. v \in 0 .. Word - 1 /\ v < Half
    BY <1>1, <1>2, BindingAssumption DEF Storable, Lossy
  <2> QED
    BY <1>1, <1>2, <2>1, NarrowFacts DEF FromPy, Fits
<1>3. CASE TypeOf[f] # "int"
  BY <1>1, <1>3 DEF FromPy, Fits, Storable
<1> QED
  BY <1>2, <1>3

(* What is assigned is kept, warned of or refused.                         *)
LEMMA AssignedKept ==
  ASSUME NEW f \in Fields, NEW p, Exposed(f), p \in PyType \ {Missing},
         ~Refused(f, p), ~Warns(f, p)
  PROVE  Kept(f, p, FromPy(f, p))
<1>1. CASE Fits(f, p) /\ TypeOf[f] = "int"
  <2>1. p \in 0 .. Word - 1 /\ FromPy(f, p) = Narrow(p)
    BY <1>1 DEF Fits, FromPy
  <2>2. CASE p < Half
    BY <2>1, <2>2, NarrowFacts DEF Kept
  <2>3. CASE p >= Half
    BY <1>1, <2>1, <2>3, NarrowFacts DEF Kept
  <2> QED
    BY <2>1, <2>2, <2>3, BindingAssumption
<1>2. CASE Fits(f, p) /\ TypeOf[f] # "int"
  BY <1>2 DEF Fits, FromPy, Kept
<1>3. CASE ~Fits(f, p)
  <2>1. ~Lenient(f)
    BY <1>3 DEF Warns
  <2>2. p = Wrong
    BY <1>3, <2>1 DEF Fits, Lenient, PyType
  <2> QED
    BY <2>1, <2>2 DEF Refused, Kept
<1> QED
  BY <1>1, <1>2, <1>3
(* A record that is converted is stored value by value as it was given.    *)
LEMMA RecordKept ==
  ASSUME NEW r \in Records, XConverts(r)
  PROVE  XdataRecord(r) = r
<1> DEFINE XValues == [kind : STRING, value : Int \cup {Wrong}]
<1>1. r \in Seq(XValues)
  BY BindingAssumption
<1>2. \A i \in DOMAIN r : r[i] \in XValues
  <2> HIDE DEF XValues
  <2> QED
    BY <1>1
<1>3. ASSUME NEW i \in DOMAIN r PROVE XValue(r[i]) = r[i]
  <2>1. r[i] \in XValues
    BY <1>2, <1>3
  <2>2. r[i].value \in Int /\ (r[i].kind = "Integer16" => r[i].value < Half)
    BY <1>3, BindingAssumption DEF XConverts, XRefused
  <2> QED
    BY <2>1, <2>2 DEF XValue, Narrow
<1>4. r = [i \in DOMAIN r |-> r[i]]
  BY <1>1
<1> QED
  BY <1>3, <1>4 DEF XdataRecord

-----------------------------------------------------------------------------
(* The inductive invariant *)

Entities  == {e \in EntityType : \A f \in Fields : Storable(f, e.val[f])}
Documents == [Handles -> Entities \cup {Nothing}]
Xdata     == [Handles -> Records \cup {Nothing}]

(* What an object says of the entity it was read from, but for the fields  *)
(* that the script has assigned.                                           *)
ObjectOK(o) ==
  /\ o \in ObjectType
  /\ \A f \in o.set \cap Fields : Exposed(f) /\ o.val[f] # Missing
  /\ o.base # Nothing => \A f \in Fields :
       /\ Storable(f, o.base[f])
       /\ f \notin o.set => o.val[f] = IF Exposed(f) THEN ToPy(f, o.base[f]) ELSE Missing

DocumentOK ==
  /\ host \in Documents
  /\ view \in Documents
  /\ xdata \in Xdata

CallOK ==
  /\ outcome \in {"none", "ok", "false", "error"}
  /\ warned \in SUBSET Fields

Inv ==
  /\ BuildInv
  /\ running \in BOOLEAN
  /\ running => linked \in Versions
  /\ edits \in Nat /\ calls \in Nat
  /\ DocumentOK
  /\ CallOK
  /\ obj # Nothing => running /\ ObjectOK(obj)

LEMMA EntityStorable ==
  ASSUME NEW o \in ObjectType
  PROVE  Entity(o) \in Entities
<1>1. \A f \in Fields : Storable(f, FromPy(f, o.val[f]))
  BY StoredAgain
<1>2. \A f \in Fields : FromPy(f, o.val[f]) \in Int
  BY <1>1 DEF Storable
<1> QED
  BY <1>1, <1>2 DEF Entity, Entities, EntityType, ObjectType

LEMMA ReadOK ==
  ASSUME NEW h \in Handles, NEW e \in Entities
  PROVE  ObjectOK(Read(h, e))
<1>1. e.val \in [Fields -> Int] /\ e.kind \in Kinds /\ \A f \in Fields : Storable(f, e.val[f])
  BY DEF Entities, EntityType
<1>2. \A f \in Fields : ToPy(f, e.val[f]) \in PyType
  BY <1>1, BindingAssumption DEF ToPy, PyType
<1>3. Read(h, e) \in ObjectType
  BY <1>1, <1>2 DEF Read, ObjectType, PyType
<1> QED
  BY <1>1, <1>3 DEF Read, ObjectOK

LEMMA BlankOK ==
  ASSUME NEW form \in {"object", "dict"}, NEW kind \in Kinds
  PROVE  ObjectOK(Blank(form, kind))
<1>1. \A f \in Fields : PyDefault(f) \in Int
  BY DEF PyDefault
<1>2. Blank(form, kind) \in ObjectType
  BY <1>1 DEF Blank, ObjectType, PyType
<1> QED
  BY <1>2 DEF Blank, ObjectOK

LEMMA DrawnStorable ==
  ASSUME NEW e \in Drawings
  PROVE  Drawn(e) \in Entities
<1>1. \A f \in Fields : Storable(f, Default(f)) /\ Storable(f, e.val[f])
  BY BindingAssumption, DrawingsAssumption DEF Storable, Default
<1>2. Drawn(e) = [kind |-> e.kind,
                  val |-> [f \in Fields |-> IF f \in Present THEN e.val[f] ELSE Default(f)]]
  BY DrawingsAssumption DEF Drawn
<1>3. \A f \in Fields : Default(f) \in Int /\ e.val[f] \in Int
  BY <1>1 DEF Storable
<1> QED
  BY <1>1, <1>2, <1>3 DEF Entities, EntityType, Kinds

(* A request leaves a document, if its effect is one.                      *)
LEMMA RequestOK ==
  ASSUME Inv, NEW effect \in Documents, NEW records \in SUBSET Xdata,
         NEW reply \in {"ok", "false"}, Request(effect, records, reply)
  PROVE  /\ host' \in Documents /\ xdata' \in Xdata
         /\ outcome' \in {"none", "ok", "false", "error"}
BY DEF Inv, DocumentOK, Request

(* And so does a call, which changes nothing but what the host keeps and   *)
(* how it ended.                                                           *)
LEMMA CalledOK ==
  ASSUME Inv, Called, host' \in Documents, xdata' \in Xdata, warned' \in SUBSET Fields,
         outcome' \in {"none", "ok", "false", "error"}
  PROVE  Inv'
<1>1. UNCHANGED <<build, running, edits, view, obj>> /\ calls' = calls + 1
  BY DEF Called
<1>2. BuildInv'
  BY <1>1, BuildInvStep DEF Inv
<1>3. ObjectOK(obj)' <=> ObjectOK(obj)
  BY <1>1 DEF ObjectOK, Exposed, Bound, build
<1> QED
  BY <1>1, <1>2, <1>3 DEF Inv, DocumentOK, CallOK, build

-----------------------------------------------------------------------------
(* The steps *)

LEMMA InvInit == Init => Inv
<1> SUFFICES ASSUME Init PROVE Inv
  OBVIOUS
<1>1. BuildInv
  BY BuildInvInit DEF Init
<1> QED
  BY <1>1 DEF Init, Inv, DocumentOK, Documents, Xdata, CallOK

(* A step that leaves the document and the build alone, and takes another  *)
(* object, or none.                                                        *)
LEMMA LocalOK ==
  ASSUME Inv, running, Local, obj' # Nothing => ObjectOK(obj')
  PROVE  Inv'
<1>1. UNCHANGED <<build, running, host, edits, calls, view, outcome, warned, xdata>>
  BY DEF Local
<1>2. BuildInv'
  BY <1>1, BuildInvStep DEF Inv
<1>3. obj' # Nothing => ObjectOK(obj)'
  BY <1>1 DEF ObjectOK, Exposed, Bound, build
<1> QED
  BY <1>1, <1>2, <1>3 DEF Inv, DocumentOK, CallOK, build

LEMMA SnapshotEntry ==
  ASSUME Inv, NEW h \in Handles, view[h] # Nothing
  PROVE  view[h] \in Entities
BY DEF Inv, DocumentOK, Documents

LEMMA ObjectsOK ==
  ASSUME Inv, NEW o \in Objects
  PROVE  o \in ObjectType
<1>1. CASE o \in Blanks
  BY <1>1, BlankOK DEF Blanks, ObjectOK
<1>2. ASSUME NEW h \in Handles, view[h] # Nothing, o = Read(h, view[h])
      PROVE  o \in ObjectType
  BY <1>2, SnapshotEntry, ReadOK DEF ObjectOK
<1> QED
  BY <1>1, <1>2 DEF Objects, Shown

LEMMA LoadStep ==
  ASSUME Inv, Load
  PROVE  Inv'
<1>1. host' \in Documents
  <2>1. {Drawn(e) : e \in Drawings} \subseteq Entities
    BY DrawnStorable
  <2> QED
    BY <2>1 DEF Load, Documents
<1>2. BuildInv'
  BY BuildInvStep DEF Inv, Load
<1>3. obj = Nothing /\ linked \in Versions
  BY DEF Inv, Load, BuildInv, BuildTypeOK
<1> QED
  BY <1>1, <1>2, <1>3 DEF Inv, Load, DocumentOK, CallOK, build, script

LEMMA CanvasStep ==
  ASSUME Inv, Canvas
  PROVE  Inv'
<1>1. /\ UNCHANGED <<build, running, calls, view, script>>
      /\ edits' = edits + 1
  BY DEF Canvas
<1>2. host' \in Documents /\ xdata' \in Xdata
  <2> PICK h \in Handles :
       \/ /\ \E e \in Drawings : host' = [host EXCEPT ![h] = Drawn(e)]
          /\ UNCHANGED xdata
       \/ /\ host[h] # Nothing
          /\ \E f \in Present : \E v \in HostValues(f) :
               host' = [host EXCEPT ![h].val[f] = v]
          /\ UNCHANGED xdata
       \/ /\ host' = [host EXCEPT ![h] = Nothing]
          /\ xdata' = [xdata EXCEPT ![h] = Nothing]
    BY DEF Canvas
  <2>1. host \in Documents /\ xdata \in Xdata
    BY DEF Inv, DocumentOK
  <2>2. ASSUME NEW e \in Drawings, host' = [host EXCEPT ![h] = Drawn(e)], UNCHANGED xdata
        PROVE  host' \in Documents /\ xdata' \in Xdata
    BY <2>1, <2>2, DrawnStorable DEF Documents
  <2>3. ASSUME host[h] # Nothing, NEW f \in Present, NEW v \in HostValues(f),
               host' = [host EXCEPT ![h].val[f] = v], UNCHANGED xdata
        PROVE  host' \in Documents /\ xdata' \in Xdata
    <3>1. Storable(f, v)
      BY <2>3, BindingAssumption DEF HostValues, Storable
    <3>2. host[h] \in Entities
      BY <2>1, <2>3 DEF Documents
    <3>3. [host[h] EXCEPT !.val[f] = v] \in Entities
      BY <3>1, <3>2 DEF Entities, EntityType, Storable
    <3> QED
      BY <2>1, <2>3, <3>3 DEF Documents
  <2>4. ASSUME host' = [host EXCEPT ![h] = Nothing], xdata' = [xdata EXCEPT ![h] = Nothing]
        PROVE  host' \in Documents /\ xdata' \in Xdata
    BY <2>1, <2>4 DEF Documents, Xdata
  <2> QED
    BY <2>2, <2>3, <2>4
<1>3. BuildInv'
  BY <1>1, BuildInvStep DEF Inv
<1>4. obj' # Nothing => ObjectOK(obj)'
  BY <1>1 DEF Inv, ObjectOK, Exposed, Bound, build, script
<1> QED
  BY <1>1, <1>2, <1>3, <1>4 DEF Inv, DocumentOK, CallOK, build, script

LEMMA AssignStep ==
  ASSUME Inv, NEW f \in Fields, NEW p \in PyValues(f), Assign(f, p)
  PROVE  Inv'
<1>1. /\ running /\ obj # Nothing /\ Exposed(f) /\ Local /\ ObjectOK(obj)
      /\ obj' = [obj EXCEPT !.val = [obj.val EXCEPT ![f] = p], !.set = obj.set \cup {f}]
  BY DEF Assign, May, Goes, Inv
<1>2. p \in PyType \ {Missing}
  BY BindingAssumption DEF PyValues, PyType
<1>3. obj \in ObjectType
  BY <1>1 DEF ObjectOK
<1>4. obj' \in ObjectType
  BY <1>1, <1>2, <1>3 DEF ObjectType
<1>5. obj'.base = obj.base /\ obj'.set = obj.set \cup {f}
      /\ \A g \in Fields : obj'.val[g] = IF g = f THEN p ELSE obj.val[g]
  BY <1>1, <1>3 DEF ObjectType
<1>6. ObjectOK(obj')
  BY <1>1, <1>2, <1>4, <1>5 DEF ObjectOK
<1> QED
  BY <1>1, <1>6, LocalOK

LEMMA AssignHandleStep ==
  ASSUME Inv, NEW h \in Handles, AssignHandle(h)
  PROVE  Inv'
<1>1. /\ running /\ obj # Nothing /\ Local /\ ObjectOK(obj)
      /\ obj' = [obj EXCEPT !.handle = h, !.set = obj.set \cup {"handle"}]
  BY DEF AssignHandle, May, Goes, Inv
<1>2. obj \in ObjectType
  BY <1>1 DEF ObjectOK
<1>3. obj' \in ObjectType
  BY <1>1, <1>2 DEF ObjectType
<1>4. obj'.base = obj.base /\ obj'.val = obj.val /\ obj'.set = obj.set \cup {"handle"}
  BY <1>1, <1>2 DEF ObjectType
<1>5. ObjectOK(obj')
  BY <1>1, <1>3, <1>4, BindingAssumption DEF ObjectOK
<1> QED
  BY <1>1, <1>5, LocalOK

(* What the calls of the script may do to the document.                    *)
LEMMA CallStep ==
  ASSUME Inv,
         \/ Add \/ Update
         \/ \E o \in Objects : AddMany(o)
         \/ \E h \in Handles : Remove(h) \/ RemoveRecord(h)
         \/ \E h \in Handles, r \in Records : WriteRecord(h, r)
  PROVE  Inv'
<1>1. host \in Documents /\ xdata \in Xdata
  BY DEF Inv, DocumentOK
<1>2. \A h \in Handles, e \in Entities \cup {Nothing} : [host EXCEPT ![h] = e] \in Documents
  BY <1>1 DEF Documents
<1>3. \A h \in Handles, r \in Records \cup {Nothing} : [xdata EXCEPT ![h] = r] \in Xdata
  BY <1>1 DEF Xdata
<1>4. ASSUME Refuse PROVE /\ host' \in Documents /\ xdata' \in Xdata
                         /\ outcome' \in {"none", "ok", "false", "error"}
  BY <1>1, <1>4 DEF Refuse
<1>5. obj # Nothing => obj \in ObjectType /\ Entity(obj) \in Entities
  BY EntityStorable DEF Inv, ObjectOK
<1>6. \A o : Warnings(o) \in SUBSET Fields
  BY DEF Warnings
<1>7. CASE Add
  <2>1. Called /\ obj # Nothing /\ warned' = Warnings(obj)
    BY <1>7 DEF Add
  <2>2. CASE Refuse
    BY <1>4, <1>6, <2>1, <2>2, CalledOK
  <2>3. ASSUME NEW h \in Handles, Request([host EXCEPT ![h] = Entity(obj)], {xdata}, "ok")
        PROVE  Inv'
    BY <1>1, <1>2, <1>5, <1>6, <2>1, <2>3, RequestOK, CalledOK
  <2> QED
    BY <1>7, <2>2, <2>3 DEF Add
<1>8. ASSUME NEW o \in Objects, AddMany(o) PROVE Inv'
  <2>1. Called /\ obj # Nothing /\ warned' = Warnings(obj) \cup Warnings(o)
    BY <1>8 DEF AddMany
  <2>2. CASE Refuse
    BY <1>4, <1>6, <2>1, <2>2, CalledOK
  <2>3. ASSUME NEW h \in Handles, NEW g \in Handles,
               Request([host EXCEPT ![h] = Entity(obj), ![g] = Entity(o)], {xdata}, "ok")
        PROVE  Inv'
    <3>1. Entity(o) \in Entities
      BY ObjectsOK, EntityStorable
    <3>2. [host EXCEPT ![h] = Entity(obj), ![g] = Entity(o)] \in Documents
      BY <1>1, <1>5, <2>1, <3>1 DEF Documents
    <3> QED
      BY <1>1, <1>6, <2>1, <2>3, <3>2, RequestOK, CalledOK
  <2> QED
    BY <1>8, <2>2, <2>3 DEF AddMany
<1>9. CASE Update
  <2>1. Called /\ obj # Nothing /\ warned' = Warnings(obj)
    BY <1>9 DEF Update
  <2>2. CASE Refuse
    BY <1>4, <1>6, <2>1, <2>2, CalledOK
  <2>3. CASE /\ obj.handle \in Handles
             /\ Request([host EXCEPT ![obj.handle] = Entity(obj)],
                        {xdata, [xdata EXCEPT ![obj.handle] = Nothing]}, "ok")
    BY <1>1, <1>2, <1>3, <1>5, <1>6, <2>1, <2>3, RequestOK, CalledOK
  <2>4. CASE Request(host, {xdata}, "false")
    BY <1>1, <1>6, <2>1, <2>4, RequestOK, CalledOK
  <2> QED
    BY <1>9, <2>2, <2>3, <2>4 DEF Update
<1>10. ASSUME NEW h \in Handles, Remove(h) PROVE Inv'
  <2>1. Called /\ warned' = {}
    BY <1>10 DEF Remove
  <2>2. PICK reply \in {"ok", "false"} :
          Request([host EXCEPT ![h] = Nothing], {[xdata EXCEPT ![h] = Nothing]}, reply)
    BY <1>10 DEF Remove
  <2> QED
    BY <1>2, <1>3, <2>1, <2>2, RequestOK, CalledOK
<1>11. ASSUME NEW h \in Handles, RemoveRecord(h) PROVE Inv'
  <2>1. Called /\ warned' = {}
    BY <1>11 DEF RemoveRecord
  <2>2. PICK reply \in {"ok", "false"} :
          Request(host, {[xdata EXCEPT ![h] = Nothing]}, reply)
    BY <1>11 DEF RemoveRecord
  <2> QED
    BY <1>1, <1>3, <2>1, <2>2, RequestOK, CalledOK
<1>12. ASSUME NEW h \in Handles, NEW r \in Records, WriteRecord(h, r) PROVE Inv'
  <2>1. Called /\ warned' = {}
    BY <1>12 DEF WriteRecord
  <2>2. CASE Refuse
    BY <1>4, <2>1, <2>2, CalledOK
  <2>3. CASE Request(host, {xdata}, "false")
    BY <1>1, <2>1, <2>3, RequestOK, CalledOK
  <2>4. CASE /\ XConverts(r)
             /\ Request(host, {[xdata EXCEPT ![h] = XdataRecord(r)]}, "ok")
    <3>1. [xdata EXCEPT ![h] = XdataRecord(r)] \in Xdata
      BY <1>3, <2>4, RecordKept
    <3> QED
      BY <1>1, <2>1, <2>4, <3>1, RequestOK, CalledOK
  <2> QED
    BY <1>12, <2>2, <2>3, <2>4 DEF WriteRecord
<1> QED
  BY <1>7, <1>8, <1>9, <1>10, <1>11, <1>12

LEMMA InvStep == Inv /\ [Next]_vars => Inv'
<1> SUFFICES ASSUME Inv, [Next]_vars PROVE Inv'
  OBVIOUS
<1>1. CASE UNCHANGED vars
  <2>1. BuildInv'
    BY <1>1, BuildInvStep DEF Inv, vars
  <2> QED
    BY <1>1, <2>1 DEF Inv, vars, build, script, DocumentOK, CallOK, ObjectOK, Exposed, Bound
<1>2. CASE ~running /\ BuildStep /\ UNCHANGED <<running, host, edits, calls, view, script, xdata>>
  <2>1. BuildInv'
    BY <1>2, BuildInvStep DEF Inv
  <2> QED
    BY <1>2, <2>1 DEF Inv, script, DocumentOK, CallOK
<1>3. CASE Load
  BY <1>3, LoadStep
<1>4. CASE Canvas
  BY <1>4, CanvasStep
<1>5. CASE Refresh
  <2>1. BuildInv'
    BY <1>5, BuildInvStep DEF Inv, Refresh
  <2> QED
    BY <1>5, <2>1 DEF Inv, Refresh, build, script, DocumentOK, CallOK, ObjectOK, Exposed, Bound
<1>6. ASSUME NEW h \in Handles, ReadEntity(h) PROVE Inv'
  BY <1>6, SnapshotEntry, ReadOK, LocalOK DEF ReadEntity, Goes
<1>7. CASE ReadEntities
  BY <1>7, SnapshotEntry, ReadOK, LocalOK DEF ReadEntities, Goes, Shown
<1>8. CASE Construct
  <2>1. \A o \in Blanks : ObjectOK(o)
    BY BlankOK DEF Blanks
  <2> QED
    BY <1>8, <2>1, LocalOK DEF Construct, Goes
<1>9. ASSUME NEW h \in Handles, AssignHandle(h) PROVE Inv'
  BY <1>9, AssignHandleStep
<1>10. ASSUME NEW f \in Fields, NEW p \in PyValues(f), Assign(f, p) PROVE Inv'
  BY <1>10, AssignStep
<1>11. ASSUME \/ Add \/ Update
              \/ \E o \in Objects : AddMany(o)
              \/ \E h \in Handles : Remove(h) \/ RemoveRecord(h)
              \/ \E h \in Handles, r \in Records : WriteRecord(h, r)
       PROVE  Inv'
  BY <1>11, CallStep
<1> QED
  BY <1>1, <1>2, <1>3, <1>4, <1>5, <1>6, <1>7, <1>8, <1>9, <1>10, <1>11 DEF Next

LEMMA Invariance == Spec => []Inv
<1> QED
  BY InvInit, InvStep, PTL DEF Spec

-----------------------------------------------------------------------------
(* The theorems *)

(* No conversion puts into the host's document what a field of its type    *)
(* cannot hold, and no plugin runs without a registry.                     *)
THEOREM TypeCorrect == Spec => []TypeOK
<1>1. Inv => TypeOK
  BY DEF Inv, BuildInv, TypeOK, DocumentOK, Documents, Xdata, Entities, CallOK, ObjectOK
<1> QED
  BY <1>1, Invariance, PTL

(* The bindings are those of the version the plugin links, but for a       *)
(* registry that cargo left as it was, or that lacks a type.               *)
THEOREM BindingsOfLinked == Spec => []RegistryExplained
<1>1. Inv => RegistryExplained
  BY DEF Inv, BuildInv
<1> QED
  BY <1>1, Invariance, PTL

(* entities() lists a document exactly if counts() knows all its kinds.    *)
THEOREM CountsAgreeHolds == Spec => []CountsAgree
<1>1. Inv => CountsAgree
  <2> SUFFICES ASSUME Inv, running PROVE Lists <=> Others = {}
    BY DEF CountsAgree
  <2>1. Complete(chosen)
    BY DEF Inv, BuildInv
  <2>2. \A kind : Known(kind) <=> kind \in Filter
    BY <2>1 DEF Known, Complete, Required
  <2> QED
    BY <2>2 DEF Lists, Others
<1> QED
  BY <1>1, Invariance, PTL

(* update replaces no field the script has not assigned, but for the       *)
(* reasons OverwriteExplained names.                                       *)
THEOREM UpdatesExplained == Spec => OverwriteExplained
<1> DEFINE Explained ==
      \A h \in Handles : host'[h] # host[h] =>
        \/ obj.base = Nothing
        \/ \A f \in Present \ obj.set :
             \/ host'[h].val[f] = host[h].val[f]
             \/ host[h].val[f] # obj.base[f]
             \/ Lossy(f, obj.base[f])
             \/ f \notin Bound /\ OtherRegistry
<1>1. Inv /\ host' # host /\ Update => Explained
  <2> SUFFICES ASSUME Inv, host' # host, Update,
                      NEW h \in Handles, host'[h] # host[h],
                      obj.base # Nothing,
                      NEW f \in Present, f \notin obj.set,
                      host[h].val[f] = obj.base[f],
                      ~Lossy(f, obj.base[f])
               PROVE  host'[h].val[f] = obj.base[f] \/ (f \notin Bound /\ OtherRegistry)
    OBVIOUS
  <2>1. /\ Converts(obj)
        /\ Request([host EXCEPT ![obj.handle] = Entity(obj)],
                   {xdata, [xdata EXCEPT ![obj.handle] = Nothing]}, "ok")
    BY DEF Update, Refuse, Request
  <2>2. host' = [host EXCEPT ![obj.handle] = Entity(obj)]
    BY <2>1 DEF Request
  <2>3. h = obj.handle /\ host'[h] = Entity(obj)
    BY <2>2 DEF Inv, DocumentOK, Documents
  <2>4. ObjectOK(obj) /\ linked \in Versions /\ RegistryExplained
    BY DEF Update, Inv, BuildInv
  <2>5. f \in Fields
    BY <2>4, RegistryAssumption DEF Present
  <2>6. host'[h].val[f] = FromPy(f, obj.val[f]) /\ ~Refused(f, obj.val[f])
    BY <2>1, <2>3, <2>5 DEF Entity, Converts
  <2>7. CASE f \in Bound
    <3>1. Exposed(f)
      BY <2>7 DEF Exposed, Lossy
    <3>2. Storable(f, obj.base[f]) /\ obj.val[f] = ToPy(f, obj.base[f])
      BY <2>4, <2>5, <3>1 DEF ObjectOK
    <3> QED
      BY <2>5, <2>6, <3>1, <3>2, RoundTrip
  <2>8. CASE f \notin Bound
    <3>1. chosen # linked
      BY <2>8 DEF Bound, Present
    <3> QED
      BY <2>4, <2>8, <3>1, Zenon DEF RegistryExplained, OtherRegistry
  <2> QED
    BY <2>7, <2>8
<1>2. Inv /\ [Next]_vars => [host' # host /\ Update => Explained]_vars
  BY <1>1
<1> QED
  BY <1>2, Invariance, PTL DEF Spec, OverwriteExplained

(* What is stored is what was given, or Python has warned.                 *)
THEOREM GivenIsStored == Spec => StoredAsGiven
<1>1. Inv => FieldsAsGiven
  <2> SUFFICES ASSUME Inv, host' # host, Add \/ Update,
                      NEW h \in Handles, host'[h] # host[h],
                      NEW f \in obj.set \cap Fields, f \notin warned'
               PROVE  Kept(f, obj.val[f], host'[h].val[f])
    BY DEF FieldsAsGiven
  <2>1. obj # Nothing /\ Converts(obj) /\ warned' = Warnings(obj)
    BY DEF Add, Update, Refuse, Request
  <2>2. \E g \in Handles : host' = [host EXCEPT ![g] = Entity(obj)]
    BY DEF Add, Update, Refuse, Request
  <2>3. host'[h] = Entity(obj)
    BY <2>2 DEF Inv, DocumentOK, Documents
  <2>4. ObjectOK(obj)
    BY <2>1 DEF Inv
  <2>5. Exposed(f) /\ obj.val[f] \in PyType \ {Missing}
    BY <2>4 DEF ObjectOK, ObjectType
  <2>6. ~Refused(f, obj.val[f]) /\ ~Warns(f, obj.val[f])
    BY <2>1 DEF Converts, Warnings
  <2>7. Kept(f, obj.val[f], FromPy(f, obj.val[f]))
    BY <2>5, <2>6, AssignedKept
  <2> QED
    BY <2>3, <2>7 DEF Entity
<1>2. Inv => RecordsAsGiven
  <2> SUFFICES ASSUME Inv, xdata' # xdata, NEW h \in Handles, NEW r \in Records,
                      WriteRecord(h, r)
               PROVE  xdata'[h] = r
    BY DEF RecordsAsGiven
  <2>1. XConverts(r) /\ xdata' = [xdata EXCEPT ![h] = XdataRecord(r)]
    BY DEF WriteRecord, Refuse, Request
  <2> QED
    BY <2>1, RecordKept DEF Inv, DocumentOK, Xdata
<1>3. Inv /\ [Next]_vars => [FieldsAsGiven /\ RecordsAsGiven]_vars
  BY <1>1, <1>2
<1> QED
  BY <1>3, Invariance, PTL DEF Spec, StoredAsGiven

(* A batch is stored as a whole or not at all.                             *)
THEOREM BatchesWhole == Spec => BatchWhole
<1> DEFINE Whole ==
      \A o \in Objects : AddMany(o) =>
        \E h, g \in Handles :
          /\ h # g /\ Free(h) /\ Free(g)
          /\ host' = [host EXCEPT ![h] = Entity(obj), ![g] = Entity(o)]
<1>1. (host' # host \/ outcome' = "ok") /\ Called => Whole
  BY DEF AddMany, Refuse, Request
<1>2. [Next]_vars => [(host' # host \/ outcome' = "ok") /\ Called => Whole]_vars
  BY <1>1
<1> QED
  BY <1>2, PTL DEF Spec, BatchWhole

(* The host's document and the script's snapshot hold only what the fields *)
(* can store, whatever is assigned, drawn, lost or sent twice.             *)
THEOREM StoredIsStorable == Spec => []OnlyStorable
<1>1. Inv => OnlyStorable
  BY DEF Inv, DocumentOK, Documents, Entities, OnlyStorable
<1> QED
  BY <1>1, Invariance, PTL

-----------------------------------------------------------------------------
(* A dict and a dataclass instance *)

(* A dict has nothing but what the script has put into it.                 *)
DictInv ==
  obj # Nothing /\ obj.form = "dict" => \A f \in Fields \ obj.set : obj.val[f] = Missing

LEMMA DictInit == Init => DictInv
BY DEF Init, DictInv

LEMMA DictStep == Inv /\ DictInv /\ [Next]_vars => DictInv'
<1> SUFFICES ASSUME Inv, DictInv, [Next]_vars PROVE DictInv'
  OBVIOUS
<1>1. CASE UNCHANGED obj
  BY <1>1 DEF DictInv
<1>2. ASSUME NEW h \in Handles, NEW e, obj' = Read(h, e)
      PROVE  DictInv'
  BY <1>2 DEF DictInv, Read
<1>3. ASSUME NEW h \in Handles, ReadEntity(h) PROVE DictInv'
  BY <1>2, <1>3 DEF ReadEntity, DictInv
<1>4. CASE ReadEntities
  BY <1>2, <1>4 DEF ReadEntities, Shown
<1>5. CASE Construct
  <2>1. \A form, kind : \A f \in Fields :
          Blank(form, kind).form = form /\ (form = "dict" => Blank(form, kind).val[f] = Missing)
    BY DEF Blank
  <2> QED
    BY <1>5, <2>1 DEF Construct, Blanks, DictInv
<1>6. ASSUME NEW h \in Handles, AssignHandle(h) PROVE DictInv'
  <2>1. obj \in ObjectType /\ obj # Nothing
    BY <1>6 DEF AssignHandle, May, Inv, ObjectOK
  <2>2. obj'.form = obj.form /\ obj'.val = obj.val /\ obj.set \subseteq obj'.set
    BY <1>6, <2>1 DEF AssignHandle, ObjectType
  <2> QED
    BY <2>1, <2>2 DEF DictInv
<1>7. ASSUME NEW f \in Fields, NEW p \in PyValues(f), Assign(f, p) PROVE DictInv'
  <2>1. obj \in ObjectType /\ obj # Nothing
    BY <1>7 DEF Assign, May, Inv, ObjectOK
  <2>2. obj'.form = obj.form /\ obj'.set = obj.set \cup {f}
        /\ \A g \in Fields : g # f => obj'.val[g] = obj.val[g]
    BY <1>7, <2>1 DEF Assign, ObjectType
  <2> QED
    BY <2>1, <2>2 DEF DictInv
<1>8. CASE UNCHANGED vars \/ (~running /\ BuildStep /\ UNCHANGED <<running, host, edits, calls, view, script, xdata>>)
           \/ Load \/ Canvas \/ Refresh
  BY <1>1, <1>8 DEF vars, script, Load, Canvas, Refresh
<1>9. CASE \/ Add \/ Update
           \/ \E o \in Objects : AddMany(o)
           \/ \E h \in Handles : Remove(h) \/ RemoveRecord(h)
           \/ \E h \in Handles, r \in Records : WriteRecord(h, r)
  BY <1>1, <1>9 DEF Called, Add, Update, AddMany, Remove, RemoveRecord, WriteRecord
<1> QED
  BY <1>3, <1>4, <1>5, <1>6, <1>7, <1>8, <1>9 DEF Next

(* What a field becomes if it is left out, and if it is left as the        *)
(* generated dataclass has it.                                             *)
LEMMA LeftOut ==
  ASSUME NEW f \in Fields, f \notin ZAxis, ~Refused(f, Missing)
  PROVE  FromPy(f, Missing) = FromPy(f, IF Exposed(f) THEN PyDefault(f) ELSE Missing)
<1>1. CASE ~Exposed(f)
  BY <1>1
<1>2. CASE Exposed(f)
  <2>1. TypeOf[f] # "enum"
    BY <1>2 DEF Refused
  <2>2. FromPy(f, Missing) = Default(f)
    BY BindingAssumption DEF FromPy, Fits
  <2>3. Fits(f, PyDefault(f))
    BY BindingAssumption DEF Fits, PyDefault
  <2>4. TypeOf[f] = "int" => Narrow(PyDefault(f)) = 0
    BY BindingAssumption DEF Narrow, PyDefault
  <2>5. FromPy(f, PyDefault(f)) = Default(f)
    BY <1>2, <2>1, <2>3, <2>4 DEF FromPy, Default, PyDefault
  <2> QED
    BY <1>2, <2>2, <2>5
<1> QED
  BY <1>1, <1>2

(* The dict of README.md:216 is an equivalent of the dataclass instance    *)
(* but for the fields with a default of their own: the violation of        *)
(* DictLikeDataclass goes no further.                                      *)
THEOREM DictCorrect == Spec => DictDiffersInZAxis
<1> DEFINE Alike ==
      \A h \in Handles : host'[h] # host[h] =>
        /\ host'[h].kind = Entity(AsDataclass(obj)).kind
        /\ \A f \in Fields : f \notin ZAxis \/ f \in obj.set =>
             host'[h].val[f] = Entity(AsDataclass(obj)).val[f]
<1>1. ASSUME Inv, DictInv, host' # host, Add, obj.form = "dict"
      PROVE  Alike
  <2>1. obj # Nothing /\ Converts(obj) /\ \E g \in Handles : host' = [host EXCEPT ![g] = Entity(obj)]
    BY <1>1 DEF Add, Refuse, Request
  <2>2. \A h \in Handles : host'[h] # host[h] => host'[h] = Entity(obj)
    BY <1>1, <2>1 DEF Inv, DocumentOK, Documents
  <2>3. AsDataclass(obj).kind = obj.kind
        /\ \A f \in Fields : AsDataclass(obj).val[f] =
             IF f \in obj.set THEN obj.val[f] ELSE IF Exposed(f) THEN PyDefault(f) ELSE Missing
    BY DEF AsDataclass, Blank
  <2>4. Entity(AsDataclass(obj)).kind = Entity(obj).kind
    BY <2>3 DEF Entity
  <2>5. ASSUME NEW f \in Fields, f \notin ZAxis \/ f \in obj.set
        PROVE  Entity(obj).val[f] = Entity(AsDataclass(obj)).val[f]
    <3>1. Entity(obj).val[f] = FromPy(f, obj.val[f])
          /\ Entity(AsDataclass(obj)).val[f] = FromPy(f, AsDataclass(obj).val[f])
      BY DEF Entity
    <3>2. CASE f \in obj.set
      BY <2>3, <3>1, <3>2
    <3>3. CASE f \notin obj.set
      <4>1. obj.val[f] = Missing /\ ~Refused(f, Missing)
        BY <1>1, <2>1, <3>3 DEF DictInv, Converts
      <4> QED
        BY <2>3, <2>5, <3>1, <3>3, <4>1, LeftOut
    <3> QED
      BY <3>2, <3>3
  <2> QED
    BY <2>2, <2>4, <2>5
<1>2. Inv /\ DictInv /\ [Next]_vars => [host' # host /\ Add /\ obj.form = "dict" => Alike]_vars
  BY <1>1
<1> QED
  BY <1>2, Invariance, DictInit, DictStep, PTL DEF Spec, DictDiffersInZAxis

-----------------------------------------------------------------------------
(* Calls that return False *)

LEMMA EntityIsThing == \A e \in Entities : e # Nothing
BY NothingAssumption DEF Entities, EntityType

(* A document is opened without records of the script's application.       *)
RecordsInv == RecordsOwned /\ (~running => xdata = [h \in Handles |-> Nothing])

LEMMA RecordsInit == Init => RecordsInv
BY DEF Init, RecordsInv, RecordsOwned

LEMMA RecordsStep == Inv /\ RecordsInv /\ [Next]_vars => RecordsInv'
<1> SUFFICES ASSUME Inv, Inv', RecordsInv, [Next]_vars PROVE RecordsInv'
  BY InvStep
<1> USE DEF RecordsInv
<1>0. host \in Documents /\ xdata \in Xdata /\ host' \in Documents
  BY DEF Inv, DocumentOK
<1>1. CASE UNCHANGED <<running, host, xdata>>
  BY <1>1 DEF RecordsOwned, Free
<1>2. CASE Load
  BY <1>2 DEF Load, RecordsOwned
<1>3. CASE Canvas
  <2>1. running /\ running'
    BY <1>3 DEF Canvas, Goes
  <2>2. PICK h \in Handles :
          \/ \E e \in Drawings : host[h] = Nothing /\ host' = [host EXCEPT ![h] = Drawn(e)] /\ xdata' = xdata
          \/ /\ host[h] # Nothing /\ xdata' = xdata
             /\ \E f \in Present : \E v \in HostValues(f) : host' = [host EXCEPT ![h].val[f] = v]
          \/ host' = [host EXCEPT ![h] = Nothing] /\ xdata' = [xdata EXCEPT ![h] = Nothing]
    BY <1>3 DEF Canvas
  <2>3. \A g \in Handles \ {h} : host'[g] = host[g] /\ xdata'[g] = xdata[g]
    BY <1>0, <2>2 DEF Documents, Xdata
  <2>4. Free(h)' => xdata'[h] = Nothing
    <3>1. CASE xdata' = [xdata EXCEPT ![h] = Nothing]
      BY <1>0, <3>1 DEF Xdata
    <3>2. CASE host[h] = Nothing /\ xdata' = xdata
      BY <3>2 DEF RecordsOwned, Free
    <3>3. ASSUME host[h] # Nothing, NEW f \in Present, NEW v \in HostValues(f), host' = [host EXCEPT ![h].val[f] = v]
          PROVE  host'[h] # Nothing
      <4>0. linked \in Versions
        BY <2>1 DEF Inv
      <4>1. host[h] \in EntityType /\ f \in Fields /\ v \in Int
        <5>1. host[h] \in EntityType
          BY <1>0, <3>3 DEF Documents, Entities
        <5>2. f \in Fields
          BY <3>3, <4>0, RegistryAssumption DEF Present
        <5>3. v \in Int
          <6>1. Half \in Int /\ Points \in Int
            BY BindingAssumption
          <6> QED
            BY <3>3, <6>1 DEF HostValues
        <5> QED
          BY <5>1, <5>2, <5>3
      <4>2. host'[h] = [host[h] EXCEPT !.val[f] = v]
        BY <1>0, <3>3 DEF Documents
      <4>3. host'[h] \in EntityType
        BY <4>1, <4>2 DEF EntityType
      <4> QED
        BY <4>3, NothingAssumption DEF EntityType
    <3> QED
      BY <2>2, <3>1, <3>2, <3>3 DEF Free
  <2> QED
    BY <2>1, <2>3, <2>4 DEF RecordsOwned, Free
<1>4. ASSUME NEW h \in Handles, NEW e \in Entities \cup {Nothing}, running',
             \/ host' = host
             \/ host' = [host EXCEPT ![h] = e] /\ (e = Nothing => xdata' = [xdata EXCEPT ![h] = Nothing]),
             \/ xdata' = xdata
             \/ xdata' = [xdata EXCEPT ![h] = Nothing]
      PROVE  RecordsInv'
  <2>1. \A g \in Handles \ {h} : host'[g] = host[g] /\ xdata'[g] = xdata[g]
    BY <1>0, <1>4 DEF Documents, Xdata
  <2>2. Free(h)' => xdata'[h] = Nothing
    BY <1>0, <1>4, EntityIsThing DEF Documents, Xdata, RecordsOwned, Free
  <2> QED
    BY <1>4, <2>1, <2>2 DEF RecordsOwned, Free
<1>5. ASSUME Called, Refuse
      PROVE  RecordsInv'
  BY <1>1, <1>5 DEF Called, Refuse
<1>6. Called => running /\ running'
  BY DEF Called, Goes
<1>7. obj # Nothing => obj \in ObjectType /\ Entity(obj) \in Entities
  BY EntityStorable DEF Inv, ObjectOK
<1>8. CASE Add
  <2>1. CASE Refuse
    BY <1>5, <1>8, <2>1 DEF Add
  <2>2. ASSUME NEW h \in Handles, Request([host EXCEPT ![h] = Entity(obj)], {xdata}, "ok")
        PROVE  RecordsInv'
    <3>1. (host' = host \/ host' = [host EXCEPT ![h] = Entity(obj)]) /\ xdata' = xdata
      BY <2>2 DEF Request
    <3>2. Entity(obj) \in Entities
      BY <1>7, <1>8 DEF Add
    <3> QED
      BY <1>4, <1>6, <1>8, <3>1, <3>2, EntityIsThing DEF Add
  <2> QED
    BY <1>8, <2>1, <2>2 DEF Add
<1>9. ASSUME NEW o \in Objects, AddMany(o)
      PROVE  RecordsInv'
  <2>1. CASE Refuse
    BY <1>5, <1>9, <2>1 DEF AddMany
  <2>2. ASSUME NEW h \in Handles, NEW g \in Handles,
               Request([host EXCEPT ![h] = Entity(obj), ![g] = Entity(o)], {xdata}, "ok")
        PROVE  RecordsInv'
    <3>1. /\ host' = host \/ host' = [host EXCEPT ![h] = Entity(obj), ![g] = Entity(o)]
          /\ xdata' = xdata
      BY <2>2 DEF Request
    <3>2. Entity(obj) # Nothing /\ Entity(o) # Nothing
      BY <1>7, <1>9, ObjectsOK, EntityStorable, EntityIsThing DEF AddMany
    <3>3. \A i \in Handles : host'[i] = Nothing => host[i] = Nothing
      BY <1>0, <3>1, <3>2 DEF Documents
    <3> QED
      BY <1>6, <1>9, <3>1, <3>3 DEF AddMany, RecordsOwned, Free
  <2> QED
    BY <1>9, <2>1, <2>2 DEF AddMany
<1>10. CASE Update
  <2>1. Called /\ obj # Nothing
    BY <1>10 DEF Update
  <2>2. CASE Refuse
    BY <1>5, <2>1, <2>2
  <2>3. ASSUME obj.handle \in Handles,
               Request([host EXCEPT ![obj.handle] = Entity(obj)],
                       {xdata, [xdata EXCEPT ![obj.handle] = Nothing]}, "ok")
        PROVE  RecordsInv'
    <3>1. /\ host' = host \/ host' = [host EXCEPT ![obj.handle] = Entity(obj)]
          /\ xdata' = xdata \/ xdata' = [xdata EXCEPT ![obj.handle] = Nothing]
      BY <2>3 DEF Request
    <3>2. Entity(obj) \in Entities /\ Entity(obj) # Nothing
      BY <1>7, <2>1, EntityIsThing
    <3> QED
      BY <1>4, <1>6, <2>1, <2>3, <3>1, <3>2
  <2>4. CASE Request(host, {xdata}, "false")
    BY <1>1, <2>1, <2>4 DEF Called, Request
  <2> QED
    BY <1>10, <2>2, <2>3, <2>4 DEF Update
<1>11. ASSUME NEW h \in Handles, Remove(h)
       PROVE  RecordsInv'
  <2>1. \/ host' = [host EXCEPT ![h] = Nothing] /\ xdata' = [xdata EXCEPT ![h] = Nothing]
        \/ host' = host /\ xdata' = xdata
    BY <1>11 DEF Remove, Request
  <2> QED
    BY <1>4, <1>6, <1>11, <2>1 DEF Remove
<1>12. ASSUME NEW h \in Handles, RemoveRecord(h)
       PROVE  RecordsInv'
  <2>1. host' = host /\ (xdata' = xdata \/ xdata' = [xdata EXCEPT ![h] = Nothing])
    BY <1>12 DEF RemoveRecord, Request
  <2> QED
    BY <1>4, <1>6, <1>12, <2>1 DEF RemoveRecord
<1>13. ASSUME NEW h \in Handles, NEW r \in Records, WriteRecord(h, r)
       PROVE  RecordsInv'
  <2>1. Called
    BY <1>13 DEF WriteRecord
  <2>2. \/ host' = host /\ xdata' = xdata
        \/ ~Free(h) /\ host' = host /\ xdata' = [xdata EXCEPT ![h] = XdataRecord(r)]
    BY <1>13 DEF WriteRecord, Request, Refuse
  <2>3. \A g \in Handles : Free(g) => xdata'[g] = xdata[g]
    BY <1>0, <2>2 DEF Xdata
  <2> QED
    BY <1>6, <2>1, <2>2, <2>3 DEF RecordsOwned, Free
<1>14. CASE \/ \E h \in Handles : ReadEntity(h) \/ AssignHandle(h)
            \/ ReadEntities \/ Construct \/ Refresh \/ UNCHANGED vars
            \/ \E f \in Fields : \E p \in PyValues(f) : Assign(f, p)
            \/ BuildStep /\ UNCHANGED <<running, host, edits, calls, view, script, xdata>>
  BY <1>1, <1>14 DEF ReadEntity, AssignHandle, ReadEntities, Construct, Refresh, Assign, Local, vars
<1> QED
  BY <1>2, <1>3, <1>8, <1>9, <1>10, <1>11, <1>12, <1>13, <1>14 DEF Next

(* Erasing or removing an entity takes its record along, and a record is   *)
(* never written for a handle that is free.                                *)
THEOREM RecordsCorrect == Spec => []RecordsOwned
<1>1. RecordsInv => RecordsOwned
  BY DEF RecordsInv
<1> QED
  BY <1>1, Invariance, RecordsInit, RecordsStep, PTL DEF Spec

(* update, remove, write_record and remove_record return False only when   *)
(* they have changed neither the document nor a record.                    *)
THEOREM FalseCorrect == Spec => FalseChangesNothing
<1> DEFINE Same == host' = host /\ xdata' = xdata
<1>1. ASSUME Inv, RecordsOwned, [Next]_vars, Called, outcome' = "false", vars' # vars
      PROVE  Same
  <2>0. host \in Documents /\ xdata \in Xdata
    BY <1>1 DEF Inv, DocumentOK
  <2>1. calls' # calls
    BY <1>1 DEF Called, Inv
  <2>2. ~Add
    BY <1>1 DEF Add, Request, Refuse
  <2>3. \A o : ~AddMany(o)
    BY <1>1 DEF AddMany, Request, Refuse
  <2>4. CASE Update
    BY <1>1, <2>4 DEF Update, Request, Refuse
  <2>5. ASSUME NEW h \in Handles, Remove(h) PROVE Same
    <3>1. host[h] = Nothing /\ host' = [host EXCEPT ![h] = Nothing] /\ xdata' = [xdata EXCEPT ![h] = Nothing]
      BY <1>1, <2>5 DEF Remove, Request, Free
    <3>2. xdata[h] = Nothing
      BY <1>1, <3>1 DEF RecordsOwned, Free
    <3> QED
      BY <2>0, <3>1, <3>2 DEF Documents, Xdata
  <2>6. ASSUME NEW h \in Handles, RemoveRecord(h) PROVE Same
    <3>1. xdata[h] = Nothing /\ host' = host /\ xdata' = [xdata EXCEPT ![h] = Nothing]
      BY <1>1, <2>6 DEF RemoveRecord, Request
    <3> QED
      BY <2>0, <3>1 DEF Xdata
  <2>7. ASSUME NEW h \in Handles, NEW r \in Records, WriteRecord(h, r) PROVE Same
    BY <1>1, <2>7 DEF WriteRecord, Request, Refuse
  <2>8. \/ Add \/ Update
        \/ \E o \in Objects : AddMany(o)
        \/ \E h \in Handles : Remove(h) \/ RemoveRecord(h)
        \/ \E h \in Handles, r \in Records : WriteRecord(h, r)
    BY <1>1, <2>1 DEF Next, Load, Canvas, Refresh, ReadEntity, AssignHandle, ReadEntities,
                      Construct, Assign, Local
  <2> QED
    BY <2>2, <2>3, <2>4, <2>5, <2>6, <2>7, <2>8
<1>2. Inv /\ RecordsOwned /\ [Next]_vars => [Called /\ outcome' = "false" => UNCHANGED <<host, xdata>>]_vars
  BY <1>1
<1> QED
  BY <1>2, Invariance, RecordsCorrect, PTL DEF Spec, FalseChangesNothing
=============================================================================
