---------------------------- MODULE EntityBinding ----------------------------
(***************************************************************************)
(* Entities between the host and a Python script: the conversions of       *)
(* src/src/python_ext.rs and of the code build/generate.rs makes for it,   *)
(* and what add, add_many, update and remove of src/src/document.rs do to  *)
(* the host's document with them.  RegistrySelection decides which fields  *)
(* the conversions know.                                                   *)
(*                                                                         *)
(* Values are numbers.  0 is the default of the field's Rust type; a list  *)
(* counts its points, plus Points if it has what Python is not shown (the  *)
(* bulge and the width of a vertex).  Half and Word stand for the bounds   *)
(* of the narrow integer types and of u64.                                 *)
(*                                                                         *)
(* MaxEdits bounds what the user does on the canvas; the script ends with  *)
(* the call number MaxCalls that may change the document.  MaxSet bounds   *)
(* the attributes it assigns before it starts from another object.         *)
(***************************************************************************)
EXTENDS Integers, Sequences, RegistrySelection

CONSTANTS
  Handles,
  NoHandle,
  Nothing,    \* no entity, no object
  Missing,    \* no such attribute or key
  Wrong,      \* a Python value of a type the field does not take
  TypeOf,     \* field -> its FieldType
  ZAxis,      \* fields with a default of their own in crud_manifest.json
  Points, Half, Word,
  Drawings,   \* the entities that may be drawn
  Records,    \* the XDATA records that a script may try to write
  MaxEdits, MaxCalls, MaxSet

\* "real" stands for bool, too, and "text" for an Option; "name" is an
\* enumeration with a setter of its own; nobody outside the host sees "hidden".
FieldType == {"real", "int", "text", "vector", "list", "enum", "name", "hidden"}

ASSUME BindingAssumption ==
  /\ TypeOf \in [Fields -> FieldType]
  /\ NoHandle \notin Handles
  /\ Points \in Nat \ {0} /\ Half \in Nat \ {0} /\ Word \in Nat
  /\ Half <= Word
  /\ MaxEdits \in Nat /\ MaxCalls \in Nat /\ MaxSet \in Nat
  /\ Missing \notin Int /\ Wrong \notin Int /\ Missing # Wrong
  /\ "handle" \notin Fields
  /\ Records \subseteq Seq([kind : STRING, value : Int \cup {Wrong}])

\* What a field of that type can hold; an enumeration has no variant 0.
Storable(f, v) ==
  /\ v \in Int
  /\ TypeOf[f] = "int" => v \in -Half .. Half - 1
  /\ TypeOf[f] = "name" => v # 0

ASSUME DrawingsAssumption ==
  \A e \in Drawings :
    /\ e = [kind |-> e.kind, val |-> e.val]
    /\ e.val \in [Fields -> Int]
    /\ \A f \in Fields : Storable(f, e.val[f])

VARIABLES
  running,  \* the plugin in use has been loaded
  host,     \* handle -> the entity of the document, or Nothing
  edits,    \* what the user has done on the canvas
  calls,    \* what the script has done to the document
  view,     \* the snapshot of the document that Python sees
  obj,      \* the Python object at hand, or Nothing
  outcome,  \* how the last call ended
  warned,   \* the fields of which the last call has warned
  xdata     \* handle -> the record of the script's application, or Nothing

script == <<obj, outcome, warned>>
vars   == <<build, running, host, edits, calls, view, script, xdata>>

-----------------------------------------------------------------------------
(* Conversions *)

Kinds == Filter \cup {e.kind : e \in Drawings}

ASSUME NothingAssumption == Nothing \notin [kind : Kinds, val : [Fields -> Int]]

(* generate.rs leaves out a kind the registry does not name.               *)
Known(kind) == kind \in Filter \cap Traced[chosen]

Default(f) == IF TypeOf[f] \in {"enum", "name"} THEN 1 ELSE 0

(* The default in the generated dataclass; that of an enumeration is "".   *)
PyDefault(f) == IF f \in ZAxis THEN 1 ELSE IF TypeOf[f] = "name" THEN 1 ELSE 0

Exposed(f) == f \in Bound /\ TypeOf[f] # "hidden"

ToPy(f, v) == IF TypeOf[f] = "list" /\ v >= Points THEN v - Points ELSE v

(* get_opt_f64, get_opt_bool and get_opt_u64: what does not fit becomes    *)
(* the default.                                                            *)
Lenient(f) == TypeOf[f] \in {"real", "int"}
Fits(f, p) == p \in Int /\ (TypeOf[f] = "int" => p \in 0 .. Word - 1)

(* The rest is refused; a name is looked up, and its default taken.        *)
Refused(f, p) ==
  /\ Exposed(f)
  /\ \/ p = Wrong /\ ~Lenient(f) /\ TypeOf[f] # "name"
     \/ TypeOf[f] = "enum" /\ p \in {Missing, 0}

Warns(f, p) == Exposed(f) /\ Lenient(f) /\ p # Missing /\ ~Fits(f, p)

(* Slip: the value is clamped.                                             *)
Clamped(n) == IF n < Half THEN n ELSE Half - 1

(* `as i16`.                                                               *)
Narrow(n) == IF n < Half THEN n ELSE ((n + Half) % (2 * Half)) - Half

(* Slip: an enumeration has a getter, but its setter was forgotten.        *)
FromPyNoEnum(f, p) ==
  IF ~Exposed(f) \/ ~Fits(f, p) \/ TypeOf[f] = "enum" \/ (TypeOf[f] = "name" /\ p = 0)
    THEN Default(f)
    ELSE IF TypeOf[f] = "int" THEN Narrow(p) ELSE p

(* Slip: what does not fit is taken as it is.                              *)
FromPyUnchecked(f, p) ==
  IF ~Exposed(f) THEN Default(f) ELSE IF p \in Int /\ TypeOf[f] = "int" THEN Narrow(p) ELSE p

FromPy(f, p) ==
  IF ~Exposed(f) \/ ~Fits(f, p) \/ (TypeOf[f] = "name" /\ p = 0)
    THEN Default(f)
    ELSE IF TypeOf[f] = "int" THEN Narrow(p) ELSE p

(* entity_to_py; h is the handle of the snapshot's entry.                  *)
Read(h, e) ==
  [form |-> "object", kind |-> e.kind, handle |-> h,
   val |-> [f \in Fields |-> IF Exposed(f) THEN ToPy(f, e.val[f]) ELSE Missing],
   base |-> e.val, set |-> {}]

(* py_to_entity; it raises at the first field it refuses.                  *)
Converts(o) == Known(o.kind) /\ \A f \in Fields : ~Refused(f, o.val[f])
Entity(o)   == [kind |-> o.kind, val |-> [f \in Fields |-> FromPy(f, o.val[f])]]
Warnings(o) == {f \in Fields : Warns(f, o.val[f])}

(* Slip: the range of the integer is not looked at.                        *)
XTypeRefused(x) == x.kind = "unknown" \/ x.value \notin Int

(* py_to_xdata_value: an integer that is too wide for its kind is refused  *)
(* (Integer16 stands for Integer32, too).                                  *)
XRefused(x) ==
  \/ x.kind = "unknown" \/ x.value \notin Int
  \/ x.kind = "Integer16" /\ x.value \notin -Half .. Half - 1

XValue(x) == [x EXCEPT !.value = IF x.kind = "Integer16" THEN Narrow(x.value) ELSE x.value]

XConverts(r)   == \A i \in DOMAIN r : ~XRefused(r[i])
XdataRecord(r) == [i \in DOMAIN r |-> XValue(r[i])]

-----------------------------------------------------------------------------
Init ==
  /\ BuildInit
  /\ running = FALSE
  /\ host = [h \in Handles |-> Nothing]
  /\ edits = 0
  /\ calls = 0
  /\ view = host
  /\ obj = Nothing
  /\ outcome = "none"
  /\ warned = {}
  /\ xdata = host

(* A document is opened, and PYTHONSHELL starts.  The host's entities have *)
(* the fields of the version it is built from, the one the plugin links.   *)
Present == Common \cup FieldsOf[linked]

Drawn(e) == [e EXCEPT !.val = [f \in Fields |-> IF f \in Present THEN e.val[f] ELSE Default(f)]]

Load ==
  /\ linked # NoVersion
  /\ ~running
  /\ running' = TRUE
  /\ host' \in [Handles -> {Drawn(e) : e \in Drawings} \cup {Nothing}]
  /\ view' = host'
  /\ UNCHANGED <<build, edits, calls, script, xdata>>

Goes == running /\ calls < MaxCalls

(* The user draws, changes or erases something on the canvas.              *)
HostValues(f) ==
  CASE TypeOf[f] = "int"              -> {-Half, Half - 1}
    [] TypeOf[f] = "list"             -> {1, Points}
    [] TypeOf[f] \in {"enum", "name"} -> {1, 2}
    [] OTHER                          -> {0, 1}

Canvas ==
  /\ Goes /\ edits < MaxEdits
  /\ edits' = edits + 1
  /\ \E h \in Handles :
       \/ /\ host[h] = Nothing
          /\ \E e \in Drawings : host' = [host EXCEPT ![h] = Drawn(e)]
          /\ UNCHANGED xdata
       \/ /\ host[h] # Nothing
          /\ \E f \in Present : \E v \in HostValues(f) :
               host' = [host EXCEPT ![h].val[f] = v]
          /\ UNCHANGED xdata
       \/ /\ host' = [host EXCEPT ![h] = Nothing]
          /\ xdata' = [xdata EXCEPT ![h] = Nothing]
  /\ UNCHANGED <<build, running, calls, view, script>>

-----------------------------------------------------------------------------
(* The script *)

(* refresh; the host has published its document in the meantime.           *)
Refresh ==
  /\ Goes
  /\ view' = host
  /\ UNCHANGED <<build, running, host, edits, calls, script, xdata>>

(* What the script does with the object at hand.                           *)
Local == UNCHANGED <<build, running, host, edits, calls, view, outcome, warned, xdata>>

(* entity(h); it raises if the kind is not exposed.                        *)
ReadEntity(h) ==
  /\ Goes
  /\ view[h] # Nothing => Known(view[h].kind)
  /\ obj' = IF view[h] = Nothing THEN Nothing ELSE Read(h, view[h])
  /\ Local

(* entities(): one kind that is not exposed, and nothing is listed.  Else  *)
(* the script goes on with one of the objects.                             *)
Shown == {h \in Handles : view[h] # Nothing}
Lists == \A h \in Shown : Known(view[h].kind)

ReadEntities ==
  /\ Goes
  /\ Lists
  /\ \E h \in Shown : obj' = Read(h, view[h])
  /\ Local

(* counts(), by the names write_counts_mapping gives them: what is not in  *)
(* type_filter is "Other".                                                 *)
Others == {h \in Shown : view[h].kind \notin Filter}

(* An instance of a generated class, or a dict with a "kind".              *)
Blank(form, kind) ==
  [form |-> form, kind |-> kind, handle |-> NoHandle,
   val |-> [f \in Fields |-> IF form = "object" /\ Exposed(f) THEN PyDefault(f) ELSE Missing],
   base |-> Nothing, set |-> {}]

Blanks == {Blank("object", kind) : kind \in {k \in Kinds : Known(k)}}
            \cup {Blank("dict", kind) : kind \in Kinds}

Construct ==
  /\ Goes
  /\ obj' \in Blanks
  /\ Local

PyValues(f) ==
  CASE TypeOf[f] = "int"              -> {-1, Half - 1, Half, Word, Wrong}
    [] TypeOf[f] = "list"             -> {1, Wrong}
    [] TypeOf[f] \in {"enum", "name"} -> {0, 2, Wrong}
    [] OTHER                          -> {0, 1, Wrong}

May(f) == Goes /\ obj # Nothing /\ Cardinality(obj.set \cup {f}) <= MaxSet

Assign(f, p) ==
  /\ May(f)
  /\ Exposed(f)
  /\ obj' = [obj EXCEPT !.val = [obj.val EXCEPT ![f] = p], !.set = obj.set \cup {f}]
  /\ Local

AssignHandle(h) ==
  /\ May("handle")
  /\ obj' = [obj EXCEPT !.handle = h, !.set = obj.set \cup {"handle"}]
  /\ Local

(* The request gets to the host, and its answer back; or one of them does  *)
(* not, and the script cannot tell which.                                  *)
Request(effect, records, reply) ==
  \/ host' = effect /\ xdata' \in records /\ outcome' \in {reply, "error"}
  \/ UNCHANGED <<host, xdata>> /\ outcome' = "error"

(* A call that is refused before anything is sent.                         *)
Refuse == outcome' = "error" /\ UNCHANGED <<host, xdata>>

Called == Goes /\ calls' = calls + 1 /\ UNCHANGED <<build, running, edits, view, obj>>

Free(h) == host[h] = Nothing

Add ==
  /\ Called
  /\ obj # Nothing
  /\ warned' = Warnings(obj)
  /\ IF Converts(obj)
       THEN \E h \in Handles :
              Free(h) /\ Request([host EXCEPT ![h] = Entity(obj)], {xdata}, "ok")
       ELSE Refuse

(* Slip: what cannot be converted is left out of the batch.                *)
AddManySkipping(o) ==
  /\ Called
  /\ obj # Nothing
  /\ warned' = Warnings(obj) \cup Warnings(o)
  /\ \E h, g \in Handles :
       /\ h # g /\ Free(h) /\ Free(g)
       /\ Request([i \in Handles |-> IF i = h /\ Converts(obj) THEN Entity(obj)
                                     ELSE IF i = g /\ Converts(o) THEN Entity(o) ELSE host[i]],
                  {xdata}, "ok")

(* All are converted before the one request is made.  The object at hand   *)
(* and another stand for a batch.                                          *)
AddMany(o) ==
  /\ Called
  /\ obj # Nothing
  /\ warned' = Warnings(obj) \cup Warnings(o)
  /\ IF Converts(obj) /\ Converts(o)
       THEN \E h, g \in Handles :
              /\ h # g /\ Free(h) /\ Free(g)
              /\ Request([host EXCEPT ![h] = Entity(obj), ![g] = Entity(o)], {xdata}, "ok")
       ELSE Refuse

(* The host replaces the entity of that handle; whether the records stay   *)
(* with it is left open.                                                   *)
Update ==
  /\ Called
  /\ obj # Nothing
  /\ warned' = Warnings(obj)
  /\ IF ~Converts(obj) THEN Refuse
     ELSE IF obj.handle \in Handles /\ host[obj.handle] # Nothing
       THEN Request([host EXCEPT ![obj.handle] = Entity(obj)],
                    {xdata, [xdata EXCEPT ![obj.handle] = Nothing]}, "ok")
       ELSE Request(host, {xdata}, "false")

Remove(h) ==
  /\ Called
  /\ warned' = {}
  /\ Request([host EXCEPT ![h] = Nothing], {[xdata EXCEPT ![h] = Nothing]},
             IF Free(h) THEN "false" ELSE "ok")

WriteRecord(h, r) ==
  /\ Called
  /\ warned' = {}
  /\ IF ~XConverts(r) THEN Refuse
     ELSE IF Free(h) THEN Request(host, {xdata}, "false")
     ELSE Request(host, {[xdata EXCEPT ![h] = XdataRecord(r)]}, "ok")

RemoveRecord(h) ==
  /\ Called
  /\ warned' = {}
  /\ Request(host, {[xdata EXCEPT ![h] = Nothing]}, IF xdata[h] = Nothing THEN "false" ELSE "ok")

-----------------------------------------------------------------------------
(* What else a batch may hold: something new, or a copy.                   *)
Objects ==
  Blanks \cup {Read(h, view[h]) : h \in {i \in Shown : Known(view[i].kind)}}

Next ==
  \/ ~running /\ BuildStep /\ UNCHANGED <<running, host, edits, calls, view, script, xdata>>
  \/ Load \/ Canvas \/ Refresh
  \/ \E h \in Handles : ReadEntity(h) \/ AssignHandle(h) \/ Remove(h) \/ RemoveRecord(h)
  \/ Goes /\ (ReadEntities \/ Construct)
  \/ \E f \in Fields : \E p \in PyValues(f) : Assign(f, p)
  \/ Add \/ Update
  \/ Goes /\ \E o \in Objects : AddMany(o)
  \/ \E h \in Handles, r \in Records : WriteRecord(h, r)

Spec == Init /\ [][Next]_vars

-----------------------------------------------------------------------------
(* Properties *)

EntityType == [kind : Kinds, val : [Fields -> Int]]
PyType     == Int \cup {Missing, Wrong}
ObjectType == [form : {"object", "dict"}, kind : Kinds, handle : Handles \cup {NoHandle},
               val : [Fields -> PyType], base : [Fields -> Int] \cup {Nothing},
               set : SUBSET (Fields \cup {"handle"})]

TypeOK ==
  /\ BuildTypeOK
  /\ running \in BOOLEAN
  /\ host \in [Handles -> EntityType \cup {Nothing}]
  /\ edits \in Nat
  /\ calls \in Nat
  /\ view \in [Handles -> EntityType \cup {Nothing}]
  /\ obj \in ObjectType \cup {Nothing}
  /\ outcome \in {"none", "ok", "false", "error"}
  /\ warned \in SUBSET Fields
  /\ xdata \in [Handles -> Records \cup {Nothing}]
  /\ running => chosen \in Versions

(* Why update may change a field that the script has not assigned: the     *)
(* object was not read but made, and what is left out becomes a default;   *)
(* the canvas has changed since; Python is not shown the field, or not all *)
(* of it; a negative integer does not survive; or the plugin was generated *)
(* from the registry of another version, which cargo had built later, or   *)
(* whose own did not name every kind.                                      *)
Lossy(f, v) ==
  \/ TypeOf[f] = "hidden"
  \/ TypeOf[f] = "list" /\ v >= Points
  \/ TypeOf[f] = "int" /\ v < 0

OtherRegistry == chosen # linked /\ (reused \/ ~Complete(linked))

(* update loses nothing silently but for these reasons (README.md:281,     *)
(* "replaces the entity whose handle matches").                            *)
OverwriteExplained ==
  [][host' # host /\ Update => \A h \in Handles : host'[h] # host[h] =>
       \/ obj.base = Nothing
       \/ \A f \in Present \ obj.set :
            \/ host'[h].val[f] = host[h].val[f]
            \/ host[h].val[f] # obj.base[f]
            \/ Lossy(f, obj.base[f])
            \/ f \notin Bound /\ OtherRegistry]_vars

(* What the script has assigned is what the host stores, or Python has     *)
(* warned; only an integer that is too wide for its field, and a name      *)
(* nobody knows, become something else in silence.  A record is stored     *)
(* value by value as it was given.                                         *)
Kept(f, p, v) ==
  \/ v = p
  \/ TypeOf[f] = "int" /\ p >= Half /\ \E k \in 1 .. p : p = v + k * (2 * Half)
  \/ TypeOf[f] = "name" /\ p \in {0, Wrong}

FieldsAsGiven ==
  host' # host /\ (Add \/ Update) => \A h \in Handles : host'[h] # host[h] =>
    \A f \in obj.set \cap Fields : f \in warned' \/ Kept(f, obj.val[f], host'[h].val[f])

RecordsAsGiven ==
  xdata' # xdata => \A h \in Handles, r \in Records : WriteRecord(h, r) => xdata'[h] = r

StoredAsGiven == [][FieldsAsGiven /\ RecordsAsGiven]_vars

(* A batch is stored as a whole or not at all (README.md:326, "sends the   *)
(* whole batch in one host request"), also when its answer is lost.        *)
BatchWhole ==
  [][(host' # host \/ outcome' = "ok") /\ Called =>
       \A o \in Objects : AddMany(o) =>
         \E h, g \in Handles :
           /\ h # g /\ Free(h) /\ Free(g)
           /\ host' = [host EXCEPT ![h] = Entity(obj), ![g] = Entity(o)]]_vars

(* entities() can list a document if and only if counts() knows the kinds  *)
(* of all its entities: the two come from different parts of the build     *)
(* (build.rs:84, generate.rs:663) and from different data.                 *)
CountsAgree == running => (Lists <=> Others = {})

(* README.md:216 and 312, the dict as an equivalent of the dataclass       *)
(* instance with the same fields.                                          *)
AsDataclass(o) ==
  [Blank("object", o.kind) EXCEPT
     !.val = [f \in Fields |-> IF f \in o.set THEN o.val[f] ELSE Blank("object", o.kind).val[f]]]

DictLikeDataclass ==
  [][host' # host /\ Add /\ obj.form = "dict" => \A h \in Handles :
       host'[h] # host[h] => host'[h] = Entity(AsDataclass(obj))]_vars

(* How far a dict is from the dataclass instance: the two are stored alike *)
(* but for the fields with a default of their own in crud_manifest.json    *)
(* ("normal": (0.0, 0.0, 1.0)) that the dict leaves out.                   *)
DictDiffersInZAxis ==
  [][host' # host /\ Add /\ obj.form = "dict" => \A h \in Handles : host'[h] # host[h] =>
       /\ host'[h].kind = Entity(AsDataclass(obj)).kind
       /\ \A f \in Fields : f \notin ZAxis \/ f \in obj.set =>
            host'[h].val[f] = Entity(AsDataclass(obj)).val[f]]_vars

(* Neither the document nor the snapshot ever holds what a field of its    *)
(* type cannot, whatever the script assigns.                               *)
OnlyStorable ==
  \A h \in Handles : \A e \in {host[h], view[h]} \ {Nothing} : \A f \in Fields : Storable(f, e.val[f])

(* A record belongs to an entity; and so a call that returns False, for    *)
(* want of an entity or a record, has changed nothing at all.              *)
RecordsOwned == \A h \in Handles : Free(h) => xdata[h] = Nothing

FalseChangesNothing == [][Called /\ outcome' = "false" => UNCHANGED <<host, xdata>>]_vars
=============================================================================
