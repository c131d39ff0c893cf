-------------------------- MODULE RegistrySelection --------------------------
(***************************************************************************)
(* Which type registry the Python bindings are generated from              *)
(* (src/build.rs).  Every version of ocs_plugin_api that was ever built    *)
(* leaves a type_registry.json in the target directory.  The build script  *)
(* does not ask cargo which one belongs to the version it links: it takes  *)
(* the newest that names all the types it needs.                           *)
(*                                                                         *)
(* Several outputs of one version have the same contents, so only the      *)
(* newest of a version is kept here.  MaxWrites bounds the outputs written.*)
(***************************************************************************)
EXTENDS Naturals, FiniteSets

CONSTANTS
  Versions,   \* of ocs_plugin_api and the types it describes
  NoVersion,
  Filter,     \* type_filter of crud_manifest.json: the kinds Python shall see
  Fields,     \* of an entity of these kinds
  Common,     \* base_fields, of the type EntityCommon: bound in any case
  Traced,     \* version -> the types its registry names
  FieldsOf,   \* version -> the fields its entities have besides Common
  MaxWrites

ASSUME RegistryAssumption ==
  /\ NoVersion \notin Versions
  /\ Common \subseteq Fields
  /\ FieldsOf \in [Versions -> SUBSET Fields]
  /\ MaxWrites \in Nat

VARIABLES
  pin,      \* the version Cargo.toml names
  written,  \* version -> when its registry was written last; 0 if there is none
  broken,   \* versions whose registry was cut short
  clock,
  linked,   \* the version the plugin in use was compiled with
  chosen,   \* the registry its bindings were generated from
  reused    \* cargo found the linked version built already, the chosen one was built since

build == <<pin, written, broken, clock, linked, chosen, reused>>

BuildTypeOK ==
  /\ pin \in Versions
  /\ written \in [Versions -> Nat]
  /\ broken \in SUBSET Versions
  /\ clock \in Nat
  /\ linked \in Versions \cup {NoVersion}
  /\ chosen \in Versions \cup {NoVersion}
  /\ reused \in BOOLEAN

BuildInit ==
  /\ pin \in Versions
  /\ written = [v \in Versions |-> 0]
  /\ broken = {}
  /\ clock = 0
  /\ linked = NoVersion
  /\ chosen = NoVersion
  /\ reused = FALSE

-----------------------------------------------------------------------------
Required == Filter \cup {"EntityCommon"}

Complete(v) == Required \subseteq Traced[v]

(* What find_type_registry may take: w is when each registry was written,  *)
(* b the ones that do not parse.                                           *)
Candidates(w, b) == {v \in Versions : w[v] # 0 /\ v \notin b /\ Complete(v)}

(* Slip: by age alone, as the comment at build.rs:129 warns.               *)
NewestOfAll(w, b) ==
  {v \in Versions : w[v] # 0 /\ v \notin b /\ \A u \in Versions : w[u] <= w[v]}

(* The newest of them; none if the build script panics.                    *)
Newest(w, b) == {v \in Candidates(w, b) : \A u \in Candidates(w, b) : w[u] <= w[v]}

(* The generated code compiles against the linked version.                 *)
Compiles(v) == FieldsOf[v] \subseteq FieldsOf[pin]

Repin(v) ==
  /\ v # pin
  /\ pin' = v
  /\ UNCHANGED <<written, broken, clock, linked, chosen, reused>>

Write ==
  /\ clock < MaxWrites
  /\ clock' = clock + 1
  /\ written' = [written EXCEPT ![pin] = clock + 1]

(* main, run_generation: cargo has the registry of the pinned version      *)
(* written, unless it finds it up to date; then the script chooses.  If it *)
(* panics, or its result does not compile, the plugin in use stays.  (When *)
(* none of the script's inputs has changed either, cargo uses what an      *)
(* earlier Generate for this version has made.)                            *)
Generate ==
  /\ \/ Write /\ broken' = broken \ {pin}
     \/ /\ written[pin] # 0 /\ pin \notin broken
        /\ UNCHANGED <<written, broken, clock>>
  /\ \/ /\ Newest(written', broken') = {}
        /\ UNCHANGED <<linked, chosen, reused>>
     \/ \E v \in Newest(written', broken') :
          IF Compiles(v)
            THEN /\ linked' = pin
                 /\ chosen' = v
                 /\ reused' = (written'[v] > written'[pin])
            ELSE UNCHANGED <<linked, chosen, reused>>
  /\ UNCHANGED pin

(* The build is stopped while the registry is written.                     *)
Interrupted ==
  /\ Write
  /\ broken' = broken \cup {pin}
  /\ UNCHANGED <<pin, linked, chosen, reused>>

CargoClean ==
  /\ written' = [v \in Versions |-> 0]
  /\ broken' = {}
  /\ UNCHANGED <<pin, clock, linked, chosen, reused>>

BuildStep ==
  \/ \E v \in Versions : Repin(v)
  \/ Generate \/ Interrupted \/ CargoClean

-----------------------------------------------------------------------------
(* Bindings                                                                *)

(* The fields the conversions in both directions know.                     *)
Bound == Common \cup FieldsOf[chosen]

(* The bindings were generated from another version's registry although    *)
(* the linked version's was there and newest, or could have been.          *)
RegistryExplained == chosen = linked \/ reused \/ ~Complete(linked)
=============================================================================
