--------------------------- MODULE MCEntityBinding ---------------------------
(* A TLC instance of EntityBinding: three versions of ocs_plugin_api.  The *)
(* first lacks the field "n", and the registry of the third lacks a kind.  *)
EXTENDS EntityBinding, TLC

Schema ==
  "layer" :> "text" @@ "color" :> "hidden" @@ "n" :> "int" @@ "normal" :> "vector"
    @@ "pts" :> "list" @@ "style" :> "enum"

Later     == (DOMAIN Schema) \ {"layer"}
Described == 1 :> Later \ {"n"} @@ 2 :> Later @@ 3 :> Later
All       == {"EntityCommon", "Point", "Hatch"}
Named     == 1 :> All @@ 2 :> All @@ 3 :> All \ {"Point"}

Symmetry == Permutations(Handles)

\* The target directory does not matter to the plugin that is running.
Relevant ==
  IF running THEN <<linked, chosen, reused, host, edits, calls, view, script, xdata>>
             ELSE <<build, running, host>>

Plain   == "layer" :> 0 @@ "color" :> 0 @@ "n" :> 0 @@ "normal" :> 1 @@ "pts" :> 1 @@ "style" :> 2
Special == "layer" :> 1 @@ "color" :> 1 @@ "n" :> -1 @@ "normal" :> 0 @@ "pts" :> 3 @@ "style" :> 1
Some    == {[kind |-> "Point", val |-> Special], [kind |-> "Hatch", val |-> Plain]}

Values == [kind : {"Integer16"}, value : {1, Half}]
            \cup [kind : {"Real"}, value : {Half}] \cup [kind : {"unknown"}, value : {1}]
Tried  == {<<x, [kind |-> "Integer16", value |-> 0]>> : x \in Values}

SchemaFields == DOMAIN Schema
=============================================================================
