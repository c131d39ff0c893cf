CONSTANTS
  Versions = {1, 2, 3}
  NoVersion = NoVersion
  Filter = {"Point"}
  Fields <- SchemaFields
  Common = {"layer"}
  Traced <- Named
  FieldsOf <- Described
  MaxWrites = 2
  Handles = {h1, h2}
  NoHandle = NoHandle
  Nothing = Nothing
  Missing = Missing
  Wrong = Wrong
  TypeOf <- Schema
  ZAxis = {"normal"}
  Points = 2
  Half = 2
  Word = 3
  Drawings <- Some
  Records <- Tried
  MaxEdits = 1
  MaxCalls = 1
  MaxSet = 1
SYMMETRY Symmetry
VIEW Relevant
CHECK_DEADLOCK FALSE
SPECIFICATION Spec
PROPERTY DictLikeDataclass
