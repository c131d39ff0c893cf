---------------------------- MODULE MCWindowsTree ----------------------------
(* A TLC instance of WindowsTree: three process ids, enough for a wrapper, *)
(* its REPL and a program run from it, for a link in the middle that ends, *)
(* and for a stranger that is listed under an id of the session.           *)
EXTENDS WindowsTree
=============================================================================
