--------------------------- MODULE MCReplProcesses ---------------------------
(* TLC instances of ReplProcesses: two or three spawns in one tab, every   *)
(* kind of terminal or the one that detaches, with and without crashes.    *)
EXTENDS ReplProcesses

AllTerminals == {"window", "stubborn", "client", "script"}
Detaching    == {"client"}
Crashes      == {"crash"}
NoFaults     == {}
=============================================================================
