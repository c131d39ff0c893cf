--------------------------- MODULE MCReplSessions ---------------------------
(* TLC instances of ReplSessions: the pools are model values in the        *)
(* configs.                                                                *)
EXTENDS ReplSessions

AllFaults == FaultKinds
NoFaults  == {}
=============================================================================
