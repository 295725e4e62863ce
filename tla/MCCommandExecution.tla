------------------------- MODULE MCCommandExecution -------------------------
(***************************************************************************)
(* Model values for model-checking CommandExecution.                       *)
(***************************************************************************)
EXTENDS CommandExecution

CONSTANTS c1, c2

MCClients == {c1, c2}
=============================================================================
