----------------------------- MODULE MCInspection -----------------------------
(* The instance of Inspection that TLC checks. *)
EXTENDS Inspection

\* A collector that may fill in data and fail, the one that may stay silent, and
\* one of the kind of all the others.
MCCollectors == <<"default", "extra", "logs">>

=============================================================================
