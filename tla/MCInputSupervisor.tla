------------------------- MODULE MCInputSupervisor -------------------------
(* An effort beyond the limit of the small instance.                       *)
EXTENDS InputSupervisor

MCEffortBeyond == {-2}
=============================================================================
