------------------------------ MODULE MCJobRun ------------------------------
(* Small instances of JobRun for TLC. *)
EXTENDS JobRun
=============================================================================
