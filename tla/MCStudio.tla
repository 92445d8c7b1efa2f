------------------------------- MODULE MCStudio -------------------------------
(* The studio on a small instance. *)
EXTENDS StudioWorker
=============================================================================
