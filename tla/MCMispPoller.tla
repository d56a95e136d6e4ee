---------------------------- MODULE MCMispPoller ----------------------------
(* The pollers on small instances: the runs differ in their .cfg only. *)
EXTENDS MispPoller
=============================================================================
