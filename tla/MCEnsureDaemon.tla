---------------------------- MODULE MCEnsureDaemon ----------------------------
(***************************************************************************)
(* Instances of EnsureDaemon for model checking.                           *)
(***************************************************************************)
EXTENDS EnsureDaemon
=============================================================================
