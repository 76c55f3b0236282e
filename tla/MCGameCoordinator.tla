-------------------------- MODULE MCGameCoordinator --------------------------
(* Instances of GameCoordinator for TLC. *)
EXTENDS GameCoordinator
=============================================================================
