--------------------------- MODULE MCDockerWatcher ---------------------------
(***************************************************************************)
(* Small instances of DockerWatcher for TLC.                                *)
(***************************************************************************)
EXTENDS DockerWatcher

CONSTANT a
=============================================================================
