------------------------------- MODULE MCTasks -------------------------------
(* The tasks of a configuration. *)
EXTENDS Tasks
OneTask == {1}
=============================================================================
