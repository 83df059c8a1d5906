------------------------------ MODULE MCTasksPage ------------------------------
(* Instances of TasksPage for TLC. *)
EXTENDS TasksPage
=============================================================================
