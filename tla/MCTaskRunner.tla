---------------------------- MODULE MCTaskRunner ----------------------------
(* A small instance of TaskRunner.                                         *)
EXTENDS TaskRunner
=============================================================================
