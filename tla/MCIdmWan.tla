------------------------------- MODULE MCIdmWan -------------------------------
(* The instance of IdmWan for TLC. *)
EXTENDS IdmWan
=============================================================================
