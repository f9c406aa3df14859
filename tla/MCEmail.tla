------------------------------ MODULE MCEmail ------------------------------
(* Small instances of EmailPipeline for TLC. *)
EXTENDS EmailPipeline
=============================================================================
