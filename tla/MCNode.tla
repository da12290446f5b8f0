------------------------------- MODULE MCNode -------------------------------
(* Model-checking instance of Node. *)
EXTENDS Node
=============================================================================
