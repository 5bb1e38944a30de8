------------------------------- MODULE Python -------------------------------
(* The value that the models of Python code share. *)

CONSTANT None   \* Python's None
=============================================================================
