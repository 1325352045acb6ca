----------------------------- MODULE MCCallbacks -----------------------------
(* The plans of MCParser for a parser that makes its callbacks in turn. *)
EXTENDS MCParser, Callbacks
=============================================================================
