--------------------------- MODULE MCDevSession ---------------------------
(* A development session for TLC: one page, one key, one record in flight. *)
EXTENDS DevSession
=============================================================================
