--------------------------- MODULE MCSessionQueue ---------------------------
(* SessionQueue on small sets of rows. *)
EXTENDS SessionQueue

CONSTANTS chat, task, note, wake, clear
=============================================================================
