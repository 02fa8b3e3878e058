----------------------------- MODULE MCFallback -----------------------------
(* Fallback on one or two sessions. *)
EXTENDS Fallback

CONSTANTS s1, s2, none

OwnGroup == [s \in Sessions |-> s]
OneGroup == [s \in Sessions |-> "group"]
=============================================================================
