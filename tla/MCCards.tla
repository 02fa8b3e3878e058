------------------------------ MODULE MCCards -------------------------------
(* Cards on an approval, a credential request and a question. *)
EXTENDS Cards

CONSTANTS a1, a2, c1, q1, none
=============================================================================
