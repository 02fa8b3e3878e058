---------------------------- MODULE MCLifecycle ----------------------------
(* Model-checking instance of Lifecycle.                                     *)
EXTENDS Lifecycle

CONSTANTS mine, late, other

Setting(flavor, r, f) == [flavor |-> flavor, root |-> FALSE, runs |-> r, faults |-> f]

MCSettings == {Setting("user", 2, 1), Setting("system", 1, 0), Setting("nohup", 1, 1)}
=============================================================================
