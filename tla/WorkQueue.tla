------------------------------ MODULE WorkQueue ------------------------------
(***************************************************************************)
(* What a session's queue promises, whatever crashes: a row waits, is held *)
(* by the one container, and is settled once.  Only a held row is settled, *)
(* a row that is let go waits again, and settled rows stay settled.        *)
(***************************************************************************)
CONSTANT Msgs

VARIABLE item

States == {"absent", "waiting", "held", "done", "dropped"}

Init == item = [m \in Msgs |-> "absent"]

\* Rows may change together, each by one of the given moves.
Each(from, to) ==
    /\ item' \in [Msgs -> States]
    /\ \A m \in Msgs : item'[m] = item[m] \/ (item[m] \in from /\ item'[m] \in to)

\* The host writes a row.
Submit == Each({"absent"}, {"waiting"})

\* The container claims rows.
Take == Each({"waiting"}, {"held"})

\* Held rows are done, are dropped, or wait again.
Settle == Each({"held"}, {"done", "dropped", "waiting"})

\* The host gives rows up, held or not.
GiveUp == Each({"waiting", "held"}, {"dropped"})

Next == Submit \/ Take \/ Settle \/ GiveUp

Spec == Init /\ [][Next]_item
=============================================================================
