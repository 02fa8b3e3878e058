------------------------------- MODULE Outbox -------------------------------
(***************************************************************************)
(* What delivery promises of the rows of messages_out: a row is shown at   *)
(* least once before it is recorded as delivered, nothing is shown that    *)
(* was not written, and a recorded row is never touched again.             *)
(***************************************************************************)
EXTENDS Naturals

CONSTANT Rows

VARIABLES
    fate,   \* absent, waiting, delivered or failed
    shown   \* how often the row reached the platform

outboxVars == <<fate, shown>>

Init ==
    /\ fate = [r \in Rows |-> "absent"]
    /\ shown = [r \in Rows |-> 0]

Submit(r) ==
    /\ fate[r] = "absent"
    /\ fate' = [fate EXCEPT ![r] = "waiting"]
    /\ UNCHANGED shown

Show(r) ==
    /\ fate[r] = "waiting"
    /\ shown' = [shown EXCEPT ![r] = @ + 1]
    /\ UNCHANGED fate

Settle(r) ==
    /\ fate[r] = "waiting"
    /\ \/ shown[r] > 0 /\ fate' = [fate EXCEPT ![r] = "delivered"]
       \/ fate' = [fate EXCEPT ![r] = "failed"]
    /\ UNCHANGED shown

Next == \E r \in Rows : Submit(r) \/ Show(r) \/ Settle(r)

Spec == Init /\ [][Next]_outboxVars
=============================================================================
