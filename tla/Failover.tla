------------------------------ MODULE Failover ------------------------------
(***************************************************************************)
(* What the fallback promises of the installation: it is on its native     *)
(* provider, on the backup until a trial of the native one succeeds, or    *)
(* pinned to the backup until the owner says otherwise.                    *)
(***************************************************************************)
VARIABLES
    place,   \* native, backup or pinned
    trying   \* a trial of the native provider is under way

Init == place = "native" /\ ~trying

\* The native provider is at its limits, or silent.
Fail == place = "native" /\ place' = "backup" /\ ~trying'

\* The owner pins the installation to the backup.
Pin == place' = "pinned" /\ ~trying'

Try == place = "backup" /\ ~trying /\ trying' /\ UNCHANGED place

\* The trial fails: the installation stays where it is.
GiveUp == trying /\ ~trying' /\ UNCHANGED place

\* The trial succeeds.
Recover == trying /\ place' = "native" /\ ~trying'

\* The owner takes the installation back.
Release == place # "native" /\ place' = "native" /\ ~trying'

Next == Fail \/ Pin \/ Try \/ GiveUp \/ Recover \/ Release

Spec == Init /\ [][Next]_<<place, trying>>
=============================================================================
