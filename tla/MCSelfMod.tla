----------------------------- MODULE MCSelfMod ------------------------------
(* Two sessions of one group; the first asks for both packages.              *)
EXTENDS SelfMod, TLC

CONSTANTS s1, s2, apt, npm, mcp, again

MCSessionOf == (apt :> s1) @@ (npm :> s1) @@ (mcp :> s2) @@ (again :> s2)

Budget(asked, commands, faults) == [asked |-> asked, ops |-> commands, faults |-> faults]
MCBudgets == {Budget({apt, npm}, 0, 1), Budget({apt, npm}, 1, 0), Budget({apt, again}, 1, 1),
              Budget({apt, mcp}, 1, 0), Budget({mcp}, 1, 1)}
=============================================================================
