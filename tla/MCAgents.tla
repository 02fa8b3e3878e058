------------------------------ MODULE MCAgents ------------------------------
(* Two connected groups and a sub-agent yet to be created; the first group   *)
(* has two sessions, one of them a task's.  A behaviour either exchanges     *)
(* messages through a policy, or has its destinations rearranged, or a       *)
(* little of each.                                                           *)
EXTENDS Agents, TLC

CONSTANTS a, b, k, chat

MCGroupOf == (1 :> a) @@ (2 :> b) @@ (3 :> a) @@ (4 :> k)

Budget(messages, commands, crashes, gated) ==
    [messages |-> messages, ops |-> commands, faults |-> crashes, policies |-> gated]

MCBudgets == {Budget(3, 0, 1, {<<b, a>>}), Budget(0, 3, 1, {}), Budget(1, 2, 1, {<<a, b>>})}
=============================================================================
