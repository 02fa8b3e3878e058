------------------------------- MODULE Agents -------------------------------
(***************************************************************************)
(* Agents that write to agents: src/modules/agent-to-agent, with the       *)
(* container's side of a send (container/agent-runner/src/poll-loop.ts,    *)
(* mcp-tools/core.ts) and the operator's commands that connect, gate and   *)
(* delete agent groups (src/cli/resources).                                *)
(*                                                                         *)
(* A destination of an agent group lives in the central database; every    *)
(* session of the group has a projection of them in its inbound.db, from   *)
(* which the agent picks whom to address.  The host routes a message to a  *)
(* session of the target group: the one that is being answered when it can *)
(* tell which, else the newest.                                            *)
(***************************************************************************)
EXTENDS Integers, Sequences, FiniteSets

CONSTANTS
    Groups,       \* agent groups, the ones yet to be created included
    Founders,     \* the groups there are at the start, all connected
    Channels,     \* messaging groups that a group may be wired to
    NoGroup,
    Sessions,     \* numbers: a later session of a group has a greater one
    GroupOf,      \* the group of each session
    Opened,       \* the sessions running at the start
    System,       \* sessions of scheduled tasks, closed when their task is over
    MaxMessages, MaxOps, MaxFaults,    \* bounds of the model
    Budgets       \* how much of each a behaviour may spend, and the policies it begins with

Targets == Groups \union Channels

ASSUME AgentsAssumption ==
    /\ Sessions \subseteq Nat \ {0} /\ System \subseteq Sessions /\ Opened \subseteq Sessions
    /\ GroupOf \in [Sessions -> Groups] /\ \A s \in Opened: GroupOf[s] \in Founders
    /\ Founders \subseteq Groups /\ Groups \intersect Channels = {}
    /\ NoGroup \notin Targets
    /\ MaxMessages \in Nat /\ MaxOps \in Nat /\ MaxFaults \in Nat
    /\ Budgets \subseteq [messages: 0..MaxMessages, ops: 0..MaxOps, faults: 0..MaxFaults,
                          policies: SUBSET (Founders \X Founders)]

VARIABLES
    group,     \* agent_groups and messaging_groups: not created yet, alive or deleted
    dests,     \* agent_destinations of each group
    gates,     \* agent_message_policies: pairs of groups
    live,      \* the sessions table
    up,        \* sessions with a running container
    proj,      \* the destinations table of each inbound.db
    wish,      \* the sub-agent a session has asked for and waits to have approved
    msgs,      \* what the agents have sent, in order
    queue,     \* rows of messages_out that no drain has consumed
    held,      \* approval cards of a message
    inbox,     \* the agent-to-agent rows of each messages_in, by seq
    taken,     \* how many of them the container has read
    head,      \* current_in_reply_to: the row the batch began with
    promised,  \* destinations that someone was told the session has (history)
    asked, approved, crashed,    \* what became of each message (history)
    budget, ops, faults

vars == <<group, dests, gates, live, up, proj, wish, msgs, queue, held, inbox, taken, head,
          promised, asked, approved, crashed,
          budget, ops, faults>>

Ids == 1..Len(msgs)
Message == [from: Sessions, to: Groups, re: 0..MaxMessages, answers: 0..MaxMessages]

TypeOK ==
    /\ group \in [Targets -> {"new", "alive", "deleted"}]
    /\ dests \in [Groups -> SUBSET Targets] /\ gates \subseteq Groups \X Groups
    /\ live \in [Sessions -> {"none", "active", "closed", "deleted"}]
    /\ up \subseteq Sessions /\ proj \in [Sessions -> SUBSET Targets]
    /\ wish \in [Sessions -> Groups \union {NoGroup}]
    /\ msgs \in Seq(Message) /\ Len(msgs) <= MaxMessages
    /\ queue \subseteq Ids
    /\ held \in [1..MaxMessages -> 0..(MaxFaults + 1)]
    /\ inbox \in [Sessions -> Seq(Ids)]
    /\ taken \in [Sessions -> Nat] /\ \A s \in Sessions: taken[s] <= Len(inbox[s])
    /\ head \in [Sessions -> 0..Len(msgs)]
    /\ promised \subseteq Sessions \X Targets
    /\ asked \subseteq Ids /\ approved \subseteq Ids /\ crashed \subseteq Ids
    /\ budget \in Budgets /\ ops \in 0..MaxOps /\ faults \in 0..MaxFaults

Init ==
    /\ group = [t \in Targets |-> IF t \in Founders \union Channels THEN "alive" ELSE "new"]
    /\ dests = [g \in Groups |-> IF g \in Founders THEN Founders \ {g} ELSE {}]
    /\ budget \in Budgets /\ gates = budget.policies
    /\ up = Opened /\ msgs = <<>> /\ queue = {}
    /\ live = [s \in Sessions |-> IF s \in Opened THEN "active" ELSE "none"]
    /\ proj = [s \in Sessions |-> IF s \in Opened THEN dests[GroupOf[s]] ELSE {}]
    /\ wish = [s \in Sessions |-> NoGroup]
    /\ held = [m \in 1..MaxMessages |-> 0]
    /\ inbox = [s \in Sessions |-> <<>>]
    /\ taken = [s \in Sessions |-> 0] /\ head = [s \in Sessions |-> 0]
    /\ promised = {} /\ asked = {} /\ approved = {} /\ crashed = {}
    /\ ops = 0 /\ faults = 0

central == <<group, dests, gates>>
sessions == <<live, up, proj, promised>>
mail == <<msgs, queue, held, inbox, asked, approved, crashed>>
reading == <<taken, head>>
bounds == <<budget, ops, faults>>
-----------------------------------------------------------------------------
(* Sessions and their containers.                                            *)

SessionsOf(g) == {s \in Sessions: GroupOf[s] = g /\ live[s] \in {"active", "closed"}}
Alive(t) == group[t] = "alive"

\* A chat or a task opens the next session of a group.
OpenSession(s) ==
    /\ live[s] = "none" /\ group[GroupOf[s]] = "alive"
    /\ \A z \in Sessions: z > s /\ GroupOf[z] = GroupOf[s] => live[z] = "none"
    /\ live' = [live EXCEPT ![s] = "active"]
    /\ UNCHANGED <<central, up, proj, promised, wish, mail, reading, bounds>>

\* writeDestinations: rows whose target is gone are skipped.
Projection(s) == {t \in dests[GroupOf[s]]: Alive(t)}

Spawn(s) ==
    /\ live[s] = "active" /\ s \notin up
    /\ up' = up \union {s}
    /\ proj' = [proj EXCEPT ![s] = Projection(s)]
    /\ UNCHANGED <<central, live, promised, wish, mail, reading, bounds>>

\* The rows of an unfinished batch are presented again.
Exit(s) ==
    /\ s \in up
    /\ faults < budget.faults /\ faults' = faults + 1
    /\ up' = up \ {s}
    /\ head' = [head EXCEPT ![s] = 0]
    /\ \E k \in {taken[s]} \union {i - 1: i \in {j \in 1..taken[s]: inbox[s][j] = head[s]}}:
          taken' = [taken EXCEPT ![s] = k]
    /\ UNCHANGED <<central, live, proj, promised, wish, mail, budget, ops>>

\* closeStaleTaskSessions.
Close(s) ==
    /\ s \in System \ up /\ live[s] = "active"
    /\ live' = [live EXCEPT ![s] = "closed"]
    /\ UNCHANGED <<central, up, proj, promised, wish, mail, reading, bounds>>
-----------------------------------------------------------------------------
(* The agent: a batch, the rows that join it, and what it sends.             *)

\* The stamp is the first row of the batch; a batch that a chat message begins
\* has none, as after EndBatch.
TakeBatch(s) ==
    /\ s \in up /\ taken[s] < Len(inbox[s])
    /\ head' = [head EXCEPT ![s] = inbox[s][taken[s] + 1]]
    /\ taken' = [taken EXCEPT ![s] = Len(inbox[s])]
    /\ UNCHANGED <<central, sessions, wish, mail, bounds>>

FollowUp(s) ==
    /\ s \in up /\ head[s] # 0 /\ taken[s] < Len(inbox[s])
    /\ taken' = [taken EXCEPT ![s] = Len(inbox[s])]
    /\ UNCHANGED <<central, sessions, wish, mail, head, bounds>>

EndBatch(s) ==
    /\ s \in up /\ head[s] # 0
    /\ head' = [head EXCEPT ![s] = 0]
    /\ UNCHANGED <<central, sessions, wish, mail, taken, bounds>>

IsFrom(m, g) == m # 0 /\ GroupOf[msgs[m].from] = g

\* The newest row that any session of g has sent to s, if there is one.
NewestFrom(s, g) ==
    LET rows == {i \in 1..Len(inbox[s]): IsFrom(inbox[s][i], g)} IN
    {inbox[s][i]: i \in {n \in rows: \A j \in rows: j <= n}}

\* answers is the row the agent answers with this message, when the stamp says so.
Write(s, g, stamp) ==
    /\ s \in up /\ g \in proj[s] /\ Len(msgs) < budget.messages
    /\ msgs' = Append(msgs, [from |-> s, to |-> g, re |-> stamp,
                             answers |-> IF stamp = head[s] /\ IsFrom(head[s], g) THEN head[s] ELSE 0])
    /\ queue' = queue \union {Len(msgs) + 1}
    /\ UNCHANGED <<central, sessions, wish, held, inbox, asked, approved, crashed, reading, bounds>>

\* send_message and send_file.
SendMessage(s, g) == Write(s, g, head[s])

\* A <message> block of the final text: sendToDestination takes the newest row
\* of that group for the one that is answered.
SayTo(s, g) ==
    \E stamp \in NewestFrom(s, g) \union {head[s]}:
       (NewestFrom(s, g) # {} => stamp \in NewestFrom(s, g)) /\ Write(s, g, stamp)
-----------------------------------------------------------------------------
(* The host routes.                                                          *)

Source(m) == GroupOf[msgs[m].from]
IsSelf(m) == msgs[m].to = Source(m)
HasDestination(m) == IsSelf(m) \/ msgs[m].to \in dests[Source(m)]
HasPolicy(m) == ~IsSelf(m) /\ <<Source(m), msgs[m].to>> \in gates

\* findSessionByAgentGroup: sessions of tasks are passed over.
NewestActive(g) ==
    LET open == {s \in Sessions \ System: GroupOf[s] = g /\ live[s] = "active"} IN
    {s \in open: \A z \in open: z <= s}

\* The session that asked, else the newest of the group, if one is open; stamp
\* is the in_reply_to that reaches the host, 0 for none.
ResolveTargetSession(m, stamp) ==
    LET answered == IF stamp # 0 THEN {stamp} ELSE NewestFrom(msgs[m].from, msgs[m].to)
        origin == {s \in {msgs[r].from: r \in answered}: GroupOf[s] = msgs[m].to /\ live[s] = "active"}
    IN IF origin # {} THEN origin ELSE NewestActive(msgs[m].to)

NextSession(g, s) ==
    /\ s \notin System /\ GroupOf[s] = g /\ live[s] = "none"
    /\ \A z \in Sessions: GroupOf[z] = g => (z > s => live[z] = "none")
                                         /\ (z < s /\ z \notin System => live[z] # "none")

\* When no session is open the next one is created.
PerformAgentRoute(m, stamp) ==
    LET found == ResolveTargetSession(m, stamp) IN
    \E s \in Sessions:
       /\ s \in found \/ (found = {} /\ NextSession(msgs[m].to, s))
       /\ live' = [live EXCEPT ![s] = "active"]
       /\ inbox' = [inbox EXCEPT ![s] = Append(@, m)]

\* markDelivered, or a crash before it: the row is routed once more.
Consume(m) ==
    \/ queue' = queue \ {m} /\ UNCHANGED <<crashed, faults>>
    \/ /\ faults < budget.faults /\ faults' = faults + 1
       /\ crashed' = crashed \union {m} /\ UNCHANGED queue

Routable(m) == m \in queue /\ live[msgs[m].from] # "deleted"

RoutePasses(m) ==
    /\ Routable(m) /\ HasDestination(m) /\ Alive(msgs[m].to) /\ ~HasPolicy(m)
    /\ PerformAgentRoute(m, msgs[m].re)
    /\ Consume(m)
    /\ UNCHANGED <<central, up, proj, promised, wish, msgs, held, asked, approved, reading, budget, ops>>

\* It throws at each of its attempts.
RouteFails(m) ==
    /\ Routable(m) /\ ~(HasDestination(m) /\ Alive(msgs[m].to))
    /\ queue' = queue \ {m}
    /\ UNCHANGED <<central, sessions, wish, msgs, held, inbox, asked, approved, crashed, reading, bounds>>

RouteHolds(m) ==
    /\ Routable(m) /\ HasDestination(m) /\ Alive(msgs[m].to) /\ HasPolicy(m)
    /\ asked' = asked \union {m}
    /\ \/ held' = [held EXCEPT ![m] = @ + 1]
       \/ UNCHANGED held                         \* no approver can be reached
    /\ Consume(m)
    /\ UNCHANGED <<central, sessions, wish, msgs, inbox, approved, reading, budget, ops>>

Answered(m) == held[m] > 0 /\ held' = [held EXCEPT ![m] = @ - 1]

\* Mutant of Approve: the payload of the card loses in_reply_to.
ApproveUnstamped(m) ==
    /\ Answered(m)
    /\ approved' = approved \union {m}
    /\ IF Alive(msgs[m].to) THEN PerformAgentRoute(m, 0) ELSE UNCHANGED <<live, inbox>>
    /\ UNCHANGED <<central, up, proj, promised, wish, msgs, queue, asked, crashed, reading, bounds>>

\* applyA2aMessageGate asks neither for the destination nor for the policy.
Approve(m) ==
    /\ Answered(m)
    /\ approved' = approved \union {m}
    /\ IF Alive(msgs[m].to) THEN PerformAgentRoute(m, msgs[m].re) ELSE UNCHANGED <<live, inbox>>
    /\ UNCHANGED <<central, up, proj, promised, wish, msgs, queue, asked, crashed, reading, bounds>>

Reject(m) ==
    /\ Answered(m)
    /\ UNCHANGED <<central, sessions, wish, msgs, queue, inbox, asked, approved, crashed, reading, bounds>>
-----------------------------------------------------------------------------
(* create_agent.                                                             *)

Command == ops < budget.ops /\ ops' = ops + 1

HandleCreateAgent(s, g) ==
    /\ s \in up /\ live[s] # "deleted" /\ wish[s] = NoGroup /\ group[g] = "new" /\ Command
    /\ wish' = [wish EXCEPT ![s] = g]
    /\ UNCHANGED <<central, sessions, mail, reading, budget, faults>>

CreateRefused(s) ==
    /\ wish[s] # NoGroup
    /\ wish' = [wish EXCEPT ![s] = NoGroup]
    /\ UNCHANGED <<central, sessions, mail, reading, bounds>>

Connected(s, g) ==
    [dests EXCEPT ![GroupOf[s]] = @ \union {g}, ![g] = @ \union {GroupOf[s]}]

\* Mutant of PerformCreateAgent: the projection is left to the next wake.
CreateUnprojected(s) ==
    LET g == wish[s] IN
    /\ g # NoGroup /\ group[g] = "new"
    /\ wish' = [wish EXCEPT ![s] = NoGroup]
    /\ group' = [group EXCEPT ![g] = "alive"]
    /\ dests' = Connected(s, g)
    /\ promised' = promised \union {<<s, g>>}
    /\ UNCHANGED <<gates, live, up, proj, mail, reading, bounds>>

\* Directly for a group of global scope, else once approved.  Only the asking
\* session is projected.  A name that is taken ends as CreateRefused.
PerformCreateAgent(s) ==
    LET g == wish[s] IN
    /\ g # NoGroup /\ group[g] = "new"
    /\ wish' = [wish EXCEPT ![s] = NoGroup]
    /\ group' = [group EXCEPT ![g] = "alive"]
    /\ dests' = Connected(s, g)
    /\ proj' = [proj EXCEPT ![s] = Projection(s)']
    /\ promised' = promised \union {<<s, g>>}
    /\ UNCHANGED <<gates, live, up, mail, reading, bounds>>
-----------------------------------------------------------------------------
(* The operator, and agents whose commands an administrator has approved.    *)

\* projectDestinationsToSessions.
Project(g) ==
    proj' = [s \in Sessions |-> IF s \in SessionsOf(g) THEN Projection(s)' ELSE proj[s]]

\* The target is not looked up: the command succeeds with one that is gone, or
\* never was (a mistyped id is one more that is gone).  Ids of groups yet to be
\* created are drawn then, and nobody can name them.
AddDestination(g, t) ==
    /\ group[g] = "alive" /\ group[t] # "new" /\ t \notin dests[g] /\ Command
    /\ dests' = [dests EXCEPT ![g] = @ \union {t}]
    /\ UNCHANGED group
    /\ Project(g)
    /\ promised' = promised \union (SessionsOf(g) \X {t})
    /\ UNCHANGED <<gates, live, up, wish, mail, reading, budget, faults>>

\* The policy of the pair stays.
RemoveDestination(g, t) ==
    /\ t \in dests[g] /\ Command
    /\ dests' = [dests EXCEPT ![g] = @ \ {t}]
    /\ UNCHANGED group
    /\ Project(g)
    /\ promised' = {p \in promised: ~(GroupOf[p[1]] = g /\ p[2] = t)}
    /\ UNCHANGED <<gates, live, up, wish, mail, reading, budget, faults>>

\* wireApprovedChannel and setup scripts: no projection.
WireChannel(g, c) ==
    /\ group[g] = "alive" /\ Alive(c) /\ c \notin dests[g] /\ Command
    /\ dests' = [dests EXCEPT ![g] = @ \union {c}]
    /\ UNCHANGED <<group, gates, sessions, wish, mail, reading, budget, faults>>

SetPolicy(g, h) ==
    /\ g # h /\ Alive(g) /\ Alive(h) /\ <<g, h>> \notin gates /\ Command
    /\ gates' = gates \union {<<g, h>>}
    /\ UNCHANGED <<group, dests, sessions, wish, mail, reading, budget, faults>>

RemovePolicy(g, h) ==
    /\ <<g, h>> \in gates /\ Command
    /\ gates' = gates \ {<<g, h>>}
    /\ UNCHANGED <<group, dests, sessions, wish, mail, reading, budget, faults>>

\* groups delete: a policy that names the group makes the transaction fail; the
\* projections of the groups that had it as a destination are left alone, and
\* its containers run on.
DeleteGroup(g) ==
    /\ group[g] = "alive" /\ \A pair \in gates: g \notin {pair[1], pair[2]}
    /\ Command
    /\ group' = [group EXCEPT ![g] = "deleted"]
    /\ dests' = [h \in Groups |-> IF h = g THEN {} ELSE dests[h] \ {g}]
    /\ live' = [s \in Sessions |-> IF GroupOf[s] = g /\ live[s] # "none" THEN "deleted" ELSE live[s]]
    /\ held' = [m \in 1..MaxMessages |-> IF m \in Ids /\ Source(m) = g THEN 0 ELSE held[m]]
    /\ wish' = [s \in Sessions |-> IF GroupOf[s] = g THEN NoGroup ELSE wish[s]]
    /\ UNCHANGED <<gates, up, proj, promised, msgs, queue, inbox, asked, approved, crashed, reading, budget, faults>>

\* messaging-groups delete, of a chat that nothing is wired to any more: the
\* destinations that name it stay.
DeleteChannel(c) ==
    /\ Alive(c) /\ Command
    /\ group' = [group EXCEPT ![c] = "deleted"]
    /\ UNCHANGED <<dests, gates, sessions, wish, mail, reading, budget, faults>>
-----------------------------------------------------------------------------
Next ==
    \/ \E s \in Sessions:
          \/ OpenSession(s) \/ Spawn(s) \/ Exit(s) \/ Close(s)
          \/ TakeBatch(s) \/ FollowUp(s) \/ EndBatch(s)
          \/ CreateRefused(s) \/ PerformCreateAgent(s)
          \/ \E g \in Groups: SendMessage(s, g) \/ SayTo(s, g) \/ HandleCreateAgent(s, g)
    \/ \E m \in Ids: RoutePasses(m) \/ RouteFails(m) \/ RouteHolds(m) \/ Approve(m) \/ Reject(m)
    \/ \E g \in Groups:
          \/ \E t \in Targets: AddDestination(g, t) \/ RemoveDestination(g, t)
          \/ \E c \in Channels: WireChannel(g, c)
          \/ \E h \in Groups: SetPolicy(g, h) \/ RemovePolicy(g, h)
          \/ DeleteGroup(g)
    \/ \E c \in Channels: DeleteChannel(c)

Spec == Init /\ [][Next]_vars
-----------------------------------------------------------------------------
(* A destination that an agent or the operator was told to be usable stays   *)
(* in the session's projection until it or its target is removed, whatever   *)
(* is created, wired, removed or deleted meanwhile: no "dropped: unknown     *)
(* destination".  A target that did not exist is promised all the same, and  *)
(* is never known: the success of `ncl destinations add` says nothing of it. *)
PromisedIsKnown ==
    \A p \in promised:
       p[2] \in dests[GroupOf[p[1]]] /\ Alive(p[2]) /\ live[p[1]] # "deleted" => p[2] \in proj[p[1]]

(* And what the operator took away is gone from every projection of a group  *)
(* that still exists, save targets that were deleted.                        *)
RevokedIsForgotten ==
    \A s \in Sessions: live[s] # "deleted" => \A t \in proj[s]: t \in dests[GroupOf[s]] \/ ~Alive(t)

ArrivesAt(m, s) == \E i \in 1..Len(inbox[s]): inbox[s][i] = m
Arrived(m) == \E s \in Sessions: ArrivesAt(m, s)

(* A message arrives in the group it was sent to, in one session and once    *)
(* unless the host crashed over it; one that was held for an approval        *)
(* arrives only when it was approved, even if the policy is removed while it *)
(* waits.                                                                    *)
HeldUntilApproved ==
    /\ \A s \in Sessions: \A i \in 1..Len(inbox[s]): GroupOf[s] = msgs[inbox[s][i]].to
    /\ \A m \in Ids \ crashed:
          /\ \A s, z \in Sessions: ArrivesAt(m, s) /\ ArrivesAt(m, z) => s = z
          /\ \A s \in Sessions: \A i, j \in 1..Len(inbox[s]): inbox[s][i] = m /\ inbox[s][j] = m => i = j
          /\ Arrived(m) => m \notin queue /\ (m \in asked => m \in approved)
          /\ held[m] > 0 => m \notin queue /\ ~Arrived(m)

\* Why: a card is asked for once per attempt, and a message that still waits to
\* be routed has not been asked about.
AskedOnce ==
    /\ \A m \in 1..MaxMessages:
          /\ held[m] <= faults + IF m \in queue THEN 0 ELSE 1
          /\ m \notin crashed => held[m] <= IF m \in asked THEN 1 ELSE 0
    /\ \A m \in queue: m \in asked => m \in crashed
    /\ faults <= budget.faults

\* What stands in a table is about what exists or, as a target, existed.
Rooted ==
    /\ \A g \in Groups: dests[g] # {} => group[g] = "alive" /\ \A t \in dests[g]: group[t] # "new"
    /\ \A s \in Sessions:
          /\ live[s] \in {"active", "closed"} => group[GroupOf[s]] = "alive"
          /\ s \in up => live[s] # "none"
          /\ wish[s] # NoGroup => live[s] \in {"active", "closed"}
          /\ live[s] = "none" => proj[s] = {}
          /\ \A t \in proj[s]: group[t] # "new"

\* A promise ends when the destination is removed.
Kept ==
    \A p \in promised:
       /\ live[p[1]] # "none" /\ group[p[2]] # "new"
       /\ p[2] \in dests[GroupOf[p[1]]] \/ live[p[1]] = "deleted" \/ ~Alive(p[2])

\* An answer carries the row it answers.
Stamped ==
    \A m \in Ids:
       /\ msgs[m].re \in 0..Len(msgs)
       /\ msgs[m].answers # 0 =>
             /\ msgs[m].answers = msgs[m].re
             /\ GroupOf[msgs[msgs[m].answers].from] = msgs[m].to

IInv ==
    /\ TypeOK /\ PromisedIsKnown /\ RevokedIsForgotten /\ HeldUntilApproved
    /\ AskedOnce /\ Rooted /\ Kept /\ Stamped

(* An answer arrives in the very session that asked while that session is    *)
(* open, directly or after an approval, whichever other sessions of its      *)
(* group have written to the answering agent since.                          *)
ReplyReturns ==
    [][\A s \in Sessions: inbox'[s] # inbox[s] =>
          LET m == inbox'[s][Len(inbox'[s])]
              question == msgs[m].answers
          IN question # 0 /\ live[msgs[question].from] = "active" => s = msgs[question].from]_vars
=============================================================================
