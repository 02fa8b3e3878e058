----------------------------- MODULE Admission ------------------------------
(***************************************************************************)
(* How a chat comes to talk to an agent group: the router's fan-out        *)
(* (src/router.ts), the access and scope gates, and the two approval flows *)
(* of src/modules/permissions.  A message for a chat without a wiring asks *)
(* an approver to register the channel; a message of a sender the agent    *)
(* group does not know asks to admit the sender.  Each request looks for   *)
(* the approver's DM between its check for a pending row and its INSERT,   *)
(* and an approved one replays its message through the router.             *)
(*                                                                         *)
(* One approver holds all cards.  Accesses by role are left out: a user    *)
(* may talk to a group when it is a member.                                *)
(***************************************************************************)
EXTENDS Integers, FiniteSets

CONSTANTS
    Channels, Agents, Senders, Messages,
    ChannelOf,      \* [Messages -> Channels]
    SenderOf,       \* [Messages -> Senders]
    Mentions,       \* messages with isMention: the bot is addressed
    Commands,       \* messages the command gate filters or denies
    Anonymous,      \* senders without an identity: userId is null
    Policy,         \* unknown_sender_policy of each channel
    Mode,           \* engage mode the channel's adapter declares
    FirstAgents,    \* agent groups of the installation
    NoMessage, NoChannel, NoAgent,
    MaxClicks, MaxFaults    \* bounds of the model

ASSUME AdmissionAssumption ==
    /\ ChannelOf \in [Messages -> Channels] /\ SenderOf \in [Messages -> Senders]
    /\ Mentions \subseteq Messages /\ Commands \subseteq Messages /\ Anonymous \subseteq Senders
    /\ Policy \in [Channels -> {"strict", "request_approval", "public"}]
    /\ Mode \in [Channels -> {"pattern", "mention", "mention-sticky"}]
    /\ FirstAgents \subseteq Agents
    /\ NoMessage \notin Messages /\ NoChannel \notin Channels /\ NoAgent \notin Agents
    /\ MaxClicks \in Nat /\ MaxFaults \in Nat

Pair == Messages \X Agents

Option(do) == [do |-> do, agent |-> NoAgent]
Connect(a) == [do |-> "connect", agent |-> a]
Choices == {Option(do) : do \in {"choose", "new", "reject"}} \union {Connect(a) : a \in Agents}

VARIABLES
    channel,    \* the messaging_groups row: absent, open or denied
    wiring,     \* sender_scope of messaging_group_agents, or none
    groups,     \* agent groups that exist
    members,    \* agent_group_members
    sessions,   \* agent groups with a session for the channel
    arrived,    \* messages the adapter has handed over
    routing,    \* fan-outs under way: a message and a wired agent still to come
    stored,     \* rows of messages_in, by message and agent
    refused,    \* messages a gate has refused, by agent (history)
    asking,     \* channel requests past their check, looking for the DM
    row,        \* pending_channel_approvals: the message it keeps
    card,       \* the buttons the approver sees for the channel
    posting,    \* channels whose first card is being delivered
    flights,    \* clicks on channel cards under way
    prompt,     \* awaitingNameInput of the approver
    displaced,  \* channels whose prompt was taken by another or left empty (history)
    knocking,   \* sender requests past their check
    knocks,     \* pending_sender_approvals
    doors,      \* sender cards that show buttons
    owed,       \* messages an approval has promised to an agent (history)
    clicks, faults

channelFlow == <<asking, row, card, posting, flights, prompt, displaced>>
senderFlow == <<knocking, knocks, doors>>
vars == <<channel, wiring, groups, members, sessions, arrived, routing, stored, refused,
          channelFlow, senderFlow, owed, clicks, faults>>

TypeOK ==
    /\ channel \in [Channels -> {"absent", "open", "denied"}]
    /\ wiring \in [Channels -> [Agents -> {"none", "all", "known"}]]
    /\ groups \subseteq Agents /\ members \subseteq Senders \X Agents
    /\ sessions \subseteq Channels \X Agents
    /\ arrived \subseteq Messages /\ routing \subseteq Pair
    /\ stored \subseteq Pair /\ refused \subseteq Pair /\ owed \subseteq Pair
    /\ asking \subseteq Messages /\ posting \subseteq Channels
    /\ row \in [Channels -> Messages \union {NoMessage}]
    /\ card \in [Channels -> SUBSET Choices]
    /\ flights \subseteq [channel: Channels, choice: Choices, at: {"clicked", "reaching"}]
    /\ prompt \in Channels \union {NoChannel} /\ displaced \subseteq Channels
    /\ knocking \subseteq Pair /\ knocks \subseteq Pair /\ doors \subseteq Pair
    /\ clicks \in 0..MaxClicks /\ faults \in 0..MaxFaults

Wired(c) == {a \in Agents : wiring[c][a] # "none"}
Fault == faults < MaxFaults /\ faults' = faults + 1

Init ==
    /\ channel = [c \in Channels |-> "absent"]
    /\ wiring = [c \in Channels |-> [a \in Agents |-> "none"]]
    /\ groups = FirstAgents /\ members = {} /\ sessions = {}
    /\ arrived = {} /\ routing = {} /\ stored = {} /\ refused = {} /\ owed = {}
    /\ asking = {} /\ row = [c \in Channels |-> NoMessage] /\ card = [c \in Channels |-> {}]
    /\ posting = {} /\ flights = {} /\ prompt = NoChannel /\ displaced = {}
    /\ knocking = {} /\ knocks = {} /\ doors = {}
    /\ clicks = 0 /\ faults = 0
-----------------------------------------------------------------------------
(* routeInbound.                                                             *)

Arrives(m) == m \notin arrived /\ arrived' = arrived \union {m}

\* An unwired chat: plain chatter and denied channels stay silent; the bot
\* addressed creates the row and, unless a request is pending, asks.
ArriveUnwired(m) ==
    LET c == ChannelOf[m] IN
    /\ Arrives(m) /\ Wired(c) = {}
    /\ IF m \in Mentions
       THEN /\ channel' = [channel EXCEPT ![c] = IF @ = "absent" THEN "open" ELSE @]
            /\ asking' = IF channel[c] # "denied" /\ row[c] = NoMessage THEN asking \union {m} ELSE asking
       ELSE UNCHANGED <<channel, asking>>
    /\ UNCHANGED <<wiring, groups, members, sessions, routing, stored, refused, row, card, posting,
                   flights, prompt, displaced, senderFlow, owed, clicks, faults>>

\* The agents of the fan-out are read once, each awaits the one before.
ArriveWired(m) ==
    /\ Arrives(m) /\ Wired(ChannelOf[m]) # {}
    /\ routing' = routing \union ({m} \X Wired(ChannelOf[m]))
    /\ UNCHANGED <<channel, wiring, groups, members, sessions, stored, refused, channelFlow,
                   senderFlow, owed, clicks, faults>>

\* evaluateEngage: mention-sticky follows up wherever a session exists.
Engages(m, a) ==
    CASE Mode[ChannelOf[m]] = "pattern" -> TRUE
      [] Mode[ChannelOf[m]] = "mention" -> m \in Mentions
      [] Mode[ChannelOf[m]] = "mention-sticky" -> m \in Mentions \/ <<ChannelOf[m], a>> \in sessions

\* canAccessAgentGroup, for a sender that is identified.
CanAccess(m, a) == SenderOf[m] \notin Anonymous /\ <<SenderOf[m], a>> \in members
AccessOk(m, a) == Policy[ChannelOf[m]] = "public" \/ CanAccess(m, a)
ScopeOk(m, a) == wiring[ChannelOf[m]][a] = "all" \/ CanAccess(m, a)
Refuses(m, a) == Engages(m, a) /\ ~(AccessOk(m, a) /\ ScopeOk(m, a))

\* Mutant of RouteRefused: the refused message is kept as context.
RefusedKept(m, a) ==
    /\ <<m, a>> \in routing /\ Refuses(m, a)
    /\ routing' = routing \ {<<m, a>>}
    /\ refused' = refused \union {<<m, a>>}
    /\ stored' = stored \union {<<m, a>>}
    /\ UNCHANGED <<channel, wiring, groups, members, sessions, arrived, channelFlow, knocking, knocks,
                   doors, owed, clicks, faults>>

\* A gate refuses.  handleUnknownSender asks for the sender, once per chat.
RouteRefused(m, a) ==
    /\ <<m, a>> \in routing /\ Refuses(m, a)
    /\ routing' = routing \ {<<m, a>>}
    /\ refused' = refused \union {<<m, a>>}
    /\ knocking' =
         IF /\ ~AccessOk(m, a) /\ Policy[ChannelOf[m]] = "request_approval"
            /\ SenderOf[m] \notin Anonymous
            /\ ~\E k \in knocks : ChannelOf[k[1]] = ChannelOf[m] /\ SenderOf[k[1]] = SenderOf[m]
         THEN knocking \union {<<m, a>>} ELSE knocking
    /\ UNCHANGED <<channel, wiring, groups, members, sessions, arrived, stored, channelFlow, knocks,
                   doors, owed, clicks, faults>>

\* The ignored_message_policy the card flow gives; ncl's default is drop.
Accumulates(c, a) == wiring[c][a] = "known"

RouteIgnored(m, a) ==
    /\ <<m, a>> \in routing /\ ~Engages(m, a) /\ ~Accumulates(ChannelOf[m], a)
    /\ routing' = routing \ {<<m, a>>}
    /\ UNCHANGED <<channel, wiring, groups, members, sessions, arrived, stored, refused, channelFlow,
                   senderFlow, owed, clicks, faults>>

\* deliverToAgent, engaged or accumulating: the session is resolved before the
\* command gate drops the message; a message routed again keeps its one row.
RouteStored(m, a) ==
    /\ <<m, a>> \in routing /\ ~Refuses(m, a)
    /\ Engages(m, a) \/ Accumulates(ChannelOf[m], a)
    /\ routing' = routing \ {<<m, a>>}
    /\ sessions' = sessions \union {<<ChannelOf[m], a>>}
    /\ stored' = IF m \in Commands THEN stored ELSE stored \union {<<m, a>>}
    /\ UNCHANGED <<channel, wiring, groups, members, arrived, refused, channelFlow, senderFlow, owed,
                   clicks, faults>>
-----------------------------------------------------------------------------
(* Registering a channel: requestChannelApproval and its card.              *)

\* No agent group, no approver or no DM: no row.  A row of another request:
\* the INSERT throws.
AskInVain(m) ==
    /\ m \in asking /\ asking' = asking \ {m}
    /\ UNCHANGED <<channel, wiring, groups, members, sessions, arrived, routing, stored, refused, row,
                   card, posting, flights, prompt, displaced, senderFlow, owed, clicks, faults>>

Ask(m) ==
    LET c == ChannelOf[m] IN
    /\ m \in asking /\ asking' = asking \ {m}
    /\ groups # {} /\ row[c] = NoMessage
    /\ row' = [row EXCEPT ![c] = m]
    /\ posting' = posting \union {c}
    /\ UNCHANGED <<channel, wiring, groups, members, sessions, arrived, routing, stored, refused, card,
                   flights, prompt, displaced, senderFlow, owed, clicks, faults>>

\* One agent group is a button, several are chosen from on a second card.
Post(c) ==
    /\ c \in posting /\ posting' = posting \ {c}
    /\ \/ /\ card' = [card EXCEPT ![c] =
                 {Option("new"), Option("reject")}
                 \union (IF Cardinality(groups) = 1 THEN {Connect(a) : a \in groups} ELSE {Option("choose")})]
          /\ UNCHANGED faults
       \/ Fault /\ UNCHANGED card      \* the row stays and suppresses later cards
    /\ UNCHANGED <<channel, wiring, groups, members, sessions, arrived, routing, stored, refused, asking,
                   row, flights, prompt, displaced, senderFlow, owed, clicks>>

\* The bridge hands a click on after it has edited the card.
Click(c, choice) ==
    /\ choice \in card[c] /\ clicks < MaxClicks /\ clicks' = clicks + 1
    /\ flights' = flights \union {[channel |-> c, choice |-> choice, at |-> "clicked"]}
    /\ UNCHANGED <<channel, wiring, groups, members, sessions, arrived, routing, stored, refused, asking,
                   row, card, posting, prompt, displaced, senderFlow, owed, faults>>

Clicked(f) == f \in flights /\ f.at = "clicked" /\ card' = [card EXCEPT ![f.channel] = {}]
Ends(f) == flights' = flights \ {f}

\* No row claims the click, an unauthorized one is claimed and ignored, and so
\* is an approver's for an agent group it does not administer.
ClickIgnored(f) ==
    /\ Clicked(f) /\ Ends(f)
    /\ \/ row[f.channel] = NoMessage /\ UNCHANGED faults
       \/ Fault
    /\ UNCHANGED <<channel, wiring, groups, members, sessions, arrived, routing, stored, refused, asking,
                   row, posting, prompt, displaced, senderFlow, owed, clicks>>

Reject(f) ==
    /\ Clicked(f) /\ Ends(f) /\ f.choice.do = "reject" /\ row[f.channel] # NoMessage
    /\ channel' = [channel EXCEPT ![f.channel] = "denied"]
    /\ row' = [row EXCEPT ![f.channel] = NoMessage]
    /\ UNCHANGED <<wiring, groups, members, sessions, arrived, routing, stored, refused, asking, posting,
                   prompt, displaced, senderFlow, owed, clicks, faults>>

\* Mutant of WireApproved: the triggering sender is not admitted.
WireOnly(c, a) ==
    LET m == row[c] IN
    /\ m # NoMessage /\ wiring[c][a] = "none"
    /\ wiring' = [wiring EXCEPT ![c][a] = "known"]
    /\ row' = [row EXCEPT ![c] = NoMessage]
    /\ owed' = owed \union {<<m, a>>}
    /\ routing' = routing \union ({m} \X (Wired(c) \union {a}))
    /\ UNCHANGED members

\* wireApprovedChannel: the wiring, the sender as a member, the row gone, the
\* message replayed.  (A wiring that exists throws: see ConnectAgain.)
WireApproved(c, a) ==
    LET m == row[c] IN
    /\ m # NoMessage /\ wiring[c][a] = "none"
    /\ wiring' = [wiring EXCEPT ![c][a] = "known"]
    /\ members' = IF SenderOf[m] \in Anonymous THEN members ELSE members \union {<<SenderOf[m], a>>}
    /\ row' = [row EXCEPT ![c] = NoMessage]
    /\ owed' = IF SenderOf[m] \in Anonymous THEN owed ELSE owed \union {<<m, a>>}
    /\ routing' = routing \union ({m} \X (Wired(c) \union {a}))

ConnectAgent(f) ==
    /\ Clicked(f) /\ Ends(f) /\ f.choice.do = "connect"
    /\ WireApproved(f.channel, f.choice.agent)
    /\ UNCHANGED <<channel, groups, sessions, arrived, stored, refused, asking, posting, prompt,
                   displaced, senderFlow, clicks, faults>>

\* An operator wires the chat: ncl wirings create, sender_scope all.
OperatorWires(c, a) ==
    /\ channel[c] # "absent" /\ a \in groups /\ wiring[c][a] = "none"
    /\ clicks < MaxClicks /\ clicks' = clicks + 1
    /\ wiring' = [wiring EXCEPT ![c][a] = "all"]
    /\ UNCHANGED <<channel, groups, members, sessions, arrived, routing, stored, refused, channelFlow,
                   senderFlow, owed, faults>>

\* UNIQUE(messaging group, agent group): the handler throws, the row stays.
ConnectAgain(f) ==
    /\ Clicked(f) /\ Ends(f) /\ f.choice.do = "connect"
    /\ row[f.channel] # NoMessage /\ wiring[f.channel][f.choice.agent] # "none"
    /\ UNCHANGED <<channel, wiring, groups, members, sessions, arrived, routing, stored, refused, asking,
                   row, posting, prompt, displaced, senderFlow, owed, clicks, faults>>

\* The other two answers look for the approver's DM first.
ClickAwaitsDm(f) ==
    /\ Clicked(f) /\ f.choice.do \in {"choose", "new"} /\ row[f.channel] # NoMessage
    /\ flights' = (flights \ {f}) \union {[f EXCEPT !.at = "reaching"]}
    /\ UNCHANGED <<channel, wiring, groups, members, sessions, arrived, routing, stored, refused, asking,
                   row, posting, prompt, displaced, senderFlow, owed, clicks, faults>>

ChooseExisting(f) ==
    /\ f \in flights /\ f.at = "reaching" /\ f.choice.do = "choose" /\ Ends(f)
    /\ \/ /\ card' = [card EXCEPT ![f.channel] = {Option("reject")} \union {Connect(a) : a \in groups}]
          /\ UNCHANGED faults
       \/ Fault /\ UNCHANGED card
    /\ UNCHANGED <<channel, wiring, groups, members, sessions, arrived, routing, stored, refused, asking,
                   row, posting, prompt, displaced, senderFlow, owed, clicks>>

\* awaitingNameInput holds one channel per approver: the last one asked for.
PromptForName(f) ==
    /\ f \in flights /\ f.at = "reaching" /\ f.choice.do = "new" /\ Ends(f)
    /\ \/ /\ prompt' = f.channel
          /\ displaced' = IF prompt \in {NoChannel, f.channel} THEN displaced ELSE displaced \union {prompt}
          /\ UNCHANGED faults
       \/ /\ Fault /\ prompt' = NoChannel
          /\ UNCHANGED displaced
    /\ UNCHANGED <<channel, wiring, groups, members, sessions, arrived, routing, stored, refused, asking,
                   row, card, posting, senderFlow, owed, clicks>>

\* The interceptor takes the approver's next DM.  Without text, or when the
\* row is gone, it is swallowed.
NameIgnored ==
    /\ prompt # NoChannel /\ prompt' = NoChannel
    /\ displaced' = IF row[prompt] = NoMessage THEN displaced ELSE displaced \union {prompt}
    /\ UNCHANGED <<channel, wiring, groups, members, sessions, arrived, routing, stored, refused, asking,
                   row, card, posting, flights, senderFlow, owed, clicks, faults>>

NameNewAgent(a) ==
    /\ prompt # NoChannel /\ prompt' = NoChannel
    /\ a \in Agents \ groups /\ groups' = groups \union {a}
    /\ WireApproved(prompt, a)
    /\ UNCHANGED <<channel, sessions, arrived, stored, refused, asking, card, posting, flights,
                   displaced, senderFlow, clicks, faults>>
-----------------------------------------------------------------------------
(* Admitting a sender: requestSenderApproval and its card.                  *)

\* No approver or DM; or another request has the (chat, sender) row.
KnockInVain(m, a) ==
    /\ <<m, a>> \in knocking /\ knocking' = knocking \ {<<m, a>>}
    /\ UNCHANGED <<channel, wiring, groups, members, sessions, arrived, routing, stored, refused,
                   channelFlow, knocks, doors, owed, clicks, faults>>

Knock(m, a) ==
    /\ <<m, a>> \in knocking /\ knocking' = knocking \ {<<m, a>>}
    /\ ~\E k \in knocks : ChannelOf[k[1]] = ChannelOf[m] /\ SenderOf[k[1]] = SenderOf[m]
    /\ knocks' = knocks \union {<<m, a>>}
    /\ \/ doors' = doors \union {<<m, a>>} /\ UNCHANGED faults
       \/ Fault /\ UNCHANGED doors
    /\ UNCHANGED <<channel, wiring, groups, members, sessions, arrived, routing, stored, refused,
                   channelFlow, owed, clicks>>

\* Approve: a member, the row gone, the message replayed to every wiring.
Approve(m, a) ==
    /\ <<m, a>> \in doors /\ clicks < MaxClicks /\ clicks' = clicks + 1
    /\ doors' = doors \ {<<m, a>>} /\ knocks' = knocks \ {<<m, a>>}
    /\ members' = members \union {<<SenderOf[m], a>>}
    /\ owed' = owed \union {<<m, a>>}
    /\ routing' = routing \union ({m} \X Wired(ChannelOf[m]))
    /\ UNCHANGED <<channel, wiring, groups, sessions, arrived, stored, refused, channelFlow, knocking,
                   faults>>

\* Mutant of Deny: the sender is added before the click is read.
DenyAdmits(m, a) ==
    /\ <<m, a>> \in doors /\ clicks < MaxClicks /\ clicks' = clicks + 1
    /\ doors' = doors \ {<<m, a>>}
    /\ members' = members \union {<<SenderOf[m], a>>}
    /\ \/ knocks' = knocks \ {<<m, a>>} /\ UNCHANGED faults
       \/ Fault /\ UNCHANGED knocks
    /\ UNCHANGED <<channel, wiring, groups, sessions, arrived, routing, stored, refused,
                   channelFlow, knocking, owed>>

\* Deny leaves no trace: the sender's next message asks again.  A click of
\* somebody else takes the buttons and leaves the row.
Deny(m, a) ==
    /\ <<m, a>> \in doors /\ clicks < MaxClicks /\ clicks' = clicks + 1
    /\ doors' = doors \ {<<m, a>>}
    /\ \/ knocks' = knocks \ {<<m, a>>} /\ UNCHANGED faults
       \/ Fault /\ UNCHANGED knocks
    /\ UNCHANGED <<channel, wiring, groups, members, sessions, arrived, routing, stored, refused,
                   channelFlow, knocking, owed>>

\* The host restarts: what awaited and what was only in memory is gone.
HostRestart ==
    /\ Fault
    /\ asking' = {} /\ posting' = {} /\ flights' = {} /\ prompt' = NoChannel
    /\ knocking' = {} /\ routing' = {}
    /\ UNCHANGED <<channel, wiring, groups, members, sessions, arrived, stored, refused, row, card,
                   displaced, knocks, doors, owed, clicks>>
-----------------------------------------------------------------------------
Routes == \E m \in Messages, a \in Agents : RouteRefused(m, a) \/ RouteIgnored(m, a) \/ RouteStored(m, a)

Next ==
    \/ \E m \in Messages : ArriveUnwired(m) \/ ArriveWired(m) \/ AskInVain(m) \/ Ask(m)
    \/ \E m \in Messages, a \in Agents :
           RouteRefused(m, a) \/ RouteIgnored(m, a) \/ RouteStored(m, a) \/ KnockInVain(m, a) \/ Knock(m, a)
           \/ Approve(m, a) \/ Deny(m, a)
    \/ \E c \in Channels : Post(c) \/ (\E choice \in card[c] : Click(c, choice))
    \/ \E f \in flights : \/ ClickIgnored(f) \/ Reject(f) \/ ConnectAgent(f) \/ ConnectAgain(f)
                          \/ ClickAwaitsDm(f) \/ ChooseExisting(f) \/ PromptForName(f)
    \/ NameIgnored
    \/ \E a \in Agents : NameNewAgent(a) \/ \E c \in Channels : OperatorWires(c, a)
    \/ HostRestart

Spec == Init /\ [][Next]_vars

\* The fan-out of a message the host holds goes on; nothing else must happen.
FairSpec == Spec /\ WF_vars(Routes)
-----------------------------------------------------------------------------
(* What must hold. *)

\* While nothing fails, a pending channel row can be decided: its card shows
\* buttons or is under way, a click is being handled, or the approver is asked
\* for a name - but for the prompts that another prompt or an empty reply took,
\* whose rows nothing ever removes.
Decidable ==
    faults = 0 => \A c \in Channels :
        row[c] # NoMessage =>
            \/ card[c] # {} \/ c \in posting \/ prompt = c \/ c \in displaced
            \/ \E f \in flights : f.channel = c
            \/ Wired(c) # {}

\* A member was let in by the approver, with the message that asked.
MembersOwed == \A s \in Senders, a \in Agents :
    <<s, a>> \in members => \E m \in Messages : SenderOf[m] = s /\ <<m, a>> \in owed

\* One pending request per chat and sender, whatever requests race.
OneKnock == \A j, k \in knocks :
    ChannelOf[j[1]] = ChannelOf[k[1]] /\ SenderOf[j[1]] = SenderOf[k[1]] => j = k

\* What was refused is still asked for and still not open to everyone, and only
\* the agents of a chat are routed to (this is why NoSideDoor holds).
RefusedIsGated ==
    /\ \A c \in Channels : row[c] # NoMessage => ChannelOf[row[c]] = c
    /\ \A p \in routing : p[2] \in Wired(ChannelOf[p[1]])
    /\ \A p \in refused :
           /\ Engages(p[1], p[2])
           /\ Policy[ChannelOf[p[1]]] # "public" \/ wiring[ChannelOf[p[1]]][p[2]] = "known"

IInv == TypeOK /\ Decidable /\ MembersOwed /\ OneKnock /\ RefusedIsGated

\* A message that a gate has refused enters the agent's session only when its
\* sender has been admitted since: neither another wiring, a replay nor the
\* accumulate policy lets it in by a side door.
NoSideDoor ==
    [][\A p \in stored' \ stored : p \in refused' => <<SenderOf[p[1]], p[2]>> \in members]_vars

\* What an approval promised arrives: the replayed message passes the gates.
ApprovedArrives == \A m \in Messages, a \in Agents :
    <<m, a>> \in owed ~> <<m, a>> \in stored \/ m \in Commands \/ faults > 0
=============================================================================
