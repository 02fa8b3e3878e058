--------------------------- MODULE AdmissionProofs --------------------------
(* Theorems about Admission, for any channels, agents, senders and messages. *)
EXTENDS Admission, TLAPS

\* The parts of TypeOK.
RoomsOK ==
    /\ channel \in [Channels -> {"absent", "open", "denied"}]
    /\ wiring \in [Channels -> [Agents -> {"none", "all", "known"}]]
    /\ groups \subseteq Agents /\ members \subseteq Senders \X Agents
    /\ sessions \subseteq Channels \X Agents

RoutesOK ==
    /\ arrived \subseteq Messages /\ routing \subseteq Pair
    /\ stored \subseteq Pair /\ refused \subseteq Pair /\ owed \subseteq Pair
    /\ knocking \subseteq Pair /\ knocks \subseteq Pair /\ doors \subseteq Pair

CardsOK ==
    /\ asking \subseteq Messages /\ posting \subseteq Channels
    /\ row \in [Channels -> Messages \union {NoMessage}]
    /\ card \in [Channels -> SUBSET Choices]
    /\ flights \subseteq [channel: Channels, choice: Choices, at: {"clicked", "reaching"}]
    /\ prompt \in Channels \union {NoChannel} /\ displaced \subseteq Channels

CountersOK == clicks \in 0..MaxClicks /\ faults \in 0..MaxFaults

LEMMA Parts == TypeOK <=> RoomsOK /\ RoutesOK /\ CardsOK /\ CountersOK
  BY Zenon DEF TypeOK, RoomsOK, RoutesOK, CardsOK, CountersOK

LEMMA PartsNext == RoomsOK' /\ RoutesOK' /\ CardsOK' /\ CountersOK' => TypeOK'
  BY Zenon DEF TypeOK, RoomsOK, RoutesOK, CardsOK, CountersOK

\* The buttons of a card are choices.
LEMMA ButtonsOK ==
    ASSUME groups \subseteq Agents
    PROVE  /\ {Option("new"), Option("reject")} \subseteq Choices
           /\ {Option("choose")} \subseteq Choices
           /\ {Connect(a) : a \in groups} \subseteq Choices
  BY DEF Option, Connect, Choices

\* A card that connects names an agent group.
LEMMA ConnectNames ==
    ASSUME CardsOK, NEW f \in flights
    PROVE  /\ f.channel \in Channels /\ f.choice \in Choices /\ f.at \in {"clicked", "reaching"}
           /\ f = [channel |-> f.channel, choice |-> f.choice, at |-> f.at]
           /\ f.choice.do = "connect" => f.choice.agent \in Agents
<1>1. f \in [channel: Channels, choice: Choices, at: {"clicked", "reaching"}]
  BY DEF CardsOK
<1>2. \A x \in Choices : x.do = "connect" => x.agent \in Agents
  BY DEF Choices, Option, Connect
<1> QED
  BY <1>1, <1>2

LEMMA WiredOK ==
    ASSUME RoomsOK, RoutesOK, CardsOK, NEW c \in Channels, NEW a \in Agents, WireApproved(c, a)
    PROVE  /\ wiring' \in [Channels -> [Agents -> {"none", "all", "known"}]]
           /\ members' \subseteq Senders \X Agents
           /\ row' \in [Channels -> Messages \union {NoMessage}]
           /\ owed' \subseteq Pair /\ routing' \subseteq Pair
<1>1. row[c] \in Messages /\ SenderOf[row[c]] \in Senders
  BY AdmissionAssumption DEF WireApproved, CardsOK
<1>2. wiring' \in [Channels -> [Agents -> {"none", "all", "known"}]]
  BY DEF WireApproved, RoomsOK
<1>3. members' \subseteq Senders \X Agents
  BY <1>1 DEF WireApproved, RoomsOK
<1>4. row' \in [Channels -> Messages \union {NoMessage}]
  BY DEF WireApproved, CardsOK
<1>5. owed' \subseteq Pair /\ routing' \subseteq Pair
  BY <1>1 DEF WireApproved, RoutesOK, Pair, Wired
<1> QED
  BY <1>2, <1>3, <1>4, <1>5

LEMMA InitOK == Init => IInv
<1> SUFFICES ASSUME Init PROVE IInv
  OBVIOUS
<1>1. RoomsOK
  BY AdmissionAssumption DEF Init, RoomsOK
<1>2. RoutesOK /\ CardsOK
  BY DEF Init, RoutesOK, CardsOK
<1>3. CountersOK
  BY AdmissionAssumption DEF Init, CountersOK
<1>4. Decidable /\ MembersOwed /\ OneKnock /\ RefusedIsGated
  BY DEF Init, Decidable, MembersOwed, OneKnock, RefusedIsGated
<1> QED
  BY <1>1, <1>2, <1>3, <1>4, Parts DEF IInv

LEMMA RoomsStay ==
    ASSUME RoomsOK, RoutesOK, CardsOK, [Next]_vars
    PROVE  RoomsOK'
<1> USE AdmissionAssumption
<1>1. CASE \E m \in Messages : ArriveUnwired(m)
  BY <1>1 DEF ArriveUnwired, Arrives, RoomsOK, RoutesOK, CardsOK, Pair, channelFlow, senderFlow
<1>2. CASE \E m \in Messages : ArriveWired(m)
  BY <1>2 DEF ArriveWired, Arrives, RoomsOK, RoutesOK, CardsOK, Pair, channelFlow, senderFlow
<1>3. CASE \E m \in Messages : AskInVain(m)
  BY <1>3 DEF AskInVain, RoomsOK, RoutesOK, CardsOK, Pair, channelFlow, senderFlow
<1>4. CASE \E m \in Messages : Ask(m)
  BY <1>4 DEF Ask, RoomsOK, RoutesOK, CardsOK, Pair, channelFlow, senderFlow
<1>5. CASE \E m \in Messages, a \in Agents : RouteRefused(m, a)
  BY <1>5 DEF RouteRefused, RoomsOK, RoutesOK, CardsOK, Pair, channelFlow, senderFlow
<1>6. CASE \E m \in Messages, a \in Agents : RouteIgnored(m, a)
  BY <1>6 DEF RouteIgnored, RoomsOK, RoutesOK, CardsOK, Pair, channelFlow, senderFlow
<1>7. CASE \E m \in Messages, a \in Agents : RouteStored(m, a)
  BY <1>7 DEF RouteStored, RoomsOK, RoutesOK, CardsOK, Pair, channelFlow, senderFlow
<1>8. CASE \E m \in Messages, a \in Agents : KnockInVain(m, a)
  BY <1>8 DEF KnockInVain, RoomsOK, RoutesOK, CardsOK, Pair, channelFlow, senderFlow
<1>9. CASE \E m \in Messages, a \in Agents : Knock(m, a)
  BY <1>9 DEF Knock, RoomsOK, RoutesOK, CardsOK, Pair, channelFlow, senderFlow
<1>10. CASE \E m \in Messages, a \in Agents : Approve(m, a)
  BY <1>10 DEF Approve, RoomsOK, RoutesOK, CardsOK, Pair, channelFlow, senderFlow
<1>11. CASE \E m \in Messages, a \in Agents : Deny(m, a)
  BY <1>11 DEF Deny, RoomsOK, RoutesOK, CardsOK, Pair, channelFlow, senderFlow
<1>12. CASE \E c \in Channels : Post(c)
  BY <1>12 DEF Post, RoomsOK, RoutesOK, CardsOK, Pair, channelFlow, senderFlow
<1>13. CASE \E c \in Channels : \E choice \in card[c] : Click(c, choice)
  BY <1>13 DEF Click, RoomsOK, RoutesOK, CardsOK, Pair, channelFlow, senderFlow
<1>14. CASE \E f \in flights : ClickIgnored(f)
  BY <1>14 DEF ClickIgnored, Clicked, Ends, RoomsOK, RoutesOK, CardsOK, Pair, channelFlow, senderFlow
<1>15. CASE \E f \in flights : Reject(f)
  BY <1>15 DEF Reject, Clicked, Ends, RoomsOK, RoutesOK, CardsOK, Pair, channelFlow, senderFlow
<1>16. CASE \E f \in flights : ConnectAgent(f)
  <2> PICK f \in flights : ConnectAgent(f)
    BY <1>16
  <2>1. WireApproved(f.channel, f.choice.agent) /\ f.channel \in Channels /\ f.choice.agent \in Agents
    BY ConnectNames DEF ConnectAgent
  <2> QED
    BY <2>1, WiredOK DEF ConnectAgent, Clicked, Ends, RoomsOK, senderFlow
<1>17. CASE \E f \in flights : ConnectAgain(f)
  BY <1>17 DEF ConnectAgain, Clicked, Ends, RoomsOK, RoutesOK, CardsOK, Pair, channelFlow, senderFlow
<1>18. CASE \E f \in flights : ClickAwaitsDm(f)
  BY <1>18 DEF ClickAwaitsDm, Clicked, RoomsOK, RoutesOK, CardsOK, Pair, channelFlow, senderFlow
<1>19. CASE \E f \in flights : ChooseExisting(f)
  BY <1>19 DEF ChooseExisting, Ends, RoomsOK, RoutesOK, CardsOK, Pair, channelFlow, senderFlow
<1>20. CASE \E f \in flights : PromptForName(f)
  BY <1>20 DEF PromptForName, Ends, RoomsOK, RoutesOK, CardsOK, Pair, channelFlow, senderFlow
<1>21. CASE NameIgnored
  BY <1>21 DEF NameIgnored, RoomsOK, RoutesOK, CardsOK, Pair, channelFlow, senderFlow
<1>22. CASE \E a \in Agents : NameNewAgent(a)
  <2> PICK a \in Agents : NameNewAgent(a)
    BY <1>22
  <2>1. WireApproved(prompt, a) /\ prompt \in Channels
    BY DEF NameNewAgent, CardsOK
  <2> QED
    BY <2>1, WiredOK DEF NameNewAgent, RoomsOK, senderFlow
<1>23. CASE \E a \in Agents : \E c \in Channels : OperatorWires(c, a)
  BY <1>23 DEF OperatorWires, RoomsOK, RoutesOK, CardsOK, Pair, channelFlow, senderFlow
<1>24. CASE HostRestart
  BY <1>24 DEF HostRestart, RoomsOK, RoutesOK, CardsOK, Pair, channelFlow, senderFlow
<1>25. CASE UNCHANGED vars
  BY <1>25 DEF vars, RoomsOK, RoutesOK, CardsOK, Pair, channelFlow, senderFlow
<1> QED
  BY <1>1, <1>2, <1>3, <1>4, <1>5, <1>6, <1>7, <1>8, <1>9, <1>10, <1>11, <1>12, <1>13, <1>14, <1>15, <1>16, <1>17, <1>18, <1>19, <1>20, <1>21, <1>22, <1>23, <1>24, <1>25 DEF Next

LEMMA RoutesStay ==
    ASSUME RoomsOK, RoutesOK, CardsOK, [Next]_vars
    PROVE  RoutesOK'
<1> USE AdmissionAssumption
<1>1. CASE \E m \in Messages : ArriveUnwired(m)
  BY <1>1 DEF ArriveUnwired, Arrives, RoutesOK, RoomsOK, CardsOK, Pair, Wired, channelFlow, senderFlow
<1>2. CASE \E m \in Messages : ArriveWired(m)
  BY <1>2 DEF ArriveWired, Arrives, RoutesOK, RoomsOK, CardsOK, Pair, Wired, channelFlow, senderFlow
<1>3. CASE \E m \in Messages : AskInVain(m)
  BY <1>3 DEF AskInVain, RoutesOK, RoomsOK, CardsOK, Pair, Wired, channelFlow, senderFlow
<1>4. CASE \E m \in Messages : Ask(m)
  BY <1>4 DEF Ask, RoutesOK, RoomsOK, CardsOK, Pair, Wired, channelFlow, senderFlow
<1>5. CASE \E m \in Messages, a \in Agents : RouteRefused(m, a)
  BY <1>5 DEF RouteRefused, RoutesOK, RoomsOK, CardsOK, Pair, Wired, channelFlow, senderFlow
<1>6. CASE \E m \in Messages, a \in Agents : RouteIgnored(m, a)
  BY <1>6 DEF RouteIgnored, RoutesOK, RoomsOK, CardsOK, Pair, Wired, channelFlow, senderFlow
<1>7. CASE \E m \in Messages, a \in Agents : RouteStored(m, a)
  BY <1>7 DEF RouteStored, RoutesOK, RoomsOK, CardsOK, Pair, Wired, channelFlow, senderFlow
<1>8. CASE \E m \in Messages, a \in Agents : KnockInVain(m, a)
  BY <1>8 DEF KnockInVain, RoutesOK, RoomsOK, CardsOK, Pair, Wired, channelFlow, senderFlow
<1>9. CASE \E m \in Messages, a \in Agents : Knock(m, a)
  BY <1>9 DEF Knock, RoutesOK, RoomsOK, CardsOK, Pair, Wired, channelFlow, senderFlow
<1>10. CASE \E m \in Messages, a \in Agents : Approve(m, a)
  BY <1>10 DEF Approve, RoutesOK, RoomsOK, CardsOK, Pair, Wired, channelFlow, senderFlow
<1>11. CASE \E m \in Messages, a \in Agents : Deny(m, a)
  BY <1>11 DEF Deny, RoutesOK, RoomsOK, CardsOK, Pair, Wired, channelFlow, senderFlow
<1>12. CASE \E c \in Channels : Post(c)
  BY <1>12 DEF Post, RoutesOK, RoomsOK, CardsOK, Pair, Wired, channelFlow, senderFlow
<1>13. CASE \E c \in Channels : \E choice \in card[c] : Click(c, choice)
  BY <1>13 DEF Click, RoutesOK, RoomsOK, CardsOK, Pair, Wired, channelFlow, senderFlow
<1>14. CASE \E f \in flights : ClickIgnored(f)
  BY <1>14 DEF ClickIgnored, Clicked, Ends, RoutesOK, RoomsOK, CardsOK, Pair, Wired, channelFlow, senderFlow
<1>15. CASE \E f \in flights : Reject(f)
  BY <1>15 DEF Reject, Clicked, Ends, RoutesOK, RoomsOK, CardsOK, Pair, Wired, channelFlow, senderFlow
<1>16. CASE \E f \in flights : ConnectAgent(f)
  <2> PICK f \in flights : ConnectAgent(f)
    BY <1>16
  <2>1. WireApproved(f.channel, f.choice.agent) /\ f.channel \in Channels /\ f.choice.agent \in Agents
    BY ConnectNames DEF ConnectAgent
  <2> QED
    BY <2>1, WiredOK DEF ConnectAgent, Clicked, Ends, RoutesOK, senderFlow
<1>17. CASE \E f \in flights : ConnectAgain(f)
  BY <1>17 DEF ConnectAgain, Clicked, Ends, RoutesOK, RoomsOK, CardsOK, Pair, Wired, channelFlow, senderFlow
<1>18. CASE \E f \in flights : ClickAwaitsDm(f)
  BY <1>18 DEF ClickAwaitsDm, Clicked, RoutesOK, RoomsOK, CardsOK, Pair, Wired, channelFlow, senderFlow
<1>19. CASE \E f \in flights : ChooseExisting(f)
  BY <1>19 DEF ChooseExisting, Ends, RoutesOK, RoomsOK, CardsOK, Pair, Wired, channelFlow, senderFlow
<1>20. CASE \E f \in flights : PromptForName(f)
  BY <1>20 DEF PromptForName, Ends, RoutesOK, RoomsOK, CardsOK, Pair, Wired, channelFlow, senderFlow
<1>21. CASE NameIgnored
  BY <1>21 DEF NameIgnored, RoutesOK, RoomsOK, CardsOK, Pair, Wired, channelFlow, senderFlow
<1>22. CASE \E a \in Agents : NameNewAgent(a)
  <2> PICK a \in Agents : NameNewAgent(a)
    BY <1>22
  <2>1. WireApproved(prompt, a) /\ prompt \in Channels
    BY DEF NameNewAgent, CardsOK
  <2> QED
    BY <2>1, WiredOK DEF NameNewAgent, RoutesOK, senderFlow
<1>23. CASE \E a \in Agents : \E c \in Channels : OperatorWires(c, a)
  BY <1>23 DEF OperatorWires, RoutesOK, RoomsOK, CardsOK, Pair, Wired, channelFlow, senderFlow
<1>24. CASE HostRestart
  BY <1>24 DEF HostRestart, RoutesOK, RoomsOK, CardsOK, Pair, Wired, channelFlow, senderFlow
<1>25. CASE UNCHANGED vars
  BY <1>25 DEF vars, RoutesOK, RoomsOK, CardsOK, Pair, Wired, channelFlow, senderFlow
<1> QED
  BY <1>1, <1>2, <1>3, <1>4, <1>5, <1>6, <1>7, <1>8, <1>9, <1>10, <1>11, <1>12, <1>13, <1>14, <1>15, <1>16, <1>17, <1>18, <1>19, <1>20, <1>21, <1>22, <1>23, <1>24, <1>25 DEF Next

LEMMA CardsStay ==
    ASSUME RoomsOK, RoutesOK, CardsOK, [Next]_vars
    PROVE  CardsOK'
<1> USE AdmissionAssumption, ButtonsOK
<1>1. CASE \E m \in Messages : ArriveUnwired(m)
  BY <1>1 DEF ArriveUnwired, Arrives, CardsOK, RoomsOK, channelFlow, senderFlow
<1>2. CASE \E m \in Messages : ArriveWired(m)
  BY <1>2 DEF ArriveWired, Arrives, CardsOK, RoomsOK, channelFlow, senderFlow
<1>3. CASE \E m \in Messages : AskInVain(m)
  BY <1>3 DEF AskInVain, CardsOK, RoomsOK, channelFlow, senderFlow
<1>4. CASE \E m \in Messages : Ask(m)
  BY <1>4 DEF Ask, CardsOK, RoomsOK, channelFlow, senderFlow
<1>5. CASE \E m \in Messages, a \in Agents : RouteRefused(m, a)
  BY <1>5 DEF RouteRefused, CardsOK, RoomsOK, channelFlow, senderFlow
<1>6. CASE \E m \in Messages, a \in Agents : RouteIgnored(m, a)
  BY <1>6 DEF RouteIgnored, CardsOK, RoomsOK, channelFlow, senderFlow
<1>7. CASE \E m \in Messages, a \in Agents : RouteStored(m, a)
  BY <1>7 DEF RouteStored, CardsOK, RoomsOK, channelFlow, senderFlow
<1>8. CASE \E m \in Messages, a \in Agents : KnockInVain(m, a)
  BY <1>8 DEF KnockInVain, CardsOK, RoomsOK, channelFlow, senderFlow
<1>9. CASE \E m \in Messages, a \in Agents : Knock(m, a)
  BY <1>9 DEF Knock, CardsOK, RoomsOK, channelFlow, senderFlow
<1>10. CASE \E m \in Messages, a \in Agents : Approve(m, a)
  BY <1>10 DEF Approve, CardsOK, RoomsOK, channelFlow, senderFlow
<1>11. CASE \E m \in Messages, a \in Agents : Deny(m, a)
  BY <1>11 DEF Deny, CardsOK, RoomsOK, channelFlow, senderFlow
<1>12. CASE \E c \in Channels : Post(c)
  <2> PICK c \in Channels : Post(c)
    BY <1>12
  <2>1. CASE UNCHANGED card
    BY <2>1 DEF Post, CardsOK, senderFlow
  <2>2. CASE UNCHANGED faults
    <3> DEFINE more == IF Cardinality(groups) = 1 THEN {Connect(a) : a \in groups} ELSE {Option("choose")}
    <3>1. more \in SUBSET Choices /\ {Option("new"), Option("reject")} \union more \in SUBSET Choices
      BY DEF RoomsOK
    <3>2. UNCHANGED card \/ card' = [card EXCEPT ![c] = {Option("new"), Option("reject")} \union more]
      BY DEF Post
    <3> HIDE DEF more
    <3>3. card' \in [Channels -> SUBSET Choices]
      BY <3>1, <3>2 DEF CardsOK
    <3> QED
      BY <3>3 DEF Post, CardsOK, senderFlow
  <2> QED
    BY <2>1, <2>2 DEF Post
<1>13. CASE \E c \in Channels : \E choice \in card[c] : Click(c, choice)
  BY <1>13 DEF Click, CardsOK, RoomsOK, channelFlow, senderFlow
<1>14. CASE \E f \in flights : ClickIgnored(f)
  BY <1>14 DEF ClickIgnored, Clicked, Ends, CardsOK, RoomsOK, channelFlow, senderFlow
<1>15. CASE \E f \in flights : Reject(f)
  BY <1>15 DEF Reject, Clicked, Ends, CardsOK, RoomsOK, channelFlow, senderFlow
<1>16. CASE \E f \in flights : ConnectAgent(f)
  <2> PICK f \in flights : ConnectAgent(f)
    BY <1>16
  <2>1. WireApproved(f.channel, f.choice.agent) /\ f.channel \in Channels /\ f.choice.agent \in Agents
    BY ConnectNames DEF ConnectAgent
  <2> QED
    BY <2>1, WiredOK DEF ConnectAgent, Clicked, Ends, CardsOK, senderFlow
<1>17. CASE \E f \in flights : ConnectAgain(f)
  BY <1>17 DEF ConnectAgain, Clicked, Ends, CardsOK, RoomsOK, channelFlow, senderFlow
<1>18. CASE \E f \in flights : ClickAwaitsDm(f)
  <2> PICK f \in flights : ClickAwaitsDm(f)
    BY <1>18
  <2>1. [f EXCEPT !.at = "reaching"] \in [channel: Channels, choice: Choices, at: {"clicked", "reaching"}]
    BY ConnectNames
  <2>2. flights' \subseteq [channel: Channels, choice: Choices, at: {"clicked", "reaching"}]
    BY <2>1 DEF ClickAwaitsDm, CardsOK
  <2>3. card' \in [Channels -> SUBSET Choices]
    BY DEF ClickAwaitsDm, Clicked, CardsOK
  <2> QED
    BY <2>2, <2>3 DEF ClickAwaitsDm, CardsOK, senderFlow
<1>19. CASE \E f \in flights : ChooseExisting(f)
  BY <1>19 DEF ChooseExisting, Ends, CardsOK, RoomsOK, channelFlow, senderFlow
<1>20. CASE \E f \in flights : PromptForName(f)
  BY <1>20 DEF PromptForName, Ends, CardsOK, RoomsOK, channelFlow, senderFlow
<1>21. CASE NameIgnored
  BY <1>21 DEF NameIgnored, CardsOK, RoomsOK, channelFlow, senderFlow
<1>22. CASE \E a \in Agents : NameNewAgent(a)
  <2> PICK a \in Agents : NameNewAgent(a)
    BY <1>22
  <2>1. WireApproved(prompt, a) /\ prompt \in Channels
    BY DEF NameNewAgent, CardsOK
  <2> QED
    BY <2>1, WiredOK DEF NameNewAgent, CardsOK, senderFlow
<1>23. CASE \E a \in Agents : \E c \in Channels : OperatorWires(c, a)
  BY <1>23 DEF OperatorWires, CardsOK, RoomsOK, channelFlow, senderFlow
<1>24. CASE HostRestart
  BY <1>24 DEF HostRestart, CardsOK, RoomsOK, channelFlow, senderFlow
<1>25. CASE UNCHANGED vars
  BY <1>25 DEF vars, CardsOK, RoomsOK, channelFlow, senderFlow
<1> QED
  BY <1>1, <1>2, <1>3, <1>4, <1>5, <1>6, <1>7, <1>8, <1>9, <1>10, <1>11, <1>12, <1>13, <1>14, <1>15, <1>16, <1>17, <1>18, <1>19, <1>20, <1>21, <1>22, <1>23, <1>24, <1>25 DEF Next

LEMMA CountersStay ==
    ASSUME CountersOK, [Next]_vars
    PROVE  CountersOK'
<1> USE AdmissionAssumption
<1>1. CASE \E m \in Messages : ArriveUnwired(m)
  BY <1>1 DEF ArriveUnwired, Arrives, CountersOK, Fault, channelFlow, senderFlow
<1>2. CASE \E m \in Messages : ArriveWired(m)
  BY <1>2 DEF ArriveWired, Arrives, CountersOK, Fault, channelFlow, senderFlow
<1>3. CASE \E m \in Messages : AskInVain(m)
  BY <1>3 DEF AskInVain, CountersOK, Fault, channelFlow, senderFlow
<1>4. CASE \E m \in Messages : Ask(m)
  BY <1>4 DEF Ask, CountersOK, Fault, channelFlow, senderFlow
<1>5. CASE \E m \in Messages, a \in Agents : RouteRefused(m, a)
  BY <1>5 DEF RouteRefused, CountersOK, Fault, channelFlow, senderFlow
<1>6. CASE \E m \in Messages, a \in Agents : RouteIgnored(m, a)
  BY <1>6 DEF RouteIgnored, CountersOK, Fault, channelFlow, senderFlow
<1>7. CASE \E m \in Messages, a \in Agents : RouteStored(m, a)
  BY <1>7 DEF RouteStored, CountersOK, Fault, channelFlow, senderFlow
<1>8. CASE \E m \in Messages, a \in Agents : KnockInVain(m, a)
  BY <1>8 DEF KnockInVain, CountersOK, Fault, channelFlow, senderFlow
<1>9. CASE \E m \in Messages, a \in Agents : Knock(m, a)
  BY <1>9 DEF Knock, CountersOK, Fault, channelFlow, senderFlow
<1>10. CASE \E m \in Messages, a \in Agents : Approve(m, a)
  BY <1>10 DEF Approve, CountersOK, Fault, channelFlow, senderFlow
<1>11. CASE \E m \in Messages, a \in Agents : Deny(m, a)
  BY <1>11 DEF Deny, CountersOK, Fault, channelFlow, senderFlow
<1>12. CASE \E c \in Channels : Post(c)
  BY <1>12 DEF Post, CountersOK, Fault, channelFlow, senderFlow
<1>13. CASE \E c \in Channels : \E choice \in card[c] : Click(c, choice)
  BY <1>13 DEF Click, CountersOK, Fault, channelFlow, senderFlow
<1>14. CASE \E f \in flights : ClickIgnored(f)
  BY <1>14 DEF ClickIgnored, Clicked, Ends, CountersOK, Fault, channelFlow, senderFlow
<1>15. CASE \E f \in flights : Reject(f)
  BY <1>15 DEF Reject, Clicked, Ends, CountersOK, Fault, channelFlow, senderFlow
<1>16. CASE \E f \in flights : ConnectAgent(f)
  BY <1>16 DEF ConnectAgent, WireApproved, Clicked, Ends, CountersOK, Fault, channelFlow, senderFlow
<1>17. CASE \E f \in flights : ConnectAgain(f)
  BY <1>17 DEF ConnectAgain, Clicked, Ends, CountersOK, Fault, channelFlow, senderFlow
<1>18. CASE \E f \in flights : ClickAwaitsDm(f)
  BY <1>18 DEF ClickAwaitsDm, Clicked, CountersOK, Fault, channelFlow, senderFlow
<1>19. CASE \E f \in flights : ChooseExisting(f)
  BY <1>19 DEF ChooseExisting, Ends, CountersOK, Fault, channelFlow, senderFlow
<1>20. CASE \E f \in flights : PromptForName(f)
  BY <1>20 DEF PromptForName, Ends, CountersOK, Fault, channelFlow, senderFlow
<1>21. CASE NameIgnored
  BY <1>21 DEF NameIgnored, CountersOK, Fault, channelFlow, senderFlow
<1>22. CASE \E a \in Agents : NameNewAgent(a)
  BY <1>22 DEF NameNewAgent, WireApproved, CountersOK, Fault, channelFlow, senderFlow
<1>23. CASE \E a \in Agents : \E c \in Channels : OperatorWires(c, a)
  BY <1>23 DEF OperatorWires, CountersOK, Fault, channelFlow, senderFlow
<1>24. CASE HostRestart
  BY <1>24 DEF HostRestart, CountersOK, Fault, channelFlow, senderFlow
<1>25. CASE UNCHANGED vars
  BY <1>25 DEF vars, CountersOK, Fault, channelFlow, senderFlow
<1> QED
  BY <1>1, <1>2, <1>3, <1>4, <1>5, <1>6, <1>7, <1>8, <1>9, <1>10, <1>11, <1>12, <1>13, <1>14, <1>15, <1>16, <1>17, <1>18, <1>19, <1>20, <1>21, <1>22, <1>23, <1>24, <1>25 DEF Next

\* What is only ever added to.
LEMMA Grows ==
    ASSUME TypeOK, [Next]_vars
    PROVE  /\ owed \subseteq owed' /\ sessions \subseteq sessions'
           /\ displaced \subseteq displaced'
           /\ faults' \in Nat /\ faults <= faults'
           /\ \A c \in Channels, a \in Agents :
                  wiring[c][a] # "none" => wiring'[c][a] = wiring[c][a]
<1>1. CASE \E m \in Messages : ArriveUnwired(m)
  BY <1>1 DEF ArriveUnwired, Arrives, channelFlow, senderFlow, Fault, TypeOK
<1>2. CASE \E m \in Messages : ArriveWired(m)
  BY <1>2 DEF ArriveWired, Arrives, channelFlow, senderFlow, Fault, TypeOK
<1>3. CASE \E m \in Messages : AskInVain(m)
  BY <1>3 DEF AskInVain, channelFlow, senderFlow, Fault, TypeOK
<1>4. CASE \E m \in Messages : Ask(m)
  BY <1>4 DEF Ask, channelFlow, senderFlow, Fault, TypeOK
<1>5. CASE \E m \in Messages, a \in Agents : RouteRefused(m, a)
  BY <1>5 DEF RouteRefused, channelFlow, senderFlow, Fault, TypeOK
<1>6. CASE \E m \in Messages, a \in Agents : RouteIgnored(m, a)
  BY <1>6 DEF RouteIgnored, channelFlow, senderFlow, Fault, TypeOK
<1>7. CASE \E m \in Messages, a \in Agents : RouteStored(m, a)
  BY <1>7 DEF RouteStored, channelFlow, senderFlow, Fault, TypeOK
<1>8. CASE \E m \in Messages, a \in Agents : KnockInVain(m, a)
  BY <1>8 DEF KnockInVain, channelFlow, senderFlow, Fault, TypeOK
<1>9. CASE \E m \in Messages, a \in Agents : Knock(m, a)
  BY <1>9 DEF Knock, channelFlow, senderFlow, Fault, TypeOK
<1>10. CASE \E m \in Messages, a \in Agents : Approve(m, a)
  BY <1>10 DEF Approve, channelFlow, senderFlow, Fault, TypeOK
<1>11. CASE \E m \in Messages, a \in Agents : Deny(m, a)
  BY <1>11 DEF Deny, channelFlow, senderFlow, Fault, TypeOK
<1>12. CASE \E c \in Channels : Post(c)
  BY <1>12 DEF Post, channelFlow, senderFlow, Fault, TypeOK
<1>13. CASE \E c \in Channels : \E choice \in card[c] : Click(c, choice)
  BY <1>13 DEF Click, channelFlow, senderFlow, Fault, TypeOK
<1>14. CASE \E f \in flights : ClickIgnored(f)
  BY <1>14 DEF ClickIgnored, Clicked, Ends, channelFlow, senderFlow, Fault, TypeOK
<1>15. CASE \E f \in flights : Reject(f)
  BY <1>15 DEF Reject, Clicked, Ends, channelFlow, senderFlow, Fault, TypeOK
<1>16. CASE \E f \in flights : ConnectAgent(f)
  BY <1>16 DEF ConnectAgent, WireApproved, Clicked, Ends, channelFlow, senderFlow, Fault, TypeOK
<1>17. CASE \E f \in flights : ConnectAgain(f)
  BY <1>17 DEF ConnectAgain, Clicked, Ends, channelFlow, senderFlow, Fault, TypeOK
<1>18. CASE \E f \in flights : ClickAwaitsDm(f)
  BY <1>18 DEF ClickAwaitsDm, Clicked, channelFlow, senderFlow, Fault, TypeOK
<1>19. CASE \E f \in flights : ChooseExisting(f)
  BY <1>19 DEF ChooseExisting, Ends, channelFlow, senderFlow, Fault, TypeOK
<1>20. CASE \E f \in flights : PromptForName(f)
  BY <1>20 DEF PromptForName, Ends, channelFlow, senderFlow, Fault, TypeOK
<1>21. CASE NameIgnored
  BY <1>21 DEF NameIgnored, channelFlow, senderFlow, Fault, TypeOK
<1>22. CASE \E a \in Agents : NameNewAgent(a)
  BY <1>22 DEF NameNewAgent, WireApproved, channelFlow, senderFlow, Fault, TypeOK
<1>23. CASE \E a \in Agents : \E c \in Channels : OperatorWires(c, a)
  BY <1>23 DEF OperatorWires, channelFlow, senderFlow, Fault, TypeOK
<1>24. CASE HostRestart
  BY <1>24 DEF HostRestart, channelFlow, senderFlow, Fault, TypeOK
<1>25. CASE UNCHANGED vars
  BY <1>25 DEF vars, channelFlow, senderFlow, Fault, TypeOK
<1> QED
  BY <1>1, <1>2, <1>3, <1>4, <1>5, <1>6, <1>7, <1>8, <1>9, <1>10, <1>11, <1>12, <1>13, <1>14, <1>15, <1>16, <1>17, <1>18, <1>19, <1>20, <1>21, <1>22, <1>23, <1>24, <1>25 DEF Next

LEMMA KnocksStayOne ==
    ASSUME OneKnock, [Next]_vars
    PROVE  OneKnock'
<1>1. CASE \E m \in Messages : ArriveUnwired(m)
  BY <1>1 DEF ArriveUnwired, Arrives, OneKnock, channelFlow, senderFlow
<1>2. CASE \E m \in Messages : ArriveWired(m)
  BY <1>2 DEF ArriveWired, Arrives, OneKnock, channelFlow, senderFlow
<1>3. CASE \E m \in Messages : AskInVain(m)
  BY <1>3 DEF AskInVain, OneKnock, channelFlow, senderFlow
<1>4. CASE \E m \in Messages : Ask(m)
  BY <1>4 DEF Ask, OneKnock, channelFlow, senderFlow
<1>5. CASE \E m \in Messages, a \in Agents : RouteRefused(m, a)
  BY <1>5 DEF RouteRefused, OneKnock, channelFlow, senderFlow
<1>6. CASE \E m \in Messages, a \in Agents : RouteIgnored(m, a)
  BY <1>6 DEF RouteIgnored, OneKnock, channelFlow, senderFlow
<1>7. CASE \E m \in Messages, a \in Agents : RouteStored(m, a)
  BY <1>7 DEF RouteStored, OneKnock, channelFlow, senderFlow
<1>8. CASE \E m \in Messages, a \in Agents : KnockInVain(m, a)
  BY <1>8 DEF KnockInVain, OneKnock, channelFlow, senderFlow
<1>9. CASE \E m \in Messages, a \in Agents : Knock(m, a)
  BY <1>9 DEF Knock, OneKnock, channelFlow, senderFlow
<1>10. CASE \E m \in Messages, a \in Agents : Approve(m, a)
  BY <1>10 DEF Approve, OneKnock, channelFlow, senderFlow
<1>11. CASE \E m \in Messages, a \in Agents : Deny(m, a)
  BY <1>11 DEF Deny, OneKnock, channelFlow, senderFlow
<1>12. CASE \E c \in Channels : Post(c)
  BY <1>12 DEF Post, OneKnock, channelFlow, senderFlow
<1>13. CASE \E c \in Channels : \E choice \in card[c] : Click(c, choice)
  BY <1>13 DEF Click, OneKnock, channelFlow, senderFlow
<1>14. CASE \E f \in flights : ClickIgnored(f)
  BY <1>14 DEF ClickIgnored, Clicked, Ends, OneKnock, channelFlow, senderFlow
<1>15. CASE \E f \in flights : Reject(f)
  BY <1>15 DEF Reject, Clicked, Ends, OneKnock, channelFlow, senderFlow
<1>16. CASE \E f \in flights : ConnectAgent(f)
  BY <1>16 DEF ConnectAgent, WireApproved, Clicked, Ends, OneKnock, channelFlow, senderFlow
<1>17. CASE \E f \in flights : ConnectAgain(f)
  BY <1>17 DEF ConnectAgain, Clicked, Ends, OneKnock, channelFlow, senderFlow
<1>18. CASE \E f \in flights : ClickAwaitsDm(f)
  BY <1>18 DEF ClickAwaitsDm, Clicked, OneKnock, channelFlow, senderFlow
<1>19. CASE \E f \in flights : ChooseExisting(f)
  BY <1>19 DEF ChooseExisting, Ends, OneKnock, channelFlow, senderFlow
<1>20. CASE \E f \in flights : PromptForName(f)
  BY <1>20 DEF PromptForName, Ends, OneKnock, channelFlow, senderFlow
<1>21. CASE NameIgnored
  BY <1>21 DEF NameIgnored, OneKnock, channelFlow, senderFlow
<1>22. CASE \E a \in Agents : NameNewAgent(a)
  BY <1>22 DEF NameNewAgent, WireApproved, OneKnock, channelFlow, senderFlow
<1>23. CASE \E a \in Agents : \E c \in Channels : OperatorWires(c, a)
  BY <1>23 DEF OperatorWires, OneKnock, channelFlow, senderFlow
<1>24. CASE HostRestart
  BY <1>24 DEF HostRestart, OneKnock, channelFlow, senderFlow
<1>25. CASE UNCHANGED vars
  BY <1>25 DEF vars, OneKnock, channelFlow, senderFlow
<1> QED
  BY <1>1, <1>2, <1>3, <1>4, <1>5, <1>6, <1>7, <1>8, <1>9, <1>10, <1>11, <1>12, <1>13, <1>14, <1>15, <1>16, <1>17, <1>18, <1>19, <1>20, <1>21, <1>22, <1>23, <1>24, <1>25 DEF Next

\* A wiring admits no one whose message it does not replay.
LEMMA OwedByWiring ==
    ASSUME RoomsOK, RoutesOK, CardsOK, MembersOwed, NEW c \in Channels, NEW a \in Agents, WireApproved(c, a)
    PROVE  MembersOwed'
<1>1. row[c] \in Messages
  BY DEF WireApproved, CardsOK
<1> SUFFICES ASSUME NEW s \in Senders, NEW b \in Agents, <<s, b>> \in members'
             PROVE  \E m \in Messages : SenderOf[m] = s /\ <<m, b>> \in owed'
  BY DEF MembersOwed
<1>2. owed \subseteq owed'
  BY DEF WireApproved
<1>3. CASE <<s, b>> \in members
  BY <1>2, <1>3 DEF MembersOwed
<1>4. CASE <<s, b>> \notin members
  <2>1. s = SenderOf[row[c]] /\ b = a /\ s \notin Anonymous
    BY <1>4 DEF WireApproved
  <2>2. <<row[c], a>> \in owed'
    BY <2>1 DEF WireApproved
  <2> QED
    BY <1>1, <2>1, <2>2
<1> QED
  BY <1>3, <1>4

LEMMA MembersStayOwed ==
    ASSUME RoomsOK, RoutesOK, CardsOK, MembersOwed, [Next]_vars
    PROVE  MembersOwed'
<1>1. CASE \E m \in Messages : ArriveUnwired(m)
  BY <1>1 DEF ArriveUnwired, Arrives, MembersOwed, channelFlow, senderFlow
<1>2. CASE \E m \in Messages : ArriveWired(m)
  BY <1>2 DEF ArriveWired, Arrives, MembersOwed, channelFlow, senderFlow
<1>3. CASE \E m \in Messages : AskInVain(m)
  BY <1>3 DEF AskInVain, MembersOwed, channelFlow, senderFlow
<1>4. CASE \E m \in Messages : Ask(m)
  BY <1>4 DEF Ask, MembersOwed, channelFlow, senderFlow
<1>5. CASE \E m \in Messages, a \in Agents : RouteRefused(m, a)
  BY <1>5 DEF RouteRefused, MembersOwed, channelFlow, senderFlow
<1>6. CASE \E m \in Messages, a \in Agents : RouteIgnored(m, a)
  BY <1>6 DEF RouteIgnored, MembersOwed, channelFlow, senderFlow
<1>7. CASE \E m \in Messages, a \in Agents : RouteStored(m, a)
  BY <1>7 DEF RouteStored, MembersOwed, channelFlow, senderFlow
<1>8. CASE \E m \in Messages, a \in Agents : KnockInVain(m, a)
  BY <1>8 DEF KnockInVain, MembersOwed, channelFlow, senderFlow
<1>9. CASE \E m \in Messages, a \in Agents : Knock(m, a)
  BY <1>9 DEF Knock, MembersOwed, channelFlow, senderFlow
<1>10. CASE \E m \in Messages, a \in Agents : Approve(m, a)
  <2> PICK m \in Messages, a \in Agents : Approve(m, a)
    BY <1>10
  <2> QED
    BY DEF Approve, MembersOwed
<1>11. CASE \E m \in Messages, a \in Agents : Deny(m, a)
  BY <1>11 DEF Deny, MembersOwed, channelFlow, senderFlow
<1>12. CASE \E c \in Channels : Post(c)
  BY <1>12 DEF Post, MembersOwed, channelFlow, senderFlow
<1>13. CASE \E c \in Channels : \E choice \in card[c] : Click(c, choice)
  BY <1>13 DEF Click, MembersOwed, channelFlow, senderFlow
<1>14. CASE \E f \in flights : ClickIgnored(f)
  BY <1>14 DEF ClickIgnored, Clicked, Ends, MembersOwed, channelFlow, senderFlow
<1>15. CASE \E f \in flights : Reject(f)
  BY <1>15 DEF Reject, Clicked, Ends, MembersOwed, channelFlow, senderFlow
<1>16. CASE \E f \in flights : ConnectAgent(f)
  <2> PICK f \in flights : ConnectAgent(f)
    BY <1>16
  <2>1. WireApproved(f.channel, f.choice.agent) /\ f.channel \in Channels /\ f.choice.agent \in Agents
    BY ConnectNames DEF ConnectAgent
  <2> QED
    BY <2>1, OwedByWiring
<1>17. CASE \E f \in flights : ConnectAgain(f)
  BY <1>17 DEF ConnectAgain, Clicked, Ends, MembersOwed, channelFlow, senderFlow
<1>18. CASE \E f \in flights : ClickAwaitsDm(f)
  BY <1>18 DEF ClickAwaitsDm, Clicked, MembersOwed, channelFlow, senderFlow
<1>19. CASE \E f \in flights : ChooseExisting(f)
  BY <1>19 DEF ChooseExisting, Ends, MembersOwed, channelFlow, senderFlow
<1>20. CASE \E f \in flights : PromptForName(f)
  BY <1>20 DEF PromptForName, Ends, MembersOwed, channelFlow, senderFlow
<1>21. CASE NameIgnored
  BY <1>21 DEF NameIgnored, MembersOwed, channelFlow, senderFlow
<1>22. CASE \E a \in Agents : NameNewAgent(a)
  <2> PICK a \in Agents : NameNewAgent(a)
    BY <1>22
  <2>1. WireApproved(prompt, a) /\ prompt \in Channels
    BY DEF NameNewAgent, CardsOK
  <2> QED
    BY <2>1, OwedByWiring
<1>23. CASE \E a \in Agents : \E c \in Channels : OperatorWires(c, a)
  BY <1>23 DEF OperatorWires, MembersOwed, channelFlow, senderFlow
<1>24. CASE HostRestart
  BY <1>24 DEF HostRestart, MembersOwed, channelFlow, senderFlow
<1>25. CASE UNCHANGED vars
  BY <1>25 DEF vars, MembersOwed, channelFlow, senderFlow
<1> QED
  BY <1>1, <1>2, <1>3, <1>4, <1>5, <1>6, <1>7, <1>8, <1>9, <1>10, <1>11, <1>12, <1>13, <1>14, <1>15, <1>16, <1>17, <1>18, <1>19, <1>20, <1>21, <1>22, <1>23, <1>24, <1>25 DEF Next

\* What keeps a pending row decidable.
Answerable(c) ==
    \/ card[c] # {} \/ c \in posting \/ prompt = c \/ c \in displaced
    \/ \E f \in flights : f.channel = c
    \/ Wired(c) # {}

\* A request for a channel does not get out of the approver's sight.
LEMMA DecidableStays ==
    ASSUME TypeOK, Decidable, [Next]_vars
    PROVE  Decidable'
<1> SUFFICES ASSUME faults' = 0, NEW c \in Channels, row'[c] # NoMessage
             PROVE  Answerable(c)'
  BY DEF Decidable, Answerable
<1>t. CardsOK /\ faults \in 0..MaxFaults
  BY Parts DEF CountersOK
<1>a. faults = 0 /\ faults' # faults + 1
  BY <1>t, Grows
<1>b. row[c] # NoMessage => Answerable(c)
  BY <1>a DEF Decidable, Answerable
<1>w. (Wired(c) # {} => Wired(c)' # {}) /\ displaced \subseteq displaced'
  BY Grows DEF Wired
<1>1. CASE \E m \in Messages : ArriveUnwired(m)
  BY <1>b, <1>w, <1>1 DEF ArriveUnwired, Answerable, channelFlow
<1>2. CASE \E m \in Messages : ArriveWired(m)
  BY <1>b, <1>w, <1>2 DEF ArriveWired, Answerable, channelFlow
<1>3. CASE \E m \in Messages : AskInVain(m)
  BY <1>b, <1>w, <1>3 DEF AskInVain, Answerable, channelFlow
<1>4. CASE \E m \in Messages : Ask(m)
  <2> PICK m \in Messages : Ask(m)
    BY <1>4
  <2>1. row'[c] = row[c] \/ c \in posting'
    BY <1>t, AdmissionAssumption DEF Ask, CardsOK
  <2> QED
    BY <1>b, <1>w, <2>1 DEF Ask, Answerable
<1>5. CASE \E m \in Messages, a \in Agents : RouteRefused(m, a)
  BY <1>b, <1>w, <1>5 DEF RouteRefused, Answerable, channelFlow
<1>6. CASE \E m \in Messages, a \in Agents : RouteIgnored(m, a)
  BY <1>b, <1>w, <1>6 DEF RouteIgnored, Answerable, channelFlow
<1>7. CASE \E m \in Messages, a \in Agents : RouteStored(m, a)
  BY <1>b, <1>w, <1>7 DEF RouteStored, Answerable, channelFlow
<1>8. CASE \E m \in Messages, a \in Agents : KnockInVain(m, a)
  BY <1>b, <1>w, <1>8 DEF KnockInVain, Answerable, channelFlow
<1>9. CASE \E m \in Messages, a \in Agents : Knock(m, a)
  BY <1>b, <1>w, <1>9 DEF Knock, Answerable, channelFlow
<1>10. CASE \E m \in Messages, a \in Agents : Approve(m, a)
  BY <1>b, <1>w, <1>10 DEF Approve, Answerable, channelFlow
<1>11. CASE \E m \in Messages, a \in Agents : Deny(m, a)
  BY <1>b, <1>w, <1>11 DEF Deny, Answerable, channelFlow
<1>12. CASE \E d \in Channels : Post(d)
  <2> PICK d \in Channels : Post(d)
    BY <1>12
  <2>2. \A e \in Channels \ {d} : card'[e] = card[e]
    BY <1>t DEF Post, CardsOK
  <2>3. faults' = faults
    BY <1>a
  <2>4. card'[d] # {}
    BY <1>t, <2>3, <1>a DEF Post, Fault, CardsOK
  <2> QED
    BY <1>b, <1>w, <2>2, <2>4 DEF Post, Answerable, senderFlow
<1>13. CASE \E d \in Channels : \E choice \in card[d] : Click(d, choice)
  BY <1>b, <1>w, <1>13 DEF Click, Answerable, senderFlow
<1>14. CASE \E f \in flights : ClickIgnored(f)
  <2> PICK f \in flights : ClickIgnored(f)
    BY <1>14
  <2>1. f.channel \in Channels
    BY <1>t, ConnectNames
  <2>2. \A e \in Channels \ {f.channel} : card'[e] = card[e]
    BY <1>t DEF ClickIgnored, Clicked, CardsOK
  <2>3. CASE c # f.channel
    <3>1. row[c] # NoMessage
      BY <1>t, <2>1, <2>3 DEF ClickIgnored, CardsOK
    <3>2. (\E g \in flights : g.channel = c) => \E g \in flights' : g.channel = c
      BY <2>3 DEF ClickIgnored, Ends
    <3> QED
      BY <1>b, <1>w, <2>2, <2>3, <3>1, <3>2 DEF ClickIgnored, Answerable
  <2>4. CASE c = f.channel
    BY <1>t, <1>a, <1>b, <1>w, <2>1, <2>4, ConnectNames DEF ClickIgnored, Clicked, Answerable, CardsOK, Fault
  <2> QED
    BY <2>3, <2>4
<1>15. CASE \E f \in flights : Reject(f)
  <2> PICK f \in flights : Reject(f)
    BY <1>15
  <2>1. f.channel \in Channels
    BY <1>t, ConnectNames
  <2>2. \A e \in Channels \ {f.channel} : card'[e] = card[e]
    BY <1>t DEF Reject, Clicked, CardsOK
  <2>3. CASE c # f.channel
    <3>1. row[c] # NoMessage
      BY <1>t, <2>1, <2>3 DEF Reject, CardsOK
    <3>2. (\E g \in flights : g.channel = c) => \E g \in flights' : g.channel = c
      BY <2>3 DEF Reject, Ends
    <3> QED
      BY <1>b, <1>w, <2>2, <2>3, <3>1, <3>2 DEF Reject, Answerable
  <2>4. CASE c = f.channel
    BY <1>t, <1>a, <1>b, <1>w, <2>1, <2>4, ConnectNames DEF Reject, Clicked, Answerable, CardsOK
  <2> QED
    BY <2>3, <2>4
<1>16. CASE \E f \in flights : ConnectAgent(f)
  <2> PICK f \in flights : ConnectAgent(f)
    BY <1>16
  <2>1. f.channel \in Channels /\ f.choice.agent \in Agents
    BY <1>t, ConnectNames DEF ConnectAgent
  <2>2. row' = [row EXCEPT ![f.channel] = NoMessage]
    BY DEF ConnectAgent, WireApproved
  <2>3. c # f.channel /\ row[c] # NoMessage
    BY <1>t, <2>1, <2>2 DEF CardsOK
  <2>4. card'[c] = card[c]
    BY <1>t, <2>3 DEF ConnectAgent, Clicked, CardsOK
  <2>5. (\E g \in flights : g.channel = c) => \E g \in flights' : g.channel = c
    BY <2>3 DEF ConnectAgent, Ends
  <2> QED
    BY <1>b, <1>w, <2>3, <2>4, <2>5 DEF ConnectAgent, Answerable
<1>17. CASE \E f \in flights : ConnectAgain(f)
  <2> PICK f \in flights : ConnectAgain(f)
    BY <1>17
  <2>1. f.channel \in Channels
    BY <1>t, ConnectNames
  <2>2. \A e \in Channels \ {f.channel} : card'[e] = card[e]
    BY <1>t DEF ConnectAgain, Clicked, CardsOK
  <2>3. CASE c # f.channel
    <3>1. row[c] # NoMessage
      BY <1>t, <2>1, <2>3 DEF ConnectAgain, CardsOK
    <3>2. (\E g \in flights : g.channel = c) => \E g \in flights' : g.channel = c
      BY <2>3 DEF ConnectAgain, Ends
    <3> QED
      BY <1>b, <1>w, <2>2, <2>3, <3>1, <3>2 DEF ConnectAgain, Answerable
  <2>4. CASE c = f.channel
    BY <1>t, <1>a, <1>b, <1>w, <2>1, <2>4, ConnectNames DEF ConnectAgain, Clicked, Answerable, CardsOK, Wired
  <2> QED
    BY <2>3, <2>4
<1>18. CASE \E f \in flights : ClickAwaitsDm(f)
  <2> PICK f \in flights : ClickAwaitsDm(f)
    BY <1>18
  <2>1. f.channel \in Channels
    BY <1>t, ConnectNames
  <2>2. \A e \in Channels \ {f.channel} : card'[e] = card[e]
    BY <1>t DEF ClickAwaitsDm, Clicked, CardsOK
  <2>3. CASE c # f.channel
    <3>1. row[c] # NoMessage
      BY <1>t, <2>1, <2>3 DEF ClickAwaitsDm, CardsOK
    <3>2. (\E g \in flights : g.channel = c) => \E g \in flights' : g.channel = c
      BY <2>3 DEF ClickAwaitsDm, Ends
    <3> QED
      BY <1>b, <1>w, <2>2, <2>3, <3>1, <3>2 DEF ClickAwaitsDm, Answerable
  <2>4. CASE c = f.channel
    <3>1. [f EXCEPT !.at = "reaching"] \in flights' /\ [f EXCEPT !.at = "reaching"].channel = c
      BY <1>t, <2>4, ConnectNames DEF ClickAwaitsDm
    <3> QED
      BY <3>1 DEF Answerable
  <2> QED
    BY <2>3, <2>4
<1>19. CASE \E f \in flights : ChooseExisting(f)
  <2> PICK f \in flights : ChooseExisting(f)
    BY <1>19
  <2>1. f.channel \in Channels
    BY <1>t, ConnectNames
  <2>2. card'[f.channel] # {} /\ \A e \in Channels \ {f.channel} : card'[e] = card[e]
    BY <1>t, <1>a, <2>1 DEF ChooseExisting, CardsOK, Fault
  <2>3. row' = row /\ posting' = posting /\ prompt' = prompt /\ flights' = flights \ {f}
    BY DEF ChooseExisting, Ends
  <2> QED
    BY <1>b, <1>w, <2>2, <2>3 DEF Answerable
<1>20. CASE \E f \in flights : PromptForName(f)
  <2> PICK f \in flights : PromptForName(f)
    BY <1>20
  <2>1. f.channel \in Channels
    BY <1>t, ConnectNames
  <2>2. prompt' = f.channel /\ (prompt \in {NoChannel, f.channel} \/ prompt \in displaced')
    BY <1>a DEF PromptForName, Fault
  <2>3. row' = row /\ card' = card /\ posting' = posting /\ flights' = flights \ {f}
    BY DEF PromptForName, Ends
  <2> QED
    BY <1>b, <1>w, <2>1, <2>2, <2>3, AdmissionAssumption DEF Answerable
<1>21. CASE NameIgnored
  BY <1>b, <1>w, <1>21 DEF NameIgnored, Answerable, senderFlow
<1>22. CASE \E a \in Agents : NameNewAgent(a)
  <2> PICK a \in Agents : NameNewAgent(a)
    BY <1>22
  <2>1. row' = [row EXCEPT ![prompt] = NoMessage] /\ prompt \in Channels
    BY <1>t DEF NameNewAgent, WireApproved, CardsOK
  <2>2. c # prompt /\ row[c] # NoMessage
    BY <1>t, <2>1 DEF CardsOK
  <2> QED
    BY <1>b, <1>w, <2>2 DEF NameNewAgent, Answerable
<1>23. CASE \E a \in Agents : \E d \in Channels : OperatorWires(d, a)
  BY <1>b, <1>w, <1>23 DEF OperatorWires, Answerable, channelFlow
<1>24. CASE HostRestart
  BY <1>a, <1>24 DEF HostRestart, Fault
<1>25. CASE UNCHANGED vars
  BY <1>b, <1>25 DEF Answerable, Wired, vars, channelFlow
<1> QED
  BY <1>1, <1>2, <1>3, <1>4, <1>5, <1>6, <1>7, <1>8, <1>9, <1>10, <1>11, <1>12, <1>13, <1>14, <1>15, <1>16, <1>17, <1>18, <1>19, <1>20, <1>21, <1>22, <1>23, <1>24, <1>25 DEF Next

\* The row of a chat keeps a message of that chat.
LEMMA RowsMatch ==
    ASSUME CardsOK, \A c \in Channels : row[c] # NoMessage => ChannelOf[row[c]] = c, [Next]_vars
    PROVE  \A c \in Channels : row'[c] # NoMessage => ChannelOf[row'[c]] = c
<1>1. CASE \E m \in Messages : ArriveUnwired(m)
  BY <1>1 DEF ArriveUnwired, Arrives, CardsOK, channelFlow, senderFlow
<1>2. CASE \E m \in Messages : ArriveWired(m)
  BY <1>2 DEF ArriveWired, Arrives, CardsOK, channelFlow, senderFlow
<1>3. CASE \E m \in Messages : AskInVain(m)
  BY <1>3 DEF AskInVain, CardsOK, channelFlow, senderFlow
<1>4. CASE \E m \in Messages : Ask(m)
  BY <1>4 DEF Ask, CardsOK, channelFlow, senderFlow
<1>5. CASE \E m \in Messages, a \in Agents : RouteRefused(m, a)
  BY <1>5 DEF RouteRefused, CardsOK, channelFlow, senderFlow
<1>6. CASE \E m \in Messages, a \in Agents : RouteIgnored(m, a)
  BY <1>6 DEF RouteIgnored, CardsOK, channelFlow, senderFlow
<1>7. CASE \E m \in Messages, a \in Agents : RouteStored(m, a)
  BY <1>7 DEF RouteStored, CardsOK, channelFlow, senderFlow
<1>8. CASE \E m \in Messages, a \in Agents : KnockInVain(m, a)
  BY <1>8 DEF KnockInVain, CardsOK, channelFlow, senderFlow
<1>9. CASE \E m \in Messages, a \in Agents : Knock(m, a)
  BY <1>9 DEF Knock, CardsOK, channelFlow, senderFlow
<1>10. CASE \E m \in Messages, a \in Agents : Approve(m, a)
  BY <1>10 DEF Approve, CardsOK, channelFlow, senderFlow
<1>11. CASE \E m \in Messages, a \in Agents : Deny(m, a)
  BY <1>11 DEF Deny, CardsOK, channelFlow, senderFlow
<1>12. CASE \E c \in Channels : Post(c)
  BY <1>12 DEF Post, CardsOK, channelFlow, senderFlow
<1>13. CASE \E c \in Channels : \E choice \in card[c] : Click(c, choice)
  BY <1>13 DEF Click, CardsOK, channelFlow, senderFlow
<1>14. CASE \E f \in flights : ClickIgnored(f)
  BY <1>14 DEF ClickIgnored, Clicked, Ends, CardsOK, channelFlow, senderFlow
<1>15. CASE \E f \in flights : Reject(f)
  <2> PICK f \in flights : Reject(f)
    BY <1>15
  <2>1. f.channel \in Channels /\ row' = [row EXCEPT ![f.channel] = NoMessage]
    BY ConnectNames DEF Reject
  <2> QED
    BY <2>1 DEF CardsOK
<1>16. CASE \E f \in flights : ConnectAgent(f)
  <2> PICK f \in flights : ConnectAgent(f)
    BY <1>16
  <2>1. f.channel \in Channels /\ row' = [row EXCEPT ![f.channel] = NoMessage]
    BY ConnectNames DEF ConnectAgent, WireApproved
  <2> QED
    BY <2>1 DEF CardsOK
<1>17. CASE \E f \in flights : ConnectAgain(f)
  BY <1>17 DEF ConnectAgain, Clicked, Ends, CardsOK, channelFlow, senderFlow
<1>18. CASE \E f \in flights : ClickAwaitsDm(f)
  BY <1>18 DEF ClickAwaitsDm, Clicked, CardsOK, channelFlow, senderFlow
<1>19. CASE \E f \in flights : ChooseExisting(f)
  BY <1>19 DEF ChooseExisting, Ends, CardsOK, channelFlow, senderFlow
<1>20. CASE \E f \in flights : PromptForName(f)
  BY <1>20 DEF PromptForName, Ends, CardsOK, channelFlow, senderFlow
<1>21. CASE NameIgnored
  BY <1>21 DEF NameIgnored, CardsOK, channelFlow, senderFlow
<1>22. CASE \E a \in Agents : NameNewAgent(a)
  BY <1>22 DEF NameNewAgent, WireApproved, CardsOK, channelFlow, senderFlow
<1>23. CASE \E a \in Agents : \E c \in Channels : OperatorWires(c, a)
  BY <1>23 DEF OperatorWires, CardsOK, channelFlow, senderFlow
<1>24. CASE HostRestart
  BY <1>24 DEF HostRestart, CardsOK, channelFlow, senderFlow
<1>25. CASE UNCHANGED vars
  BY <1>25 DEF vars, CardsOK, channelFlow, senderFlow
<1> QED
  BY <1>1, <1>2, <1>3, <1>4, <1>5, <1>6, <1>7, <1>8, <1>9, <1>10, <1>11, <1>12, <1>13, <1>14, <1>15, <1>16, <1>17, <1>18, <1>19, <1>20, <1>21, <1>22, <1>23, <1>24, <1>25 DEF Next

LEMMA RoutedByWiring ==
    ASSUME RoomsOK, CardsOK, RefusedIsGated, NEW c \in Channels, NEW a \in Agents, WireApproved(c, a)
    PROVE  \A p \in routing' \ routing : p[2] \in Wired(ChannelOf[p[1]])'
<1>1. ChannelOf[row[c]] = c
  BY DEF RefusedIsGated, WireApproved
<1>2. \A b \in Wired(c) \union {a} : b \in Agents /\ wiring'[c][b] # "none"
  BY DEF WireApproved, RoomsOK, Wired
<1>3. \A p \in routing' \ routing : p[1] = row[c] /\ p[2] \in Wired(c) \union {a}
  BY DEF WireApproved
<1> QED
  BY <1>1, <1>2, <1>3 DEF Wired

\* Only wired agents are routed to.
LEMMA RoutedAreWired ==
    ASSUME RoomsOK, CardsOK, RefusedIsGated, [Next]_vars
    PROVE  \A p \in routing' \ routing : p[2] \in Wired(ChannelOf[p[1]])'
<1>1. CASE \E m \in Messages : ArriveUnwired(m)
  BY <1>1 DEF ArriveUnwired, Arrives, Wired, channelFlow, senderFlow
<1>2. CASE \E m \in Messages : ArriveWired(m)
  BY <1>2 DEF ArriveWired, Arrives, Wired, channelFlow, senderFlow
<1>3. CASE \E m \in Messages : AskInVain(m)
  BY <1>3 DEF AskInVain, Wired, channelFlow, senderFlow
<1>4. CASE \E m \in Messages : Ask(m)
  BY <1>4 DEF Ask, Wired, channelFlow, senderFlow
<1>5. CASE \E m \in Messages, a \in Agents : RouteRefused(m, a)
  BY <1>5 DEF RouteRefused, Wired, channelFlow, senderFlow
<1>6. CASE \E m \in Messages, a \in Agents : RouteIgnored(m, a)
  BY <1>6 DEF RouteIgnored, Wired, channelFlow, senderFlow
<1>7. CASE \E m \in Messages, a \in Agents : RouteStored(m, a)
  BY <1>7 DEF RouteStored, Wired, channelFlow, senderFlow
<1>8. CASE \E m \in Messages, a \in Agents : KnockInVain(m, a)
  BY <1>8 DEF KnockInVain, Wired, channelFlow, senderFlow
<1>9. CASE \E m \in Messages, a \in Agents : Knock(m, a)
  BY <1>9 DEF Knock, Wired, channelFlow, senderFlow
<1>10. CASE \E m \in Messages, a \in Agents : Approve(m, a)
  BY <1>10 DEF Approve, Wired, channelFlow, senderFlow
<1>11. CASE \E m \in Messages, a \in Agents : Deny(m, a)
  BY <1>11 DEF Deny, Wired, channelFlow, senderFlow
<1>12. CASE \E c \in Channels : Post(c)
  BY <1>12 DEF Post, Wired, channelFlow, senderFlow
<1>13. CASE \E c \in Channels : \E choice \in card[c] : Click(c, choice)
  BY <1>13 DEF Click, Wired, channelFlow, senderFlow
<1>14. CASE \E f \in flights : ClickIgnored(f)
  BY <1>14 DEF ClickIgnored, Clicked, Ends, Wired, channelFlow, senderFlow
<1>15. CASE \E f \in flights : Reject(f)
  BY <1>15 DEF Reject, Clicked, Ends, Wired, channelFlow, senderFlow
<1>16. CASE \E f \in flights : ConnectAgent(f)
  <2> PICK f \in flights : ConnectAgent(f)
    BY <1>16
  <2>1. WireApproved(f.channel, f.choice.agent) /\ f.channel \in Channels /\ f.choice.agent \in Agents
    BY ConnectNames DEF ConnectAgent
  <2> QED
    BY <2>1, RoutedByWiring
<1>17. CASE \E f \in flights : ConnectAgain(f)
  BY <1>17 DEF ConnectAgain, Clicked, Ends, Wired, channelFlow, senderFlow
<1>18. CASE \E f \in flights : ClickAwaitsDm(f)
  BY <1>18 DEF ClickAwaitsDm, Clicked, Wired, channelFlow, senderFlow
<1>19. CASE \E f \in flights : ChooseExisting(f)
  BY <1>19 DEF ChooseExisting, Ends, Wired, channelFlow, senderFlow
<1>20. CASE \E f \in flights : PromptForName(f)
  BY <1>20 DEF PromptForName, Ends, Wired, channelFlow, senderFlow
<1>21. CASE NameIgnored
  BY <1>21 DEF NameIgnored, Wired, channelFlow, senderFlow
<1>22. CASE \E a \in Agents : NameNewAgent(a)
  <2> PICK a \in Agents : NameNewAgent(a)
    BY <1>22
  <2>1. WireApproved(prompt, a) /\ prompt \in Channels
    BY DEF NameNewAgent, CardsOK
  <2> QED
    BY <2>1, RoutedByWiring
<1>23. CASE \E a \in Agents : \E c \in Channels : OperatorWires(c, a)
  BY <1>23 DEF OperatorWires, Wired, channelFlow, senderFlow
<1>24. CASE HostRestart
  BY <1>24 DEF HostRestart, Wired, channelFlow, senderFlow
<1>25. CASE UNCHANGED vars
  BY <1>25 DEF vars, Wired, channelFlow, senderFlow
<1> QED
  BY <1>1, <1>2, <1>3, <1>4, <1>5, <1>6, <1>7, <1>8, <1>9, <1>10, <1>11, <1>12, <1>13, <1>14, <1>15, <1>16, <1>17, <1>18, <1>19, <1>20, <1>21, <1>22, <1>23, <1>24, <1>25 DEF Next

LEMMA RefusedBy ==
    ASSUME IInv, [Next]_vars
    PROVE  \A p \in refused' \ refused : p \in routing /\ Refuses(p[1], p[2])
<1>1. CASE \E m \in Messages : ArriveUnwired(m)
  BY <1>1 DEF ArriveUnwired, Arrives, channelFlow, senderFlow
<1>2. CASE \E m \in Messages : ArriveWired(m)
  BY <1>2 DEF ArriveWired, Arrives, channelFlow, senderFlow
<1>3. CASE \E m \in Messages : AskInVain(m)
  BY <1>3 DEF AskInVain, channelFlow, senderFlow
<1>4. CASE \E m \in Messages : Ask(m)
  BY <1>4 DEF Ask, channelFlow, senderFlow
<1>5. CASE \E m \in Messages, a \in Agents : RouteRefused(m, a)
  BY <1>5 DEF RouteRefused, channelFlow, senderFlow
<1>6. CASE \E m \in Messages, a \in Agents : RouteIgnored(m, a)
  BY <1>6 DEF RouteIgnored, channelFlow, senderFlow
<1>7. CASE \E m \in Messages, a \in Agents : RouteStored(m, a)
  BY <1>7 DEF RouteStored, channelFlow, senderFlow
<1>8. CASE \E m \in Messages, a \in Agents : KnockInVain(m, a)
  BY <1>8 DEF KnockInVain, channelFlow, senderFlow
<1>9. CASE \E m \in Messages, a \in Agents : Knock(m, a)
  BY <1>9 DEF Knock, channelFlow, senderFlow
<1>10. CASE \E m \in Messages, a \in Agents : Approve(m, a)
  BY <1>10 DEF Approve, channelFlow, senderFlow
<1>11. CASE \E m \in Messages, a \in Agents : Deny(m, a)
  BY <1>11 DEF Deny, channelFlow, senderFlow
<1>12. CASE \E c \in Channels : Post(c)
  BY <1>12 DEF Post, channelFlow, senderFlow
<1>13. CASE \E c \in Channels : \E choice \in card[c] : Click(c, choice)
  BY <1>13 DEF Click, channelFlow, senderFlow
<1>14. CASE \E f \in flights : ClickIgnored(f)
  BY <1>14 DEF ClickIgnored, Clicked, Ends, channelFlow, senderFlow
<1>15. CASE \E f \in flights : Reject(f)
  BY <1>15 DEF Reject, Clicked, Ends, channelFlow, senderFlow
<1>16. CASE \E f \in flights : ConnectAgent(f)
  BY <1>16 DEF ConnectAgent, WireApproved, Clicked, Ends, channelFlow, senderFlow
<1>17. CASE \E f \in flights : ConnectAgain(f)
  BY <1>17 DEF ConnectAgain, Clicked, Ends, channelFlow, senderFlow
<1>18. CASE \E f \in flights : ClickAwaitsDm(f)
  BY <1>18 DEF ClickAwaitsDm, Clicked, channelFlow, senderFlow
<1>19. CASE \E f \in flights : ChooseExisting(f)
  BY <1>19 DEF ChooseExisting, Ends, channelFlow, senderFlow
<1>20. CASE \E f \in flights : PromptForName(f)
  BY <1>20 DEF PromptForName, Ends, channelFlow, senderFlow
<1>21. CASE NameIgnored
  BY <1>21 DEF NameIgnored, channelFlow, senderFlow
<1>22. CASE \E a \in Agents : NameNewAgent(a)
  BY <1>22 DEF NameNewAgent, WireApproved, channelFlow, senderFlow
<1>23. CASE \E a \in Agents : \E c \in Channels : OperatorWires(c, a)
  BY <1>23 DEF OperatorWires, channelFlow, senderFlow
<1>24. CASE HostRestart
  BY <1>24 DEF HostRestart, channelFlow, senderFlow
<1>25. CASE UNCHANGED vars
  BY <1>25 DEF vars, channelFlow, senderFlow
<1> QED
  BY <1>1, <1>2, <1>3, <1>4, <1>5, <1>6, <1>7, <1>8, <1>9, <1>10, <1>11, <1>12, <1>13, <1>14, <1>15, <1>16, <1>17, <1>18, <1>19, <1>20, <1>21, <1>22, <1>23, <1>24, <1>25 DEF Next

\* A session and a wiring are there to stay, and with them what engages.
LEMMA EngagesStill ==
    ASSUME TypeOK, [Next]_vars, NEW m \in Messages, NEW a \in Agents, Engages(m, a)
    PROVE  Engages(m, a)'
<1>1. sessions \subseteq sessions'
  BY Grows
<1>2. Mode[ChannelOf[m]] \in {"pattern", "mention", "mention-sticky"}
  BY AdmissionAssumption
<1>3. CASE Mode[ChannelOf[m]] = "mention-sticky"
  BY <1>1, <1>3 DEF Engages
<1>4. CASE Mode[ChannelOf[m]] # "mention-sticky"
  BY <1>2, <1>4 DEF Engages
<1> QED
  BY <1>3, <1>4

\* Nobody is routed to but a wired agent, and nothing is refused that everyone may send.
LEMMA GateStays ==
    ASSUME IInv, [Next]_vars
    PROVE  RefusedIsGated'
<1>t. RoomsOK /\ RoutesOK /\ CardsOK /\ TypeOK
  BY Parts DEF IInv
<1>0. \A c \in Channels : row'[c] # NoMessage => ChannelOf[row'[c]] = c
  BY <1>t, RowsMatch DEF IInv, RefusedIsGated
<1>1. ASSUME NEW p \in routing' PROVE p[2] \in Wired(ChannelOf[p[1]])'
  <2>1. CASE p \in routing
    <3>1. p[2] \in Agents /\ ChannelOf[p[1]] \in Channels
      BY <1>t, <2>1, AdmissionAssumption DEF RoutesOK, Pair
    <3> QED
      BY <1>t, <2>1, <3>1, Grows DEF IInv, RefusedIsGated, Wired
  <2>2. CASE p \notin routing
    BY <1>t, <2>2, RoutedAreWired DEF IInv
  <2> QED
    BY <2>1, <2>2
<1>2. ASSUME NEW p \in refused'
      PROVE  /\ Engages(p[1], p[2])'
             /\ Policy[ChannelOf[p[1]]] # "public" \/ wiring'[ChannelOf[p[1]]][p[2]] = "known"
  <2>1. RoutesOK'
    BY <1>t, RoutesStay
  <2>2. p[1] \in Messages /\ p[2] \in Agents /\ ChannelOf[p[1]] \in Channels
    BY <2>1, AdmissionAssumption DEF RoutesOK, Pair
  <2>3. /\ Engages(p[1], p[2])
        /\ Policy[ChannelOf[p[1]]] # "public" \/ wiring[ChannelOf[p[1]]][p[2]] = "known"
    <3>1. CASE p \in refused
      BY <3>1 DEF IInv, RefusedIsGated
    <3>2. CASE p \notin refused
      <4>1. p \in routing /\ Refuses(p[1], p[2])
        BY <3>2, RefusedBy
      <4>2. wiring[ChannelOf[p[1]]][p[2]] \in {"none", "all", "known"}
        BY <1>t, <2>2 DEF RoomsOK
      <4>3. p[2] \in Wired(ChannelOf[p[1]])
        BY <4>1 DEF IInv, RefusedIsGated
      <4> QED
        BY <4>1, <4>2, <4>3 DEF Refuses, AccessOk, ScopeOk, Wired
    <3> QED
      BY <3>1, <3>2
  <2> QED
    BY <1>t, <2>2, <2>3, EngagesStill, Grows
<1> QED
  BY <1>0, <1>1, <1>2 DEF RefusedIsGated

LEMMA NextOK == IInv /\ [Next]_vars => IInv'
<1> SUFFICES ASSUME IInv, [Next]_vars PROVE IInv'
  OBVIOUS
<1>t. TypeOK /\ RoomsOK /\ RoutesOK /\ CardsOK /\ CountersOK
  BY Parts DEF IInv
<1>1. TypeOK'
  BY <1>t, RoomsStay, RoutesStay, CardsStay, CountersStay, PartsNext
<1>2. Decidable' /\ MembersOwed' /\ OneKnock' /\ RefusedIsGated'
  BY <1>t, DecidableStays, MembersStayOwed, KnocksStayOne, GateStays DEF IInv
<1> QED
  BY <1>1, <1>2 DEF IInv

(* The invariant of the router and the two approval flows, for any channels, *)
(* policies, modes and numbers of clicks and faults (IInv).                  *)
THEOREM AdmissionInvariance == Spec => []IInv
<1>1. Init => IInv
  BY InitOK
<1>2. IInv /\ [Next]_vars => IInv'
  BY NextOK
<1> QED
  BY <1>1, <1>2, PTL DEF Spec

LEMMA StoredBy ==
    ASSUME IInv, [Next]_vars
    PROVE  \A p \in stored' \ stored : p \in routing /\ ~Refuses(p[1], p[2]) /\ refused' = refused
<1>1. CASE \E m \in Messages : ArriveUnwired(m)
  BY <1>1 DEF ArriveUnwired, Arrives, channelFlow, senderFlow
<1>2. CASE \E m \in Messages : ArriveWired(m)
  BY <1>2 DEF ArriveWired, Arrives, channelFlow, senderFlow
<1>3. CASE \E m \in Messages : AskInVain(m)
  BY <1>3 DEF AskInVain, channelFlow, senderFlow
<1>4. CASE \E m \in Messages : Ask(m)
  BY <1>4 DEF Ask, channelFlow, senderFlow
<1>5. CASE \E m \in Messages, a \in Agents : RouteRefused(m, a)
  BY <1>5 DEF RouteRefused, channelFlow, senderFlow
<1>6. CASE \E m \in Messages, a \in Agents : RouteIgnored(m, a)
  BY <1>6 DEF RouteIgnored, channelFlow, senderFlow
<1>7. CASE \E m \in Messages, a \in Agents : RouteStored(m, a)
  BY <1>7 DEF RouteStored, channelFlow, senderFlow
<1>8. CASE \E m \in Messages, a \in Agents : KnockInVain(m, a)
  BY <1>8 DEF KnockInVain, channelFlow, senderFlow
<1>9. CASE \E m \in Messages, a \in Agents : Knock(m, a)
  BY <1>9 DEF Knock, channelFlow, senderFlow
<1>10. CASE \E m \in Messages, a \in Agents : Approve(m, a)
  BY <1>10 DEF Approve, channelFlow, senderFlow
<1>11. CASE \E m \in Messages, a \in Agents : Deny(m, a)
  BY <1>11 DEF Deny, channelFlow, senderFlow
<1>12. CASE \E c \in Channels : Post(c)
  BY <1>12 DEF Post, channelFlow, senderFlow
<1>13. CASE \E c \in Channels : \E choice \in card[c] : Click(c, choice)
  BY <1>13 DEF Click, channelFlow, senderFlow
<1>14. CASE \E f \in flights : ClickIgnored(f)
  BY <1>14 DEF ClickIgnored, Clicked, Ends, channelFlow, senderFlow
<1>15. CASE \E f \in flights : Reject(f)
  BY <1>15 DEF Reject, Clicked, Ends, channelFlow, senderFlow
<1>16. CASE \E f \in flights : ConnectAgent(f)
  BY <1>16 DEF ConnectAgent, WireApproved, Clicked, Ends, channelFlow, senderFlow
<1>17. CASE \E f \in flights : ConnectAgain(f)
  BY <1>17 DEF ConnectAgain, Clicked, Ends, channelFlow, senderFlow
<1>18. CASE \E f \in flights : ClickAwaitsDm(f)
  BY <1>18 DEF ClickAwaitsDm, Clicked, channelFlow, senderFlow
<1>19. CASE \E f \in flights : ChooseExisting(f)
  BY <1>19 DEF ChooseExisting, Ends, channelFlow, senderFlow
<1>20. CASE \E f \in flights : PromptForName(f)
  BY <1>20 DEF PromptForName, Ends, channelFlow, senderFlow
<1>21. CASE NameIgnored
  BY <1>21 DEF NameIgnored, channelFlow, senderFlow
<1>22. CASE \E a \in Agents : NameNewAgent(a)
  BY <1>22 DEF NameNewAgent, WireApproved, channelFlow, senderFlow
<1>23. CASE \E a \in Agents : \E c \in Channels : OperatorWires(c, a)
  BY <1>23 DEF OperatorWires, channelFlow, senderFlow
<1>24. CASE HostRestart
  BY <1>24 DEF HostRestart, channelFlow, senderFlow
<1>25. CASE UNCHANGED vars
  BY <1>25 DEF vars, channelFlow, senderFlow
<1> QED
  BY <1>1, <1>2, <1>3, <1>4, <1>5, <1>6, <1>7, <1>8, <1>9, <1>10, <1>11, <1>12, <1>13, <1>14, <1>15, <1>16, <1>17, <1>18, <1>19, <1>20, <1>21, <1>22, <1>23, <1>24, <1>25 DEF Next

(* A message that a gate refused enters the session only after its sender    *)
(* was admitted (NoSideDoor): its chat is not open to everyone, it still     *)
(* engages, and a gate that lets it pass now has found a member.             *)
THEOREM NoWayAround == Spec => NoSideDoor
<1>1. ASSUME IInv, [Next]_vars, NEW p \in stored' \ stored, p \in refused'
      PROVE  <<SenderOf[p[1]], p[2]>> \in members
  <2>1. p \in refused /\ p \in routing /\ ~Refuses(p[1], p[2])
    BY <1>1, StoredBy
  <2>2. /\ Engages(p[1], p[2])
        /\ Policy[ChannelOf[p[1]]] # "public" \/ wiring[ChannelOf[p[1]]][p[2]] = "known"
    BY <1>1, <2>1 DEF IInv, RefusedIsGated
  <2>3. AccessOk(p[1], p[2]) /\ ScopeOk(p[1], p[2])
    BY <2>1, <2>2 DEF Refuses
  <2> QED
    BY <2>2, <2>3 DEF AccessOk, ScopeOk, CanAccess
<1>2. IInv /\ [Next]_vars => [\A p \in stored' \ stored : p \in refused' => <<SenderOf[p[1]], p[2]>> \in members]_vars
  BY <1>1
<1> QED
  BY <1>2, AdmissionInvariance, PTL DEF Spec, NoSideDoor
=============================================================================
