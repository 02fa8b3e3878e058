---------------------------- MODULE AgentsProofs ----------------------------
(* Theorems about Agents, for any groups, channels, sessions and budgets. *)
EXTENDS Agents, TLAPS

\* The parts of TypeOK.
CentralOK ==
    /\ group \in [Targets -> {"new", "alive", "deleted"}]
    /\ dests \in [Groups -> SUBSET Targets] /\ gates \subseteq Groups \X Groups

SessionsOK ==
    /\ live \in [Sessions -> {"none", "active", "closed", "deleted"}]
    /\ up \subseteq Sessions /\ proj \in [Sessions -> SUBSET Targets]
    /\ wish \in [Sessions -> Groups \union {NoGroup}]
    /\ promised \subseteq Sessions \X Targets

MsgsOK == msgs \in Seq(Message) /\ Len(msgs) <= MaxMessages

MailOK ==
    /\ queue \subseteq Ids /\ asked \subseteq Ids /\ approved \subseteq Ids /\ crashed \subseteq Ids

InboxOK == inbox \in [Sessions -> Seq(Ids)]

HeldOK == held \in [1..MaxMessages -> 0..(MaxFaults + 1)]

ReadOK ==
    /\ taken \in [Sessions -> Nat] /\ \A s \in Sessions : taken[s] <= Len(inbox[s])
    /\ head \in [Sessions -> 0..Len(msgs)]

BoundsOK == budget \in Budgets /\ ops \in 0..MaxOps /\ faults \in 0..MaxFaults

LEMMA Parts ==
    TypeOK <=> CentralOK /\ SessionsOK /\ MsgsOK /\ MailOK /\ InboxOK /\ HeldOK /\ ReadOK /\ BoundsOK
  BY Zenon DEF TypeOK, CentralOK, SessionsOK, MsgsOK, MailOK, InboxOK, HeldOK, ReadOK, BoundsOK

LEMMA PartsNext ==
    CentralOK' /\ SessionsOK' /\ MsgsOK' /\ MailOK' /\ InboxOK' /\ HeldOK' /\ ReadOK' /\ BoundsOK' => TypeOK'
  BY Zenon DEF TypeOK, CentralOK, SessionsOK, MsgsOK, MailOK, InboxOK, HeldOK, ReadOK, BoundsOK

LEMMA Numbers ==
    /\ Sessions \subseteq Nat \ {0} /\ MaxMessages \in Nat /\ MaxOps \in Nat /\ MaxFaults \in Nat
    /\ \A b \in Budgets : b.messages \in 0..MaxMessages /\ b.ops \in 0..MaxOps /\ b.faults \in 0..MaxFaults
                          /\ b.policies \subseteq Groups \X Groups
<1>1. Sessions \subseteq Nat \ {0} /\ MaxMessages \in Nat /\ MaxOps \in Nat /\ MaxFaults \in Nat
  BY AgentsAssumption
<1>2. ASSUME NEW b \in Budgets
      PROVE  b \in [messages: 0..MaxMessages, ops: 0..MaxOps, faults: 0..MaxFaults, policies: SUBSET (Founders \X Founders)]
  BY AgentsAssumption
<1>3. Founders \X Founders \subseteq Groups \X Groups
  BY AgentsAssumption
<1> QED
  BY <1>1, <1>2, <1>3

LEMMA Kinds ==
    /\ GroupOf \in [Sessions -> Groups] /\ Groups \intersect Channels = {} /\ NoGroup \notin Groups
    /\ Founders \subseteq Groups /\ Opened \subseteq Sessions /\ System \subseteq Sessions
    /\ Groups \subseteq Targets /\ Channels \subseteq Targets
  BY AgentsAssumption DEF Targets

\* m is appended to the inbox of s, which is open from now on.
Gets(m, s) ==
    /\ GroupOf[s] = msgs[m].to /\ live[s] \in {"active", "none"}
    /\ live' = [live EXCEPT ![s] = "active"]
    /\ \A z \in Sessions \ {s} : inbox'[z] = inbox[z]
    /\ Len(inbox'[s]) = Len(inbox[s]) + 1 /\ inbox'[s][Len(inbox[s]) + 1] = m
    /\ \A i \in 1..Len(inbox[s]) : inbox'[s][i] = inbox[s][i]

LEMMA RouteIs ==
    ASSUME SessionsOK, InboxOK, NEW m \in Ids, NEW stamp, PerformAgentRoute(m, stamp)
    PROVE  inbox' \in [Sessions -> Seq(Ids)] /\ \E s \in Sessions : Gets(m, s)
<1>1. PICK s \in Sessions :
        /\ s \in ResolveTargetSession(m, stamp) \/ NextSession(msgs[m].to, s)
        /\ live' = [live EXCEPT ![s] = "active"]
        /\ inbox' = [inbox EXCEPT ![s] = Append(@, m)]
  BY DEF PerformAgentRoute
<1>2. \A z \in ResolveTargetSession(m, stamp) : GroupOf[z] = msgs[m].to /\ live[z] = "active"
  BY DEF ResolveTargetSession, NewestActive
<1>3. GroupOf[s] = msgs[m].to /\ live[s] \in {"active", "none"}
  BY <1>1, <1>2 DEF NextSession
<1>4. inbox[s] \in Seq(Ids) /\ Append(inbox[s], m) \in Seq(Ids)
  BY DEF InboxOK
<1>5. inbox'[s] = Append(inbox[s], m) /\ \A z \in Sessions \ {s} : inbox'[z] = inbox[z]
  BY <1>1 DEF InboxOK
<1>6. inbox' \in [Sessions -> Seq(Ids)]
  BY <1>1, <1>4 DEF InboxOK
<1>7. /\ Len(inbox'[s]) = Len(inbox[s]) + 1 /\ inbox'[s][Len(inbox[s]) + 1] = m
      /\ \A i \in 1..Len(inbox[s]) : inbox'[s][i] = inbox[s][i]
  BY <1>4, <1>5
<1> QED
  BY <1>1, <1>3, <1>5, <1>6, <1>7 DEF Gets

\* What a write appends.
Adds(s, g, stamp) ==
    /\ Len(msgs') = Len(msgs) + 1 /\ Len(msgs) + 1 <= MaxMessages
    /\ \A m \in Ids : msgs'[m] = msgs[m]
    /\ msgs'[Len(msgs) + 1] =
          [from |-> s, to |-> g, re |-> stamp,
           answers |-> IF stamp = head[s] /\ IsFrom(head[s], g) THEN head[s] ELSE 0]
    /\ queue' = queue \union {Len(msgs) + 1}

LEMMA WriteIs ==
    ASSUME MsgsOK, ReadOK, BoundsOK, NEW s \in Sessions, NEW g \in Groups, NEW stamp \in 0..Len(msgs), Write(s, g, stamp)
    PROVE  MsgsOK' /\ Adds(s, g, stamp)
<1>1. Len(msgs) \in Nat /\ Len(msgs) < MaxMessages
  BY Numbers DEF Write, MsgsOK, BoundsOK
<1>2. DEFINE new == [from |-> s, to |-> g, re |-> stamp,
                     answers |-> IF stamp = head[s] /\ IsFrom(head[s], g) THEN head[s] ELSE 0]
<1>3. head[s] \in 0..MaxMessages /\ stamp \in 0..MaxMessages /\ 0 \in 0..MaxMessages
  BY <1>1, Numbers DEF ReadOK
<1>4. new \in Message
  BY <1>3 DEF Message
<1>5. msgs' = Append(msgs, new) /\ queue' = queue \union {Len(msgs) + 1}
  BY DEF Write
<1>6. msgs' \in Seq(Message) /\ Len(msgs') = Len(msgs) + 1 /\ msgs'[Len(msgs) + 1] = new
  <2> HIDE DEF new
  <2> QED
    BY <1>4, <1>5 DEF MsgsOK
<1>7. \A m \in Ids : msgs'[m] = msgs[m]
  <2> HIDE DEF new
  <2> QED
    BY <1>4, <1>5 DEF MsgsOK, Ids
<1>8. Len(msgs') <= MaxMessages /\ Len(msgs) + 1 <= MaxMessages
  BY <1>1, <1>6, Numbers
<1>9. MsgsOK'
  BY <1>6, <1>8 DEF MsgsOK
<1> QED
  BY <1>5, <1>6, <1>7, <1>8, <1>9, Zenon DEF Adds

LEMMA IdsGrow ==
    ASSUME MsgsOK, NEW s, NEW g, NEW stamp, Adds(s, g, stamp)
    PROVE  Ids' = Ids \union {Len(msgs) + 1} /\ Len(msgs) + 1 \notin Ids /\ Len(msgs) + 1 \in 1..MaxMessages
<1>1. Len(msgs) \in Nat /\ Len(msgs') = Len(msgs) + 1 /\ Len(msgs) + 1 <= MaxMessages
  BY DEF MsgsOK, Adds
<1> QED
  BY <1>1, Numbers DEF Ids

\* What creating an agent connects.
LEMMA CreateIs ==
    ASSUME CentralOK, SessionsOK, NEW s \in Sessions, PerformCreateAgent(s)
    PROVE  /\ wish[s] \in Groups /\ GroupOf[s] \in Groups /\ group[wish[s]] = "new"
           /\ group' = [group EXCEPT ![wish[s]] = "alive"]
           /\ \A t \in Targets : group'[t] = IF t = wish[s] THEN "alive" ELSE group[t]
           /\ dests' \in [Groups -> SUBSET Targets]
           /\ \A h \in Groups : \A t : t \in dests'[h] <=>
                 t \in dests[h] \/ (h = GroupOf[s] /\ t = wish[s]) \/ (h = wish[s] /\ t = GroupOf[s])
<1>1. wish[s] \in Groups /\ GroupOf[s] \in Groups /\ group[wish[s]] = "new"
  BY Kinds DEF PerformCreateAgent, SessionsOK
<1>2. /\ group' = [group EXCEPT ![wish[s]] = "alive"]
      /\ dests' = [dests EXCEPT ![GroupOf[s]] = @ \union {wish[s]}, ![wish[s]] = @ \union {GroupOf[s]}]
  BY DEF PerformCreateAgent, Connected
<1>3. Groups \subseteq Targets
  BY DEF Targets
<1> QED
  BY <1>1, <1>2, <1>3 DEF CentralOK

\* The operator's change of a group's destinations is projected to its sessions.
LEMMA ProjectIs ==
    ASSUME CentralOK', SessionsOK, NEW g \in Groups, Project(g)
    PROVE  /\ proj' \in [Sessions -> SUBSET Targets]
           /\ \A s \in SessionsOf(g) : proj'[s] = {t \in dests'[GroupOf[s]] : Alive(t)'}
           /\ \A s \in Sessions \ SessionsOf(g) : proj'[s] = proj[s]
<1>1. \A s \in Sessions : Projection(s)' \in SUBSET Targets
  BY Kinds DEF Projection, CentralOK
<1> QED
  BY <1>1 DEF Project, Projection, SessionsOK, SessionsOf

LEMMA CreateProjects ==
    ASSUME CentralOK', SessionsOK, NEW s \in Sessions, PerformCreateAgent(s)
    PROVE  /\ proj' \in [Sessions -> SUBSET Targets]
           /\ proj'[s] = {t \in dests'[GroupOf[s]] : Alive(t)'}
           /\ \A z \in Sessions \ {s} : proj'[z] = proj[z]
<1>1. Projection(s)' \in SUBSET Targets
  BY Kinds DEF Projection, CentralOK
<1> QED
  BY <1>1 DEF PerformCreateAgent, Projection, SessionsOK

\* Every stamp is a row there is.
LEMMA StampIs ==
    ASSUME MsgsOK, InboxOK, ReadOK, BoundsOK, [Next]_vars, NEW s \in Sessions, NEW g \in Groups,
           SendMessage(s, g) \/ SayTo(s, g)
    PROVE  \E stamp \in 0..Len(msgs) : Write(s, g, stamp)
<1>1. head[s] \in 0..Len(msgs)
  BY DEF ReadOK
<1>2. NewestFrom(s, g) \subseteq Ids
  <2>1. \A i \in 1..Len(inbox[s]) : inbox[s][i] \in Ids
    BY DEF InboxOK
  <2> QED
    BY <2>1 DEF NewestFrom
<1>3. Ids \subseteq 0..Len(msgs)
  BY DEF Ids, MsgsOK
<1> QED
  BY <1>1, <1>2, <1>3 DEF SendMessage, SayTo

LEMMA CentralStays ==
    ASSUME CentralOK, SessionsOK, BoundsOK, [Next]_vars
    PROVE  CentralOK'
<1>1. CASE \E s \in Sessions : OpenSession(s)
  BY <1>1, Kinds DEF OpenSession, central, sessions, mail, reading, bounds, CentralOK, SessionsOK, Targets
<1>2. CASE \E s \in Sessions : Spawn(s)
  BY <1>2, Kinds DEF Spawn, central, sessions, mail, reading, bounds, CentralOK, SessionsOK, Targets
<1>3. CASE \E s \in Sessions : Exit(s)
  BY <1>3, Kinds DEF Exit, central, sessions, mail, reading, bounds, CentralOK, SessionsOK, Targets
<1>4. CASE \E s \in Sessions : Close(s)
  BY <1>4, Kinds DEF Close, central, sessions, mail, reading, bounds, CentralOK, SessionsOK, Targets
<1>5. CASE \E s \in Sessions : TakeBatch(s)
  BY <1>5, Kinds DEF TakeBatch, central, sessions, mail, reading, bounds, CentralOK, SessionsOK, Targets
<1>6. CASE \E s \in Sessions : FollowUp(s)
  BY <1>6, Kinds DEF FollowUp, central, sessions, mail, reading, bounds, CentralOK, SessionsOK, Targets
<1>7. CASE \E s \in Sessions : EndBatch(s)
  BY <1>7, Kinds DEF EndBatch, central, sessions, mail, reading, bounds, CentralOK, SessionsOK, Targets
<1>8. CASE \E s \in Sessions : CreateRefused(s)
  BY <1>8, Kinds DEF CreateRefused, central, sessions, mail, reading, bounds, CentralOK, SessionsOK, Targets
<1>9. CASE \E s \in Sessions : PerformCreateAgent(s)
  <2> PICK s \in Sessions : PerformCreateAgent(s)
    BY <1>9
  <2>1. gates' = gates
    BY DEF PerformCreateAgent
  <2> QED
    BY <2>1, CreateIs DEF CentralOK
<1>10. CASE \E s \in Sessions, g \in Groups : SendMessage(s, g)
  BY <1>10, Kinds DEF SendMessage, Write, central, sessions, mail, reading, bounds, CentralOK, SessionsOK, Targets
<1>11. CASE \E s \in Sessions, g \in Groups : SayTo(s, g)
  BY <1>11, Kinds DEF SayTo, Write, central, sessions, mail, reading, bounds, CentralOK, SessionsOK, Targets
<1>12. CASE \E s \in Sessions, g \in Groups : HandleCreateAgent(s, g)
  BY <1>12, Kinds DEF HandleCreateAgent, central, sessions, mail, reading, bounds, Command, CentralOK, SessionsOK, Targets
<1>13. CASE \E m \in Ids : RoutePasses(m)
  BY <1>13, Kinds DEF RoutePasses, central, sessions, mail, reading, bounds, Consume, Routable, CentralOK, SessionsOK, Targets
<1>14. CASE \E m \in Ids : RouteFails(m)
  BY <1>14, Kinds DEF RouteFails, central, sessions, mail, reading, bounds, Routable, CentralOK, SessionsOK, Targets
<1>15. CASE \E m \in Ids : RouteHolds(m)
  BY <1>15, Kinds DEF RouteHolds, central, sessions, mail, reading, bounds, Consume, Routable, CentralOK, SessionsOK, Targets
<1>16. CASE \E m \in Ids : Approve(m)
  BY <1>16, Kinds DEF Approve, central, sessions, mail, reading, bounds, Answered, CentralOK, SessionsOK, Targets
<1>17. CASE \E m \in Ids : Reject(m)
  BY <1>17, Kinds DEF Reject, central, sessions, mail, reading, bounds, Answered, CentralOK, SessionsOK, Targets
<1>18. CASE \E g \in Groups, t \in Targets : AddDestination(g, t)
  BY <1>18, Kinds DEF AddDestination, mail, reading, bounds, Command, CentralOK, SessionsOK, Targets
<1>19. CASE \E g \in Groups, t \in Targets : RemoveDestination(g, t)
  BY <1>19, Kinds DEF RemoveDestination, mail, reading, bounds, Command, CentralOK, SessionsOK, Targets
<1>20. CASE \E g \in Groups, c \in Channels : WireChannel(g, c)
  BY <1>20, Kinds DEF WireChannel, sessions, mail, reading, bounds, Command, CentralOK, SessionsOK, Targets
<1>21. CASE \E g, h \in Groups : SetPolicy(g, h)
  BY <1>21, Kinds DEF SetPolicy, sessions, mail, reading, bounds, Command, CentralOK, SessionsOK, Targets
<1>22. CASE \E g, h \in Groups : RemovePolicy(g, h)
  BY <1>22, Kinds DEF RemovePolicy, sessions, mail, reading, bounds, Command, CentralOK, SessionsOK, Targets
<1>23. CASE \E g \in Groups : DeleteGroup(g)
  BY <1>23, Kinds DEF DeleteGroup, reading, bounds, Command, CentralOK, SessionsOK, Targets
<1>24. CASE UNCHANGED vars
  BY <1>24, Kinds DEF vars, central, sessions, mail, reading, bounds, CentralOK, SessionsOK, Targets
<1>25. CASE \E c \in Channels : DeleteChannel(c)
  BY <1>25, Kinds DEF DeleteChannel, sessions, mail, reading, bounds, Command, CentralOK, SessionsOK, Targets
<1> QED
  BY <1>1, <1>2, <1>3, <1>4, <1>5, <1>6, <1>7, <1>8, <1>9, <1>10, <1>11, <1>12, <1>13, <1>14, <1>15, <1>16, <1>17, <1>18, <1>19, <1>20, <1>21, <1>22, <1>23, <1>24, <1>25 DEF Next

LEMMA SessionsStay ==
    ASSUME CentralOK, SessionsOK, InboxOK, BoundsOK, [Next]_vars
    PROVE  SessionsOK'
<1>1. CASE \E s \in Sessions : OpenSession(s)
  BY <1>1, Kinds DEF OpenSession, central, sessions, mail, reading, bounds, SessionsOK
<1>2. CASE \E s \in Sessions : Spawn(s)
  BY ZenonT(60), <1>2, Kinds DEF Spawn, central, sessions, mail, reading, bounds, SessionsOK, CentralOK, Projection
<1>3. CASE \E s \in Sessions : Exit(s)
  BY <1>3, Kinds DEF Exit, central, sessions, mail, reading, bounds, SessionsOK
<1>4. CASE \E s \in Sessions : Close(s)
  BY <1>4, Kinds DEF Close, central, sessions, mail, reading, bounds, SessionsOK
<1>5. CASE \E s \in Sessions : TakeBatch(s)
  BY <1>5, Kinds DEF TakeBatch, central, sessions, mail, reading, bounds, SessionsOK
<1>6. CASE \E s \in Sessions : FollowUp(s)
  BY <1>6, Kinds DEF FollowUp, central, sessions, mail, reading, bounds, SessionsOK
<1>7. CASE \E s \in Sessions : EndBatch(s)
  BY <1>7, Kinds DEF EndBatch, central, sessions, mail, reading, bounds, SessionsOK
<1>8. CASE \E s \in Sessions : CreateRefused(s)
  BY <1>8, Kinds DEF CreateRefused, central, sessions, mail, reading, bounds, SessionsOK
<1>9. CASE \E s \in Sessions : PerformCreateAgent(s)
  <2> PICK s \in Sessions : PerformCreateAgent(s)
    BY <1>9
  <2>1. proj' \in [Sessions -> SUBSET Targets]
    BY CentralStays, CreateProjects
  <2>2. wish[s] \in Targets
    BY CreateIs DEF Targets
  <2> QED
    BY <2>1, <2>2 DEF PerformCreateAgent, SessionsOK
<1>10. CASE \E s \in Sessions, g \in Groups : SendMessage(s, g)
  BY <1>10, Kinds DEF SendMessage, Write, central, sessions, mail, reading, bounds, SessionsOK
<1>11. CASE \E s \in Sessions, g \in Groups : SayTo(s, g)
  BY <1>11, Kinds DEF SayTo, Write, central, sessions, mail, reading, bounds, SessionsOK
<1>12. CASE \E s \in Sessions, g \in Groups : HandleCreateAgent(s, g)
  BY <1>12, Kinds DEF HandleCreateAgent, central, sessions, mail, reading, bounds, Command, SessionsOK
<1>13. CASE \E m \in Ids : RoutePasses(m)
  <2> PICK m \in Ids : RoutePasses(m)
    BY <1>13
  <2>1. PerformAgentRoute(m, msgs[m].re) => \E s \in Sessions : Gets(m, s)
    BY RouteIs
  <2> QED
    BY <2>1 DEF RoutePasses, Gets, SessionsOK
<1>14. CASE \E m \in Ids : RouteFails(m)
  BY <1>14, Kinds DEF RouteFails, central, sessions, mail, reading, bounds, Routable, SessionsOK
<1>15. CASE \E m \in Ids : RouteHolds(m)
  BY <1>15, Kinds DEF RouteHolds, central, sessions, mail, reading, bounds, Consume, Routable, SessionsOK
<1>16. CASE \E m \in Ids : Approve(m)
  <2> PICK m \in Ids : Approve(m)
    BY <1>16
  <2>1. PerformAgentRoute(m, msgs[m].re) => \E s \in Sessions : Gets(m, s)
    BY RouteIs
  <2> QED
    BY <2>1 DEF Approve, Gets, SessionsOK
<1>17. CASE \E m \in Ids : Reject(m)
  BY <1>17, Kinds DEF Reject, central, sessions, mail, reading, bounds, Answered, SessionsOK
<1>18. CASE \E g \in Groups, t \in Targets : AddDestination(g, t)
  <2> PICK g \in Groups, t \in Targets : AddDestination(g, t)
    BY <1>18
  <2>1. proj' \in [Sessions -> SUBSET Targets]
    BY CentralStays, ProjectIs DEF AddDestination
  <2>2. promised' \subseteq Sessions \X Targets
    BY DEF AddDestination, SessionsOK, SessionsOf
  <2> QED
    BY <2>1, <2>2 DEF AddDestination, SessionsOK
<1>19. CASE \E g \in Groups, t \in Targets : RemoveDestination(g, t)
  <2> PICK g \in Groups, t \in Targets : RemoveDestination(g, t)
    BY <1>19
  <2>1. proj' \in [Sessions -> SUBSET Targets]
    BY CentralStays, ProjectIs DEF RemoveDestination
  <2>2. promised' \subseteq Sessions \X Targets
    BY DEF RemoveDestination, SessionsOK, SessionsOf
  <2> QED
    BY <2>1, <2>2 DEF RemoveDestination, SessionsOK
<1>20. CASE \E g \in Groups, c \in Channels : WireChannel(g, c)
  BY <1>20, Kinds DEF WireChannel, sessions, mail, reading, bounds, Command, SessionsOK
<1>21. CASE \E g, h \in Groups : SetPolicy(g, h)
  BY <1>21, Kinds DEF SetPolicy, sessions, mail, reading, bounds, Command, SessionsOK
<1>22. CASE \E g, h \in Groups : RemovePolicy(g, h)
  BY <1>22, Kinds DEF RemovePolicy, sessions, mail, reading, bounds, Command, SessionsOK
<1>23. CASE \E g \in Groups : DeleteGroup(g)
  BY <1>23, Kinds DEF DeleteGroup, reading, bounds, Command, SessionsOK
<1>24. CASE UNCHANGED vars
  BY <1>24, Kinds DEF vars, central, sessions, mail, reading, bounds, SessionsOK
<1>25. CASE \E c \in Channels : DeleteChannel(c)
  BY <1>25, Kinds DEF DeleteChannel, sessions, mail, reading, bounds, Command, SessionsOK
<1> QED
  BY <1>1, <1>2, <1>3, <1>4, <1>5, <1>6, <1>7, <1>8, <1>9, <1>10, <1>11, <1>12, <1>13, <1>14, <1>15, <1>16, <1>17, <1>18, <1>19, <1>20, <1>21, <1>22, <1>23, <1>24, <1>25 DEF Next

LEMMA MsgsStay ==
    ASSUME MsgsOK, InboxOK, ReadOK, BoundsOK, [Next]_vars
    PROVE  MsgsOK'
<1>1. CASE \E s \in Sessions : OpenSession(s)
  BY <1>1 DEF OpenSession, central, sessions, mail, reading, bounds, MsgsOK
<1>2. CASE \E s \in Sessions : Spawn(s)
  BY <1>2 DEF Spawn, central, sessions, mail, reading, bounds, MsgsOK
<1>3. CASE \E s \in Sessions : Exit(s)
  BY <1>3 DEF Exit, central, sessions, mail, reading, bounds, MsgsOK
<1>4. CASE \E s \in Sessions : Close(s)
  BY <1>4 DEF Close, central, sessions, mail, reading, bounds, MsgsOK
<1>5. CASE \E s \in Sessions : TakeBatch(s)
  BY <1>5 DEF TakeBatch, central, sessions, mail, reading, bounds, MsgsOK
<1>6. CASE \E s \in Sessions : FollowUp(s)
  BY <1>6 DEF FollowUp, central, sessions, mail, reading, bounds, MsgsOK
<1>7. CASE \E s \in Sessions : EndBatch(s)
  BY <1>7 DEF EndBatch, central, sessions, mail, reading, bounds, MsgsOK
<1>8. CASE \E s \in Sessions : CreateRefused(s)
  BY <1>8 DEF CreateRefused, central, sessions, mail, reading, bounds, MsgsOK
<1>9. CASE \E s \in Sessions : PerformCreateAgent(s)
  BY <1>9 DEF PerformCreateAgent, mail, reading, bounds, MsgsOK
<1>10. CASE \E s \in Sessions, g \in Groups : SendMessage(s, g)
  <2> PICK s \in Sessions, g \in Groups : SendMessage(s, g)
    BY <1>10
  <2>a. PICK stamp \in 0..Len(msgs) : Write(s, g, stamp)
    BY StampIs
  <2>b. MsgsOK' /\ Adds(s, g, stamp)
    BY <2>a, WriteIs
  <2> QED
    BY <2>b
<1>11. CASE \E s \in Sessions, g \in Groups : SayTo(s, g)
  <2> PICK s \in Sessions, g \in Groups : SayTo(s, g)
    BY <1>11
  <2>a. PICK stamp \in 0..Len(msgs) : Write(s, g, stamp)
    BY StampIs
  <2>b. MsgsOK' /\ Adds(s, g, stamp)
    BY <2>a, WriteIs
  <2> QED
    BY <2>b
<1>12. CASE \E s \in Sessions, g \in Groups : HandleCreateAgent(s, g)
  BY <1>12 DEF HandleCreateAgent, central, sessions, mail, reading, bounds, Command, MsgsOK
<1>13. CASE \E m \in Ids : RoutePasses(m)
  BY <1>13 DEF RoutePasses, central, sessions, mail, reading, bounds, Consume, Routable, MsgsOK
<1>14. CASE \E m \in Ids : RouteFails(m)
  BY <1>14 DEF RouteFails, central, sessions, mail, reading, bounds, Routable, MsgsOK
<1>15. CASE \E m \in Ids : RouteHolds(m)
  BY <1>15 DEF RouteHolds, central, sessions, mail, reading, bounds, Consume, Routable, MsgsOK
<1>16. CASE \E m \in Ids : Approve(m)
  BY <1>16 DEF Approve, central, sessions, mail, reading, bounds, Answered, MsgsOK
<1>17. CASE \E m \in Ids : Reject(m)
  BY <1>17 DEF Reject, central, sessions, mail, reading, bounds, Answered, MsgsOK
<1>18. CASE \E g \in Groups, t \in Targets : AddDestination(g, t)
  BY <1>18 DEF AddDestination, mail, reading, bounds, Command, MsgsOK
<1>19. CASE \E g \in Groups, t \in Targets : RemoveDestination(g, t)
  BY <1>19 DEF RemoveDestination, mail, reading, bounds, Command, MsgsOK
<1>20. CASE \E g \in Groups, c \in Channels : WireChannel(g, c)
  BY <1>20 DEF WireChannel, sessions, mail, reading, bounds, Command, MsgsOK
<1>21. CASE \E g, h \in Groups : SetPolicy(g, h)
  BY <1>21 DEF SetPolicy, sessions, mail, reading, bounds, Command, MsgsOK
<1>22. CASE \E g, h \in Groups : RemovePolicy(g, h)
  BY <1>22 DEF RemovePolicy, sessions, mail, reading, bounds, Command, MsgsOK
<1>23. CASE \E g \in Groups : DeleteGroup(g)
  BY <1>23 DEF DeleteGroup, reading, bounds, Command, MsgsOK
<1>24. CASE UNCHANGED vars
  BY <1>24 DEF vars, central, sessions, mail, reading, bounds, MsgsOK
<1>25. CASE \E c \in Channels : DeleteChannel(c)
  BY <1>25 DEF DeleteChannel, sessions, mail, reading, bounds, Command, MsgsOK
<1> QED
  BY <1>1, <1>2, <1>3, <1>4, <1>5, <1>6, <1>7, <1>8, <1>9, <1>10, <1>11, <1>12, <1>13, <1>14, <1>15, <1>16, <1>17, <1>18, <1>19, <1>20, <1>21, <1>22, <1>23, <1>24, <1>25 DEF Next

LEMMA MailStays ==
    ASSUME MsgsOK, MailOK, InboxOK, ReadOK, BoundsOK, [Next]_vars
    PROVE  MailOK'
<1>1. CASE \E s \in Sessions : OpenSession(s)
  BY <1>1 DEF OpenSession, central, sessions, mail, reading, bounds, MailOK, Ids
<1>2. CASE \E s \in Sessions : Spawn(s)
  BY <1>2 DEF Spawn, central, sessions, mail, reading, bounds, MailOK, Ids
<1>3. CASE \E s \in Sessions : Exit(s)
  BY <1>3 DEF Exit, central, sessions, mail, reading, bounds, MailOK, Ids
<1>4. CASE \E s \in Sessions : Close(s)
  BY <1>4 DEF Close, central, sessions, mail, reading, bounds, MailOK, Ids
<1>5. CASE \E s \in Sessions : TakeBatch(s)
  BY <1>5 DEF TakeBatch, central, sessions, mail, reading, bounds, MailOK, Ids
<1>6. CASE \E s \in Sessions : FollowUp(s)
  BY <1>6 DEF FollowUp, central, sessions, mail, reading, bounds, MailOK, Ids
<1>7. CASE \E s \in Sessions : EndBatch(s)
  BY <1>7 DEF EndBatch, central, sessions, mail, reading, bounds, MailOK, Ids
<1>8. CASE \E s \in Sessions : CreateRefused(s)
  BY <1>8 DEF CreateRefused, central, sessions, mail, reading, bounds, MailOK, Ids
<1>9. CASE \E s \in Sessions : PerformCreateAgent(s)
  BY <1>9 DEF PerformCreateAgent, mail, reading, bounds, MailOK, Ids
<1>10. CASE \E s \in Sessions, g \in Groups : SendMessage(s, g)
  <2> PICK s \in Sessions, g \in Groups : SendMessage(s, g)
    BY <1>10
  <2>a. PICK stamp \in 0..Len(msgs) : Write(s, g, stamp)
    BY StampIs
  <2>b. MsgsOK' /\ Adds(s, g, stamp)
    BY <2>a, WriteIs
  <2>1. Len(msgs) \in Nat /\ UNCHANGED <<asked, approved, crashed>>
    BY <2>a DEF Write, mail, MsgsOK
  <2>2. Ids' = Ids \union {Len(msgs) + 1}
    BY <2>b, IdsGrow
  <2> QED
    BY <2>b, <2>1, <2>2 DEF Adds, MailOK
<1>11. CASE \E s \in Sessions, g \in Groups : SayTo(s, g)
  <2> PICK s \in Sessions, g \in Groups : SayTo(s, g)
    BY <1>11
  <2>a. PICK stamp \in 0..Len(msgs) : Write(s, g, stamp)
    BY StampIs
  <2>b. MsgsOK' /\ Adds(s, g, stamp)
    BY <2>a, WriteIs
  <2>1. Len(msgs) \in Nat /\ UNCHANGED <<asked, approved, crashed>>
    BY <2>a DEF Write, mail, MsgsOK
  <2>2. Ids' = Ids \union {Len(msgs) + 1}
    BY <2>b, IdsGrow
  <2> QED
    BY <2>b, <2>1, <2>2 DEF Adds, MailOK
<1>12. CASE \E s \in Sessions, g \in Groups : HandleCreateAgent(s, g)
  BY <1>12 DEF HandleCreateAgent, central, sessions, mail, reading, bounds, Command, MailOK, Ids
<1>13. CASE \E m \in Ids : RoutePasses(m)
  BY <1>13 DEF RoutePasses, central, sessions, mail, reading, bounds, Consume, Routable, MailOK, Ids
<1>14. CASE \E m \in Ids : RouteFails(m)
  BY <1>14 DEF RouteFails, central, sessions, mail, reading, bounds, Routable, MailOK, Ids
<1>15. CASE \E m \in Ids : RouteHolds(m)
  BY <1>15 DEF RouteHolds, central, sessions, mail, reading, bounds, Consume, Routable, MailOK, Ids
<1>16. CASE \E m \in Ids : Approve(m)
  BY <1>16 DEF Approve, central, sessions, mail, reading, bounds, Answered, MailOK, Ids
<1>17. CASE \E m \in Ids : Reject(m)
  BY <1>17 DEF Reject, central, sessions, mail, reading, bounds, Answered, MailOK, Ids
<1>18. CASE \E g \in Groups, t \in Targets : AddDestination(g, t)
  BY <1>18 DEF AddDestination, mail, reading, bounds, Command, MailOK, Ids
<1>19. CASE \E g \in Groups, t \in Targets : RemoveDestination(g, t)
  BY <1>19 DEF RemoveDestination, mail, reading, bounds, Command, MailOK, Ids
<1>20. CASE \E g \in Groups, c \in Channels : WireChannel(g, c)
  BY <1>20 DEF WireChannel, sessions, mail, reading, bounds, Command, MailOK, Ids
<1>21. CASE \E g, h \in Groups : SetPolicy(g, h)
  BY <1>21 DEF SetPolicy, sessions, mail, reading, bounds, Command, MailOK, Ids
<1>22. CASE \E g, h \in Groups : RemovePolicy(g, h)
  BY <1>22 DEF RemovePolicy, sessions, mail, reading, bounds, Command, MailOK, Ids
<1>23. CASE \E g \in Groups : DeleteGroup(g)
  BY <1>23 DEF DeleteGroup, reading, bounds, Command, MailOK, Ids
<1>24. CASE UNCHANGED vars
  BY <1>24 DEF vars, central, sessions, mail, reading, bounds, MailOK, Ids
<1>25. CASE \E c \in Channels : DeleteChannel(c)
  BY <1>25 DEF DeleteChannel, sessions, mail, reading, bounds, Command, MailOK, Ids
<1> QED
  BY <1>1, <1>2, <1>3, <1>4, <1>5, <1>6, <1>7, <1>8, <1>9, <1>10, <1>11, <1>12, <1>13, <1>14, <1>15, <1>16, <1>17, <1>18, <1>19, <1>20, <1>21, <1>22, <1>23, <1>24, <1>25 DEF Next

LEMMA InboxStays ==
    ASSUME SessionsOK, MsgsOK, InboxOK, ReadOK, BoundsOK, [Next]_vars
    PROVE  InboxOK'
<1>1. CASE \E s \in Sessions : OpenSession(s)
  BY <1>1 DEF OpenSession, central, sessions, mail, reading, bounds, InboxOK, Ids
<1>2. CASE \E s \in Sessions : Spawn(s)
  BY <1>2 DEF Spawn, central, sessions, mail, reading, bounds, InboxOK, Ids
<1>3. CASE \E s \in Sessions : Exit(s)
  BY <1>3 DEF Exit, central, sessions, mail, reading, bounds, InboxOK, Ids
<1>4. CASE \E s \in Sessions : Close(s)
  BY <1>4 DEF Close, central, sessions, mail, reading, bounds, InboxOK, Ids
<1>5. CASE \E s \in Sessions : TakeBatch(s)
  BY <1>5 DEF TakeBatch, central, sessions, mail, reading, bounds, InboxOK, Ids
<1>6. CASE \E s \in Sessions : FollowUp(s)
  BY <1>6 DEF FollowUp, central, sessions, mail, reading, bounds, InboxOK, Ids
<1>7. CASE \E s \in Sessions : EndBatch(s)
  BY <1>7 DEF EndBatch, central, sessions, mail, reading, bounds, InboxOK, Ids
<1>8. CASE \E s \in Sessions : CreateRefused(s)
  BY <1>8 DEF CreateRefused, central, sessions, mail, reading, bounds, InboxOK, Ids
<1>9. CASE \E s \in Sessions : PerformCreateAgent(s)
  BY <1>9 DEF PerformCreateAgent, mail, reading, bounds, InboxOK, Ids
<1>10. CASE \E s \in Sessions, g \in Groups : SendMessage(s, g)
  <2> PICK s \in Sessions, g \in Groups : SendMessage(s, g)
    BY <1>10
  <2>a. PICK stamp \in 0..Len(msgs) : Write(s, g, stamp)
    BY StampIs
  <2>b. MsgsOK' /\ Adds(s, g, stamp)
    BY <2>a, WriteIs
  <2>1. Len(msgs) \in Nat /\ inbox' = inbox
    BY <2>a DEF Write, MsgsOK
  <2>2. Ids \subseteq Ids'
    BY <2>b, <2>1 DEF Adds, Ids
  <2>3. Seq(Ids) \subseteq Seq(Ids')
    BY <2>2
  <2> QED
    BY <2>1, <2>3 DEF InboxOK
<1>11. CASE \E s \in Sessions, g \in Groups : SayTo(s, g)
  <2> PICK s \in Sessions, g \in Groups : SayTo(s, g)
    BY <1>11
  <2>a. PICK stamp \in 0..Len(msgs) : Write(s, g, stamp)
    BY StampIs
  <2>b. MsgsOK' /\ Adds(s, g, stamp)
    BY <2>a, WriteIs
  <2>1. Len(msgs) \in Nat /\ inbox' = inbox
    BY <2>a DEF Write, MsgsOK
  <2>2. Ids \subseteq Ids'
    BY <2>b, <2>1 DEF Adds, Ids
  <2>3. Seq(Ids) \subseteq Seq(Ids')
    BY <2>2
  <2> QED
    BY <2>1, <2>3 DEF InboxOK
<1>12. CASE \E s \in Sessions, g \in Groups : HandleCreateAgent(s, g)
  BY <1>12 DEF HandleCreateAgent, central, sessions, mail, reading, bounds, Command, InboxOK, Ids
<1>13. CASE \E m \in Ids : RoutePasses(m)
  <2> PICK m \in Ids : RoutePasses(m)
    BY <1>13
  <2>1. PerformAgentRoute(m, msgs[m].re) => inbox' \in [Sessions -> Seq(Ids)]
    BY RouteIs
  <2>2. Ids' = Ids
    BY DEF RoutePasses, Ids
  <2> QED
    BY <2>1, <2>2 DEF RoutePasses, InboxOK
<1>14. CASE \E m \in Ids : RouteFails(m)
  BY <1>14 DEF RouteFails, central, sessions, mail, reading, bounds, Routable, InboxOK, Ids
<1>15. CASE \E m \in Ids : RouteHolds(m)
  BY <1>15 DEF RouteHolds, central, sessions, mail, reading, bounds, Consume, Routable, InboxOK, Ids
<1>16. CASE \E m \in Ids : Approve(m)
  <2> PICK m \in Ids : Approve(m)
    BY <1>16
  <2>1. PerformAgentRoute(m, msgs[m].re) => inbox' \in [Sessions -> Seq(Ids)]
    BY RouteIs
  <2>2. Ids' = Ids
    BY DEF Approve, Ids
  <2> QED
    BY <2>1, <2>2 DEF Approve, InboxOK
<1>17. CASE \E m \in Ids : Reject(m)
  BY <1>17 DEF Reject, central, sessions, mail, reading, bounds, Answered, InboxOK, Ids
<1>18. CASE \E g \in Groups, t \in Targets : AddDestination(g, t)
  BY <1>18 DEF AddDestination, mail, reading, bounds, Command, InboxOK, Ids
<1>19. CASE \E g \in Groups, t \in Targets : RemoveDestination(g, t)
  BY <1>19 DEF RemoveDestination, mail, reading, bounds, Command, InboxOK, Ids
<1>20. CASE \E g \in Groups, c \in Channels : WireChannel(g, c)
  BY <1>20 DEF WireChannel, sessions, mail, reading, bounds, Command, InboxOK, Ids
<1>21. CASE \E g, h \in Groups : SetPolicy(g, h)
  BY <1>21 DEF SetPolicy, sessions, mail, reading, bounds, Command, InboxOK, Ids
<1>22. CASE \E g, h \in Groups : RemovePolicy(g, h)
  BY <1>22 DEF RemovePolicy, sessions, mail, reading, bounds, Command, InboxOK, Ids
<1>23. CASE \E g \in Groups : DeleteGroup(g)
  BY <1>23 DEF DeleteGroup, reading, bounds, Command, InboxOK, Ids
<1>24. CASE UNCHANGED vars
  BY <1>24 DEF vars, central, sessions, mail, reading, bounds, InboxOK, Ids
<1>25. CASE \E c \in Channels : DeleteChannel(c)
  BY <1>25 DEF DeleteChannel, sessions, mail, reading, bounds, Command, InboxOK, Ids
<1> QED
  BY <1>1, <1>2, <1>3, <1>4, <1>5, <1>6, <1>7, <1>8, <1>9, <1>10, <1>11, <1>12, <1>13, <1>14, <1>15, <1>16, <1>17, <1>18, <1>19, <1>20, <1>21, <1>22, <1>23, <1>24, <1>25 DEF Next

LEMMA BoundsStay ==
    ASSUME BoundsOK, [Next]_vars
    PROVE  BoundsOK'
<1>1. CASE \E s \in Sessions : OpenSession(s)
  BY <1>1, Numbers DEF OpenSession, central, sessions, mail, reading, bounds, BoundsOK
<1>2. CASE \E s \in Sessions : Spawn(s)
  BY <1>2, Numbers DEF Spawn, central, sessions, mail, reading, bounds, BoundsOK
<1>3. CASE \E s \in Sessions : Exit(s)
  BY <1>3, Numbers DEF Exit, central, sessions, mail, reading, bounds, BoundsOK
<1>4. CASE \E s \in Sessions : Close(s)
  BY <1>4, Numbers DEF Close, central, sessions, mail, reading, bounds, BoundsOK
<1>5. CASE \E s \in Sessions : TakeBatch(s)
  BY <1>5, Numbers DEF TakeBatch, central, sessions, mail, reading, bounds, BoundsOK
<1>6. CASE \E s \in Sessions : FollowUp(s)
  BY <1>6, Numbers DEF FollowUp, central, sessions, mail, reading, bounds, BoundsOK
<1>7. CASE \E s \in Sessions : EndBatch(s)
  BY <1>7, Numbers DEF EndBatch, central, sessions, mail, reading, bounds, BoundsOK
<1>8. CASE \E s \in Sessions : CreateRefused(s)
  BY <1>8, Numbers DEF CreateRefused, central, sessions, mail, reading, bounds, BoundsOK
<1>9. CASE \E s \in Sessions : PerformCreateAgent(s)
  BY <1>9, Numbers DEF PerformCreateAgent, mail, reading, bounds, BoundsOK
<1>10. CASE \E s \in Sessions, g \in Groups : SendMessage(s, g)
  BY <1>10, Numbers DEF SendMessage, Write, central, sessions, mail, reading, bounds, BoundsOK
<1>11. CASE \E s \in Sessions, g \in Groups : SayTo(s, g)
  BY <1>11, Numbers DEF SayTo, Write, central, sessions, mail, reading, bounds, BoundsOK
<1>12. CASE \E s \in Sessions, g \in Groups : HandleCreateAgent(s, g)
  BY <1>12, Numbers DEF HandleCreateAgent, central, sessions, mail, reading, bounds, Command, BoundsOK
<1>13. CASE \E m \in Ids : RoutePasses(m)
  BY <1>13, Numbers DEF RoutePasses, central, sessions, mail, reading, bounds, Consume, Routable, BoundsOK
<1>14. CASE \E m \in Ids : RouteFails(m)
  BY <1>14, Numbers DEF RouteFails, central, sessions, mail, reading, bounds, Routable, BoundsOK
<1>15. CASE \E m \in Ids : RouteHolds(m)
  BY <1>15, Numbers DEF RouteHolds, central, sessions, mail, reading, bounds, Consume, Routable, BoundsOK
<1>16. CASE \E m \in Ids : Approve(m)
  BY <1>16, Numbers DEF Approve, central, sessions, mail, reading, bounds, Answered, BoundsOK
<1>17. CASE \E m \in Ids : Reject(m)
  BY <1>17, Numbers DEF Reject, central, sessions, mail, reading, bounds, Answered, BoundsOK
<1>18. CASE \E g \in Groups, t \in Targets : AddDestination(g, t)
  BY <1>18, Numbers DEF AddDestination, mail, reading, bounds, Command, BoundsOK
<1>19. CASE \E g \in Groups, t \in Targets : RemoveDestination(g, t)
  BY <1>19, Numbers DEF RemoveDestination, mail, reading, bounds, Command, BoundsOK
<1>20. CASE \E g \in Groups, c \in Channels : WireChannel(g, c)
  BY <1>20, Numbers DEF WireChannel, sessions, mail, reading, bounds, Command, BoundsOK
<1>21. CASE \E g, h \in Groups : SetPolicy(g, h)
  BY <1>21, Numbers DEF SetPolicy, sessions, mail, reading, bounds, Command, BoundsOK
<1>22. CASE \E g, h \in Groups : RemovePolicy(g, h)
  BY <1>22, Numbers DEF RemovePolicy, sessions, mail, reading, bounds, Command, BoundsOK
<1>23. CASE \E g \in Groups : DeleteGroup(g)
  BY <1>23, Numbers DEF DeleteGroup, reading, bounds, Command, BoundsOK
<1>24. CASE UNCHANGED vars
  BY <1>24, Numbers DEF vars, central, sessions, mail, reading, bounds, BoundsOK
<1>25. CASE \E c \in Channels : DeleteChannel(c)
  BY <1>25, Numbers DEF DeleteChannel, sessions, mail, reading, bounds, Command, BoundsOK
<1> QED
  BY <1>1, <1>2, <1>3, <1>4, <1>5, <1>6, <1>7, <1>8, <1>9, <1>10, <1>11, <1>12, <1>13, <1>14, <1>15, <1>16, <1>17, <1>18, <1>19, <1>20, <1>21, <1>22, <1>23, <1>24, <1>25 DEF Next

LEMMA ReadStays ==
    ASSUME SessionsOK, MsgsOK, InboxOK, ReadOK, BoundsOK, [Next]_vars
    PROVE  ReadOK'
<1>1. CASE \E s \in Sessions : OpenSession(s)
  BY <1>1 DEF OpenSession, central, sessions, mail, reading, bounds, ReadOK
<1>2. CASE \E s \in Sessions : Spawn(s)
  BY <1>2 DEF Spawn, central, sessions, mail, reading, bounds, ReadOK
<1>3. CASE \E s \in Sessions : Exit(s)
  <2> PICK s \in Sessions : Exit(s)
    BY <1>3
  <2>1. UNCHANGED <<inbox, msgs>> /\ Len(msgs) \in Nat
    BY DEF Exit, mail, MsgsOK
  <2>2. PICK k \in {taken[s]} \union {i - 1 : i \in {j \in 1..taken[s] : inbox[s][j] = head[s]}} :
          taken' = [taken EXCEPT ![s] = k]
    BY DEF Exit
  <2>3. k \in Nat /\ k <= taken[s]
    BY <2>2 DEF ReadOK
  <2>4. \A z \in Sessions : Len(inbox[z]) \in Nat
    BY DEF InboxOK
  <2>5. taken' \in [Sessions -> Nat] /\ \A z \in Sessions : taken'[z] <= Len(inbox[z])
    BY <2>2, <2>3, <2>4 DEF ReadOK
  <2>6. head' \in [Sessions -> 0..Len(msgs)]
    BY <2>1 DEF Exit, ReadOK
  <2> QED
    BY <2>1, <2>5, <2>6 DEF ReadOK
<1>4. CASE \E s \in Sessions : Close(s)
  BY <1>4 DEF Close, central, sessions, mail, reading, bounds, ReadOK
<1>5. CASE \E s \in Sessions : TakeBatch(s)
  <2> PICK s \in Sessions : TakeBatch(s)
    BY <1>5
  <2>1. UNCHANGED <<inbox, msgs>> /\ Len(msgs) \in Nat
    BY DEF TakeBatch, mail, MsgsOK
  <2>2. inbox[s] \in Seq(Ids) /\ taken[s] \in Nat /\ taken[s] < Len(inbox[s])
    BY DEF TakeBatch, InboxOK, ReadOK
  <2>3. inbox[s][taken[s] + 1] \in 0..Len(msgs) /\ Len(inbox[s]) \in Nat
    BY <2>1, <2>2 DEF Ids
  <2> QED
    BY <2>1, <2>3 DEF TakeBatch, ReadOK
<1>6. CASE \E s \in Sessions : FollowUp(s)
  <2> PICK s \in Sessions : FollowUp(s)
    BY <1>6
  <2>1. UNCHANGED <<inbox, msgs, head>> /\ Len(inbox[s]) \in Nat
    BY DEF FollowUp, mail, InboxOK
  <2> QED
    BY <2>1 DEF FollowUp, ReadOK
<1>7. CASE \E s \in Sessions : EndBatch(s)
  <2> PICK s \in Sessions : EndBatch(s)
    BY <1>7
  <2>1. UNCHANGED <<inbox, msgs, taken>> /\ Len(msgs) \in Nat
    BY DEF EndBatch, mail, MsgsOK
  <2> QED
    BY <2>1 DEF EndBatch, ReadOK
<1>8. CASE \E s \in Sessions : CreateRefused(s)
  BY <1>8 DEF CreateRefused, central, sessions, mail, reading, bounds, ReadOK
<1>9. CASE \E s \in Sessions : PerformCreateAgent(s)
  BY <1>9 DEF PerformCreateAgent, mail, reading, bounds, ReadOK
<1>10. CASE \E s \in Sessions, g \in Groups : SendMessage(s, g)
  <2> PICK s \in Sessions, g \in Groups : SendMessage(s, g)
    BY <1>10
  <2>a. PICK stamp \in 0..Len(msgs) : Write(s, g, stamp)
    BY StampIs
  <2>b. MsgsOK' /\ Adds(s, g, stamp)
    BY <2>a, WriteIs
  <2>1. UNCHANGED <<taken, inbox, head>> /\ Len(msgs) \in Nat
    BY <2>a DEF Write, reading, MsgsOK
  <2> QED
    BY <2>b, <2>1 DEF Adds, ReadOK
<1>11. CASE \E s \in Sessions, g \in Groups : SayTo(s, g)
  <2> PICK s \in Sessions, g \in Groups : SayTo(s, g)
    BY <1>11
  <2>a. PICK stamp \in 0..Len(msgs) : Write(s, g, stamp)
    BY StampIs
  <2>b. MsgsOK' /\ Adds(s, g, stamp)
    BY <2>a, WriteIs
  <2>1. UNCHANGED <<taken, inbox, head>> /\ Len(msgs) \in Nat
    BY <2>a DEF Write, reading, MsgsOK
  <2> QED
    BY <2>b, <2>1 DEF Adds, ReadOK
<1>12. CASE \E s \in Sessions, g \in Groups : HandleCreateAgent(s, g)
  BY <1>12 DEF HandleCreateAgent, central, sessions, mail, reading, bounds, Command, ReadOK
<1>13. CASE \E m \in Ids : RoutePasses(m)
  <2> PICK m \in Ids : RoutePasses(m)
    BY <1>13
  <2>1. PerformAgentRoute(m, msgs[m].re) => \E s \in Sessions : Gets(m, s)
    BY RouteIs
  <2>2. \A s \in Sessions : Len(inbox[s]) \in Nat
    BY DEF InboxOK
  <2>3. UNCHANGED <<taken, head, msgs>>
    BY DEF RoutePasses, reading
  <2>4. \A s \in Sessions : Len(inbox[s]) <= Len(inbox'[s])
    BY <2>1, <2>2 DEF RoutePasses, Gets
  <2>5. \A s \in Sessions : Len(inbox'[s]) \in Nat
    BY <2>2, InboxStays DEF InboxOK
  <2> QED
    BY <2>2, <2>3, <2>4, <2>5 DEF ReadOK
<1>14. CASE \E m \in Ids : RouteFails(m)
  BY <1>14 DEF RouteFails, central, sessions, mail, reading, bounds, Routable, ReadOK
<1>15. CASE \E m \in Ids : RouteHolds(m)
  BY <1>15 DEF RouteHolds, central, sessions, mail, reading, bounds, Consume, Routable, ReadOK
<1>16. CASE \E m \in Ids : Approve(m)
  <2> PICK m \in Ids : Approve(m)
    BY <1>16
  <2>1. PerformAgentRoute(m, msgs[m].re) => \E s \in Sessions : Gets(m, s)
    BY RouteIs
  <2>2. \A s \in Sessions : Len(inbox[s]) \in Nat
    BY DEF InboxOK
  <2>3. UNCHANGED <<taken, head, msgs>>
    BY DEF Approve, reading
  <2>4. \A s \in Sessions : Len(inbox[s]) <= Len(inbox'[s])
    BY <2>1, <2>2 DEF Approve, Gets
  <2>5. \A s \in Sessions : Len(inbox'[s]) \in Nat
    BY <2>2, InboxStays DEF InboxOK
  <2> QED
    BY <2>2, <2>3, <2>4, <2>5 DEF ReadOK
<1>17. CASE \E m \in Ids : Reject(m)
  BY <1>17 DEF Reject, central, sessions, mail, reading, bounds, Answered, ReadOK
<1>18. CASE \E g \in Groups, t \in Targets : AddDestination(g, t)
  BY <1>18 DEF AddDestination, mail, reading, bounds, Command, ReadOK
<1>19. CASE \E g \in Groups, t \in Targets : RemoveDestination(g, t)
  BY <1>19 DEF RemoveDestination, mail, reading, bounds, Command, ReadOK
<1>20. CASE \E g \in Groups, c \in Channels : WireChannel(g, c)
  BY <1>20 DEF WireChannel, sessions, mail, reading, bounds, Command, ReadOK
<1>21. CASE \E g, h \in Groups : SetPolicy(g, h)
  BY <1>21 DEF SetPolicy, sessions, mail, reading, bounds, Command, ReadOK
<1>22. CASE \E g, h \in Groups : RemovePolicy(g, h)
  BY <1>22 DEF RemovePolicy, sessions, mail, reading, bounds, Command, ReadOK
<1>23. CASE \E g \in Groups : DeleteGroup(g)
  BY <1>23 DEF DeleteGroup, reading, bounds, Command, ReadOK
<1>24. CASE UNCHANGED vars
  BY <1>24 DEF vars, central, sessions, mail, reading, bounds, ReadOK
<1>25. CASE \E c \in Channels : DeleteChannel(c)
  BY <1>25 DEF DeleteChannel, sessions, mail, reading, bounds, Command, ReadOK
<1> QED
  BY <1>1, <1>2, <1>3, <1>4, <1>5, <1>6, <1>7, <1>8, <1>9, <1>10, <1>11, <1>12, <1>13, <1>14, <1>15, <1>16, <1>17, <1>18, <1>19, <1>20, <1>21, <1>22, <1>23, <1>24, <1>25 DEF Next

LEMMA AskedOnceStays ==
    ASSUME MsgsOK, MailOK, InboxOK, HeldOK, ReadOK, BoundsOK, AskedOnce, [Next]_vars
    PROVE  AskedOnce'
<1>1. CASE \E s \in Sessions : OpenSession(s)
  BY <1>1, Numbers DEF OpenSession, central, sessions, mail, reading, bounds, AskedOnce, HeldOK, BoundsOK
<1>2. CASE \E s \in Sessions : Spawn(s)
  BY <1>2, Numbers DEF Spawn, central, sessions, mail, reading, bounds, AskedOnce, HeldOK, BoundsOK
<1>3. CASE \E s \in Sessions : Exit(s)
  BY <1>3, Numbers DEF Exit, central, sessions, mail, reading, bounds, AskedOnce, HeldOK, BoundsOK
<1>4. CASE \E s \in Sessions : Close(s)
  BY <1>4, Numbers DEF Close, central, sessions, mail, reading, bounds, AskedOnce, HeldOK, BoundsOK
<1>5. CASE \E s \in Sessions : TakeBatch(s)
  BY <1>5, Numbers DEF TakeBatch, central, sessions, mail, reading, bounds, AskedOnce, HeldOK, BoundsOK
<1>6. CASE \E s \in Sessions : FollowUp(s)
  BY <1>6, Numbers DEF FollowUp, central, sessions, mail, reading, bounds, AskedOnce, HeldOK, BoundsOK
<1>7. CASE \E s \in Sessions : EndBatch(s)
  BY <1>7, Numbers DEF EndBatch, central, sessions, mail, reading, bounds, AskedOnce, HeldOK, BoundsOK
<1>8. CASE \E s \in Sessions : CreateRefused(s)
  BY <1>8, Numbers DEF CreateRefused, central, sessions, mail, reading, bounds, AskedOnce, HeldOK, BoundsOK
<1>9. CASE \E s \in Sessions : PerformCreateAgent(s)
  BY <1>9, Numbers DEF PerformCreateAgent, mail, reading, bounds, AskedOnce, HeldOK, BoundsOK
<1>10. CASE \E s \in Sessions, g \in Groups : SendMessage(s, g)
  <2> PICK s \in Sessions, g \in Groups : SendMessage(s, g)
    BY <1>10
  <2>a. PICK stamp \in 0..Len(msgs) : Write(s, g, stamp)
    BY StampIs
  <2>b. MsgsOK' /\ Adds(s, g, stamp)
    BY <2>a, WriteIs
  <2>1. UNCHANGED <<held, asked, crashed, faults, budget>>
    BY <2>a DEF Write, bounds
  <2>2. Len(msgs) + 1 \notin Ids /\ queue' = queue \union {Len(msgs) + 1}
    BY <2>b, IdsGrow DEF Adds
  <2>3. Len(msgs) + 1 \notin asked \union crashed
    BY <2>2 DEF MailOK
  <2> QED
    BY <2>1, <2>2, <2>3 DEF AskedOnce, HeldOK, BoundsOK
<1>11. CASE \E s \in Sessions, g \in Groups : SayTo(s, g)
  <2> PICK s \in Sessions, g \in Groups : SayTo(s, g)
    BY <1>11
  <2>a. PICK stamp \in 0..Len(msgs) : Write(s, g, stamp)
    BY StampIs
  <2>b. MsgsOK' /\ Adds(s, g, stamp)
    BY <2>a, WriteIs
  <2>1. UNCHANGED <<held, asked, crashed, faults, budget>>
    BY <2>a DEF Write, bounds
  <2>2. Len(msgs) + 1 \notin Ids /\ queue' = queue \union {Len(msgs) + 1}
    BY <2>b, IdsGrow DEF Adds
  <2>3. Len(msgs) + 1 \notin asked \union crashed
    BY <2>2 DEF MailOK
  <2> QED
    BY <2>1, <2>2, <2>3 DEF AskedOnce, HeldOK, BoundsOK
<1>12. CASE \E s \in Sessions, g \in Groups : HandleCreateAgent(s, g)
  BY <1>12, Numbers DEF HandleCreateAgent, central, sessions, mail, reading, bounds, Command, AskedOnce, HeldOK, BoundsOK
<1>13. CASE \E m \in Ids : RoutePasses(m)
  BY <1>13, Numbers DEF RoutePasses, central, sessions, mail, reading, bounds, Consume, Routable, AskedOnce, HeldOK, BoundsOK
<1>14. CASE \E m \in Ids : RouteFails(m)
  BY SMTT(30), <1>14, Numbers DEF RouteFails, central, sessions, mail, reading, bounds, Routable, AskedOnce, HeldOK, BoundsOK
<1>15. CASE \E m \in Ids : RouteHolds(m)
  <2> PICK m \in Ids : RouteHolds(m)
    BY <1>15
  <2>1. m \in queue /\ m \in 1..MaxMessages /\ faults \in Nat /\ asked' = asked \union {m} /\ budget' = budget
    BY Numbers DEF RouteHolds, Routable, MsgsOK, Ids, BoundsOK
  <2>2. \A n \in 1..MaxMessages : held[n] \in Nat /\ held'[n] \in Nat /\ (n # m => held'[n] = held[n])
                                /\ held'[n] <= held[n] + 1
    <3>1. held' = held \/ held' = [held EXCEPT ![m] = @ + 1]
      BY DEF RouteHolds
    <3>2. \A n \in 1..MaxMessages : held[n] \in Nat
      BY Numbers DEF HeldOK
    <3>3. \A n \in 1..MaxMessages : held'[n] \in {held[n], IF n = m THEN held[n] + 1 ELSE held[n]}
      BY <2>1, <3>1 DEF HeldOK
    <3> QED
      BY <3>2, <3>3
  <2>3. CASE queue' = queue \ {m} /\ UNCHANGED <<crashed, faults>>
    BY <2>1, <2>2, <2>3 DEF AskedOnce
  <2>4. CASE queue' = queue /\ crashed' = crashed \union {m} /\ faults' = faults + 1 /\ faults < budget.faults
    <3>1. faults + 1 <= budget.faults
      BY <2>1, <2>4, Numbers DEF BoundsOK
    <3> QED
      BY <2>1, <2>2, <2>4, <3>1 DEF AskedOnce
  <2> QED
    BY <2>3, <2>4 DEF RouteHolds, Consume
<1>16. CASE \E m \in Ids : Approve(m)
  BY <1>16, Numbers DEF Approve, central, sessions, mail, reading, bounds, Answered, AskedOnce, HeldOK, BoundsOK
<1>17. CASE \E m \in Ids : Reject(m)
  BY <1>17, Numbers DEF Reject, central, sessions, mail, reading, bounds, Answered, AskedOnce, HeldOK, BoundsOK
<1>18. CASE \E g \in Groups, t \in Targets : AddDestination(g, t)
  BY <1>18, Numbers DEF AddDestination, mail, reading, bounds, Command, AskedOnce, HeldOK, BoundsOK
<1>19. CASE \E g \in Groups, t \in Targets : RemoveDestination(g, t)
  BY <1>19, Numbers DEF RemoveDestination, mail, reading, bounds, Command, AskedOnce, HeldOK, BoundsOK
<1>20. CASE \E g \in Groups, c \in Channels : WireChannel(g, c)
  BY <1>20, Numbers DEF WireChannel, sessions, mail, reading, bounds, Command, AskedOnce, HeldOK, BoundsOK
<1>21. CASE \E g, h \in Groups : SetPolicy(g, h)
  BY <1>21, Numbers DEF SetPolicy, sessions, mail, reading, bounds, Command, AskedOnce, HeldOK, BoundsOK
<1>22. CASE \E g, h \in Groups : RemovePolicy(g, h)
  BY <1>22, Numbers DEF RemovePolicy, sessions, mail, reading, bounds, Command, AskedOnce, HeldOK, BoundsOK
<1>23. CASE \E g \in Groups : DeleteGroup(g)
  BY <1>23, Numbers DEF DeleteGroup, reading, bounds, Command, AskedOnce, HeldOK, BoundsOK
<1>24. CASE UNCHANGED vars
  BY <1>24, Numbers DEF vars, central, sessions, mail, reading, bounds, AskedOnce, HeldOK, BoundsOK
<1>25. CASE \E c \in Channels : DeleteChannel(c)
  BY <1>25, Numbers DEF DeleteChannel, sessions, mail, reading, bounds, Command, AskedOnce, HeldOK, BoundsOK
<1> QED
  BY <1>1, <1>2, <1>3, <1>4, <1>5, <1>6, <1>7, <1>8, <1>9, <1>10, <1>11, <1>12, <1>13, <1>14, <1>15, <1>16, <1>17, <1>18, <1>19, <1>20, <1>21, <1>22, <1>23, <1>24, <1>25 DEF Next

LEMMA HeldStays ==
    ASSUME MsgsOK, MailOK, HeldOK, BoundsOK, AskedOnce, [Next]_vars
    PROVE  HeldOK'
<1>1. CASE \E s \in Sessions : OpenSession(s)
  BY <1>1, Numbers DEF OpenSession, central, sessions, mail, reading, bounds, HeldOK
<1>2. CASE \E s \in Sessions : Spawn(s)
  BY <1>2, Numbers DEF Spawn, central, sessions, mail, reading, bounds, HeldOK
<1>3. CASE \E s \in Sessions : Exit(s)
  BY <1>3, Numbers DEF Exit, central, sessions, mail, reading, bounds, HeldOK
<1>4. CASE \E s \in Sessions : Close(s)
  BY <1>4, Numbers DEF Close, central, sessions, mail, reading, bounds, HeldOK
<1>5. CASE \E s \in Sessions : TakeBatch(s)
  BY <1>5, Numbers DEF TakeBatch, central, sessions, mail, reading, bounds, HeldOK
<1>6. CASE \E s \in Sessions : FollowUp(s)
  BY <1>6, Numbers DEF FollowUp, central, sessions, mail, reading, bounds, HeldOK
<1>7. CASE \E s \in Sessions : EndBatch(s)
  BY <1>7, Numbers DEF EndBatch, central, sessions, mail, reading, bounds, HeldOK
<1>8. CASE \E s \in Sessions : CreateRefused(s)
  BY <1>8, Numbers DEF CreateRefused, central, sessions, mail, reading, bounds, HeldOK
<1>9. CASE \E s \in Sessions : PerformCreateAgent(s)
  BY <1>9, Numbers DEF PerformCreateAgent, mail, reading, bounds, HeldOK
<1>10. CASE \E s \in Sessions, g \in Groups : SendMessage(s, g)
  BY <1>10, Numbers DEF SendMessage, Write, central, sessions, mail, reading, bounds, HeldOK
<1>11. CASE \E s \in Sessions, g \in Groups : SayTo(s, g)
  BY <1>11, Numbers DEF SayTo, Write, central, sessions, mail, reading, bounds, HeldOK
<1>12. CASE \E s \in Sessions, g \in Groups : HandleCreateAgent(s, g)
  BY <1>12, Numbers DEF HandleCreateAgent, central, sessions, mail, reading, bounds, Command, HeldOK
<1>13. CASE \E m \in Ids : RoutePasses(m)
  BY <1>13, Numbers DEF RoutePasses, central, sessions, mail, reading, bounds, Consume, Routable, HeldOK
<1>14. CASE \E m \in Ids : RouteFails(m)
  BY <1>14, Numbers DEF RouteFails, central, sessions, mail, reading, bounds, Routable, HeldOK
<1>15. CASE \E m \in Ids : RouteHolds(m)
  <2> PICK m \in Ids : RouteHolds(m)
    BY <1>15
  <2>1. faults \in Nat /\ faults <= MaxFaults /\ held[m] \in Nat /\ m \in 1..MaxMessages
    BY Numbers DEF BoundsOK, HeldOK, MsgsOK, Ids
  <2>2. held' = held \/ held' = [held EXCEPT ![m] = @ + 1]
    BY DEF RouteHolds
  <2>3. held[m] <= faults
    BY <2>1 DEF RouteHolds, Routable, AskedOnce
  <2>4. held[m] + 1 \in 0..(MaxFaults + 1)
    BY <2>1, <2>3, Numbers
  <2> QED
    BY <2>1, <2>2, <2>4 DEF HeldOK
<1>16. CASE \E m \in Ids : Approve(m)
  BY <1>16, Numbers DEF Approve, central, sessions, mail, reading, bounds, Answered, HeldOK, MsgsOK, Ids
<1>17. CASE \E m \in Ids : Reject(m)
  BY <1>17, Numbers DEF Reject, central, sessions, mail, reading, bounds, Answered, HeldOK, MsgsOK, Ids
<1>18. CASE \E g \in Groups, t \in Targets : AddDestination(g, t)
  BY <1>18, Numbers DEF AddDestination, mail, reading, bounds, Command, HeldOK
<1>19. CASE \E g \in Groups, t \in Targets : RemoveDestination(g, t)
  BY <1>19, Numbers DEF RemoveDestination, mail, reading, bounds, Command, HeldOK
<1>20. CASE \E g \in Groups, c \in Channels : WireChannel(g, c)
  BY <1>20, Numbers DEF WireChannel, sessions, mail, reading, bounds, Command, HeldOK
<1>21. CASE \E g, h \in Groups : SetPolicy(g, h)
  BY <1>21, Numbers DEF SetPolicy, sessions, mail, reading, bounds, Command, HeldOK
<1>22. CASE \E g, h \in Groups : RemovePolicy(g, h)
  BY <1>22, Numbers DEF RemovePolicy, sessions, mail, reading, bounds, Command, HeldOK
<1>23. CASE \E g \in Groups : DeleteGroup(g)
  BY <1>23, Numbers DEF DeleteGroup, reading, bounds, Command, HeldOK
<1>24. CASE UNCHANGED vars
  BY <1>24, Numbers DEF vars, central, sessions, mail, reading, bounds, HeldOK
<1>25. CASE \E c \in Channels : DeleteChannel(c)
  BY <1>25, Numbers DEF DeleteChannel, sessions, mail, reading, bounds, Command, HeldOK
<1> QED
  BY <1>1, <1>2, <1>3, <1>4, <1>5, <1>6, <1>7, <1>8, <1>9, <1>10, <1>11, <1>12, <1>13, <1>14, <1>15, <1>16, <1>17, <1>18, <1>19, <1>20, <1>21, <1>22, <1>23, <1>24, <1>25 DEF Next

LEMMA StampedStays ==
    ASSUME MsgsOK, InboxOK, ReadOK, BoundsOK, Stamped, [Next]_vars
    PROVE  Stamped'
<1>1. CASE \E s \in Sessions : OpenSession(s)
  BY <1>1 DEF OpenSession, central, sessions, mail, reading, bounds, Stamped, Ids
<1>2. CASE \E s \in Sessions : Spawn(s)
  BY <1>2 DEF Spawn, central, sessions, mail, reading, bounds, Stamped, Ids
<1>3. CASE \E s \in Sessions : Exit(s)
  BY <1>3 DEF Exit, central, sessions, mail, reading, bounds, Stamped, Ids
<1>4. CASE \E s \in Sessions : Close(s)
  BY <1>4 DEF Close, central, sessions, mail, reading, bounds, Stamped, Ids
<1>5. CASE \E s \in Sessions : TakeBatch(s)
  BY <1>5 DEF TakeBatch, central, sessions, mail, reading, bounds, Stamped, Ids
<1>6. CASE \E s \in Sessions : FollowUp(s)
  BY <1>6 DEF FollowUp, central, sessions, mail, reading, bounds, Stamped, Ids
<1>7. CASE \E s \in Sessions : EndBatch(s)
  BY <1>7 DEF EndBatch, central, sessions, mail, reading, bounds, Stamped, Ids
<1>8. CASE \E s \in Sessions : CreateRefused(s)
  BY <1>8 DEF CreateRefused, central, sessions, mail, reading, bounds, Stamped, Ids
<1>9. CASE \E s \in Sessions : PerformCreateAgent(s)
  BY <1>9 DEF PerformCreateAgent, mail, reading, bounds, Stamped, Ids
<1>10. CASE \E s \in Sessions, g \in Groups : SendMessage(s, g)
  <2> PICK s \in Sessions, g \in Groups : SendMessage(s, g)
    BY <1>10
  <2>a. PICK stamp \in 0..Len(msgs) : Write(s, g, stamp)
    BY StampIs
  <2>b. MsgsOK' /\ Adds(s, g, stamp)
    BY <2>a, WriteIs
  <2>1. Ids' = Ids \union {Len(msgs) + 1} /\ Len(msgs) + 1 \notin Ids
    BY <2>b, IdsGrow
  <2>2. /\ msgs'[Len(msgs) + 1] = [from |-> s, to |-> g, re |-> stamp,
              answers |-> IF stamp = head[s] /\ IsFrom(head[s], g) THEN head[s] ELSE 0]
        /\ \A m \in Ids : msgs'[m] = msgs[m]
    BY <2>b DEF Adds
  <2>3. Len(msgs) \in Nat /\ Len(msgs') = Len(msgs) + 1 /\ head[s] \in 0..Len(msgs)
    BY <2>b DEF Adds, MsgsOK, ReadOK
  <2>4. \A m \in Ids : msgs[m].answers # 0 => msgs[m].answers \in Ids
    BY <2>3 DEF Stamped, Ids
  <2>5. ASSUME NEW m \in Ids
        PROVE  /\ msgs'[m].re \in 0..Len(msgs')
               /\ msgs'[m].answers # 0 =>
                     /\ msgs'[m].answers = msgs'[m].re
                     /\ GroupOf[msgs'[msgs'[m].answers].from] = msgs'[m].to
    BY <2>2, <2>3, <2>4 DEF Stamped
  <2>6. CASE stamp = head[s] /\ IsFrom(head[s], g)
    <3>1. msgs'[Len(msgs) + 1] = [from |-> s, to |-> g, re |-> stamp, answers |-> stamp] /\ stamp \in Ids
      BY <2>2, <2>3, <2>6 DEF IsFrom, Ids
    <3>2. GroupOf[msgs'[stamp].from] = g
      BY <2>2, <2>6, <3>1 DEF IsFrom
    <3> QED
      BY <2>1, <2>3, <2>5, <3>1, <3>2 DEF Stamped
  <2>7. CASE ~(stamp = head[s] /\ IsFrom(head[s], g))
    <3>1. msgs'[Len(msgs) + 1].re = stamp /\ msgs'[Len(msgs) + 1].answers = 0
      BY <2>2, <2>7
    <3> QED
      BY <2>1, <2>3, <2>5, <3>1 DEF Stamped
  <2> QED
    BY <2>6, <2>7
<1>11. CASE \E s \in Sessions, g \in Groups : SayTo(s, g)
  <2> PICK s \in Sessions, g \in Groups : SayTo(s, g)
    BY <1>11
  <2>a. PICK stamp \in 0..Len(msgs) : Write(s, g, stamp)
    BY StampIs
  <2>b. MsgsOK' /\ Adds(s, g, stamp)
    BY <2>a, WriteIs
  <2>1. Ids' = Ids \union {Len(msgs) + 1} /\ Len(msgs) + 1 \notin Ids
    BY <2>b, IdsGrow
  <2>2. /\ msgs'[Len(msgs) + 1] = [from |-> s, to |-> g, re |-> stamp,
              answers |-> IF stamp = head[s] /\ IsFrom(head[s], g) THEN head[s] ELSE 0]
        /\ \A m \in Ids : msgs'[m] = msgs[m]
    BY <2>b DEF Adds
  <2>3. Len(msgs) \in Nat /\ Len(msgs') = Len(msgs) + 1 /\ head[s] \in 0..Len(msgs)
    BY <2>b DEF Adds, MsgsOK, ReadOK
  <2>4. \A m \in Ids : msgs[m].answers # 0 => msgs[m].answers \in Ids
    BY <2>3 DEF Stamped, Ids
  <2>5. ASSUME NEW m \in Ids
        PROVE  /\ msgs'[m].re \in 0..Len(msgs')
               /\ msgs'[m].answers # 0 =>
                     /\ msgs'[m].answers = msgs'[m].re
                     /\ GroupOf[msgs'[msgs'[m].answers].from] = msgs'[m].to
    BY <2>2, <2>3, <2>4 DEF Stamped
  <2>6. CASE stamp = head[s] /\ IsFrom(head[s], g)
    <3>1. msgs'[Len(msgs) + 1] = [from |-> s, to |-> g, re |-> stamp, answers |-> stamp] /\ stamp \in Ids
      BY <2>2, <2>3, <2>6 DEF IsFrom, Ids
    <3>2. GroupOf[msgs'[stamp].from] = g
      BY <2>2, <2>6, <3>1 DEF IsFrom
    <3> QED
      BY <2>1, <2>3, <2>5, <3>1, <3>2 DEF Stamped
  <2>7. CASE ~(stamp = head[s] /\ IsFrom(head[s], g))
    <3>1. msgs'[Len(msgs) + 1].re = stamp /\ msgs'[Len(msgs) + 1].answers = 0
      BY <2>2, <2>7
    <3> QED
      BY <2>1, <2>3, <2>5, <3>1 DEF Stamped
  <2> QED
    BY <2>6, <2>7
<1>12. CASE \E s \in Sessions, g \in Groups : HandleCreateAgent(s, g)
  BY <1>12 DEF HandleCreateAgent, central, sessions, mail, reading, bounds, Command, Stamped, Ids
<1>13. CASE \E m \in Ids : RoutePasses(m)
  BY <1>13 DEF RoutePasses, central, sessions, mail, reading, bounds, Consume, Routable, Stamped, Ids
<1>14. CASE \E m \in Ids : RouteFails(m)
  BY <1>14 DEF RouteFails, central, sessions, mail, reading, bounds, Routable, Stamped, Ids
<1>15. CASE \E m \in Ids : RouteHolds(m)
  BY <1>15 DEF RouteHolds, central, sessions, mail, reading, bounds, Consume, Routable, Stamped, Ids
<1>16. CASE \E m \in Ids : Approve(m)
  BY <1>16 DEF Approve, central, sessions, mail, reading, bounds, Answered, Stamped, Ids
<1>17. CASE \E m \in Ids : Reject(m)
  BY <1>17 DEF Reject, central, sessions, mail, reading, bounds, Answered, Stamped, Ids
<1>18. CASE \E g \in Groups, t \in Targets : AddDestination(g, t)
  BY <1>18 DEF AddDestination, mail, reading, bounds, Command, Stamped, Ids
<1>19. CASE \E g \in Groups, t \in Targets : RemoveDestination(g, t)
  BY <1>19 DEF RemoveDestination, mail, reading, bounds, Command, Stamped, Ids
<1>20. CASE \E g \in Groups, c \in Channels : WireChannel(g, c)
  BY <1>20 DEF WireChannel, sessions, mail, reading, bounds, Command, Stamped, Ids
<1>21. CASE \E g, h \in Groups : SetPolicy(g, h)
  BY <1>21 DEF SetPolicy, sessions, mail, reading, bounds, Command, Stamped, Ids
<1>22. CASE \E g, h \in Groups : RemovePolicy(g, h)
  BY <1>22 DEF RemovePolicy, sessions, mail, reading, bounds, Command, Stamped, Ids
<1>23. CASE \E g \in Groups : DeleteGroup(g)
  BY <1>23 DEF DeleteGroup, reading, bounds, Command, Stamped, Ids
<1>24. CASE UNCHANGED vars
  BY <1>24 DEF vars, central, sessions, mail, reading, bounds, Stamped, Ids
<1>25. CASE \E c \in Channels : DeleteChannel(c)
  BY <1>25 DEF DeleteChannel, sessions, mail, reading, bounds, Command, Stamped, Ids
<1> QED
  BY <1>1, <1>2, <1>3, <1>4, <1>5, <1>6, <1>7, <1>8, <1>9, <1>10, <1>11, <1>12, <1>13, <1>14, <1>15, <1>16, <1>17, <1>18, <1>19, <1>20, <1>21, <1>22, <1>23, <1>24, <1>25 DEF Next

LEMMA RootedStays ==
    ASSUME CentralOK, SessionsOK, InboxOK, BoundsOK, Rooted, [Next]_vars
    PROVE  Rooted'
<1>1. CASE \E s \in Sessions : OpenSession(s)
  BY <1>1, Kinds DEF OpenSession, central, sessions, mail, reading, bounds, Rooted, CentralOK, SessionsOK, Alive
<1>2. CASE \E s \in Sessions : Spawn(s)
  BY <1>2, Kinds DEF Spawn, central, sessions, mail, reading, bounds, Rooted, CentralOK, SessionsOK, Alive, Projection
<1>3. CASE \E s \in Sessions : Exit(s)
  BY <1>3, Kinds DEF Exit, central, sessions, mail, reading, bounds, Rooted, CentralOK, SessionsOK, Alive
<1>4. CASE \E s \in Sessions : Close(s)
  BY <1>4, Kinds DEF Close, central, sessions, mail, reading, bounds, Rooted, CentralOK, SessionsOK, Alive
<1>5. CASE \E s \in Sessions : TakeBatch(s)
  BY <1>5, Kinds DEF TakeBatch, central, sessions, mail, reading, bounds, Rooted, CentralOK, SessionsOK, Alive
<1>6. CASE \E s \in Sessions : FollowUp(s)
  BY <1>6, Kinds DEF FollowUp, central, sessions, mail, reading, bounds, Rooted, CentralOK, SessionsOK, Alive
<1>7. CASE \E s \in Sessions : EndBatch(s)
  BY <1>7, Kinds DEF EndBatch, central, sessions, mail, reading, bounds, Rooted, CentralOK, SessionsOK, Alive
<1>8. CASE \E s \in Sessions : CreateRefused(s)
  BY <1>8, Kinds DEF CreateRefused, central, sessions, mail, reading, bounds, Rooted, CentralOK, SessionsOK, Alive
<1>9. CASE \E s \in Sessions : PerformCreateAgent(s)
  <2> PICK s \in Sessions : PerformCreateAgent(s)
    BY <1>9
  <2>1. CentralOK'
    BY CentralStays
  <2>2. wish' = [wish EXCEPT ![s] = NoGroup] /\ UNCHANGED <<live, up>> /\ wish[s] # NoGroup
    BY DEF PerformCreateAgent
  <2>3. group[GroupOf[s]] = "alive" /\ live[s] # "none"
    BY <2>2 DEF Rooted
  <2>4. \A t \in Targets : group[t] # "new" => group'[t] # "new"
    BY CreateIs
  <2>5. \A h \in Groups : dests'[h] # {} => group'[h] = "alive" /\ \A t \in dests'[h] : group'[t] # "new"
    <3> SUFFICES ASSUME NEW h \in Groups, dests'[h] # {}
                 PROVE  group'[h] = "alive" /\ \A t \in dests'[h] : group'[t] # "new"
      OBVIOUS
    <3>1. wish[s] \in Groups /\ GroupOf[s] \in Groups /\ wish[s] \in Targets /\ GroupOf[s] \in Targets
      BY CreateIs, Kinds
    <3>2. dests[h] # {} \/ h = GroupOf[s] \/ h = wish[s]
      BY CreateIs
    <3>3. group'[h] = "alive"
      BY <2>3, <3>1, <3>2, CreateIs, Kinds DEF Rooted
    <3>4. ASSUME NEW t \in dests[h] PROVE group'[t] # "new"
      <4>1. t \in Targets /\ group[t] # "new"
        BY <3>4 DEF Rooted, CentralOK
      <4> QED
        BY <2>4, <4>1
    <3>5. group'[wish[s]] # "new" /\ group'[GroupOf[s]] # "new"
      BY <2>3, <3>1, CreateIs
    <3> QED
      BY <3>3, <3>4, <3>5, CreateIs
  <2>6. \A z \in Sessions : \A t \in proj'[z] : group'[t] # "new"
    BY <2>1, <2>3, CreateIs, CreateProjects DEF Rooted, Alive, CentralOK
  <2>7. \A z \in Sessions : live'[z] = "none" => proj'[z] = {}
    BY <2>1, <2>2, <2>3, CreateProjects DEF Rooted
  <2>8. \A h \in Groups : group[h] = "alive" => group'[h] = "alive"
    BY CreateIs, Kinds
  <2>9. \A z \in Sessions : wish'[z] # NoGroup => live'[z] \in {"active", "closed"}
    BY <2>2 DEF Rooted, SessionsOK
  <2>10. \A z \in Sessions : live'[z] \in {"active", "closed"} => group'[GroupOf[z]] = "alive"
    BY <2>2, <2>8, Kinds DEF Rooted
  <2>11. \A z \in Sessions : z \in up' => live'[z] # "none"
    BY <2>2 DEF Rooted
  <2> QED
    BY <2>5, <2>6, <2>7, <2>9, <2>10, <2>11 DEF Rooted
<1>10. CASE \E s \in Sessions, g \in Groups : SendMessage(s, g)
  BY <1>10, Kinds DEF SendMessage, Write, central, sessions, mail, reading, bounds, Rooted, CentralOK, SessionsOK, Alive
<1>11. CASE \E s \in Sessions, g \in Groups : SayTo(s, g)
  BY <1>11, Kinds DEF SayTo, Write, central, sessions, mail, reading, bounds, Rooted, CentralOK, SessionsOK, Alive
<1>12. CASE \E s \in Sessions, g \in Groups : HandleCreateAgent(s, g)
  BY <1>12, Kinds DEF HandleCreateAgent, central, sessions, mail, reading, bounds, Command, Rooted, CentralOK, SessionsOK, Alive
<1>13. CASE \E m \in Ids : RoutePasses(m)
  <2> PICK m \in Ids : RoutePasses(m)
    BY <1>13
  <2>1. PerformAgentRoute(m, msgs[m].re) => \E s \in Sessions : Gets(m, s)
    BY RouteIs
  <2>2. UNCHANGED <<group, dests, up, proj, wish>>
    BY DEF RoutePasses, central
  <2>3. live' = live \/ \E s \in Sessions : Gets(m, s) /\ Alive(msgs[m].to)
    BY <2>1 DEF RoutePasses
  <2>4. CASE live' = live
    BY <2>2, <2>4 DEF Rooted, Alive
  <2>5. ASSUME NEW s \in Sessions, Gets(m, s), Alive(msgs[m].to) PROVE Rooted'
    <3>1. live' = [live EXCEPT ![s] = "active"] /\ live[s] \in {"active", "none"} /\ group[GroupOf[s]] = "alive"
      BY <2>5, Kinds DEF Gets, Alive
    <3> QED
      BY <2>2, <3>1 DEF Rooted, Alive, SessionsOK
  <2> QED
    BY <2>3, <2>4, <2>5
<1>14. CASE \E m \in Ids : RouteFails(m)
  BY <1>14, Kinds DEF RouteFails, central, sessions, mail, reading, bounds, Routable, Rooted, CentralOK, SessionsOK, Alive
<1>15. CASE \E m \in Ids : RouteHolds(m)
  BY <1>15, Kinds DEF RouteHolds, central, sessions, mail, reading, bounds, Consume, Routable, Rooted, CentralOK, SessionsOK, Alive
<1>16. CASE \E m \in Ids : Approve(m)
  <2> PICK m \in Ids : Approve(m)
    BY <1>16
  <2>1. PerformAgentRoute(m, msgs[m].re) => \E s \in Sessions : Gets(m, s)
    BY RouteIs
  <2>2. UNCHANGED <<group, dests, up, proj, wish>>
    BY DEF Approve, central
  <2>3. live' = live \/ \E s \in Sessions : Gets(m, s) /\ Alive(msgs[m].to)
    BY <2>1 DEF Approve
  <2>4. CASE live' = live
    BY <2>2, <2>4 DEF Rooted, Alive
  <2>5. ASSUME NEW s \in Sessions, Gets(m, s), Alive(msgs[m].to) PROVE Rooted'
    <3>1. live' = [live EXCEPT ![s] = "active"] /\ live[s] \in {"active", "none"} /\ group[GroupOf[s]] = "alive"
      BY <2>5, Kinds DEF Gets, Alive
    <3> QED
      BY <2>2, <3>1 DEF Rooted, Alive, SessionsOK
  <2> QED
    BY <2>3, <2>4, <2>5
<1>17. CASE \E m \in Ids : Reject(m)
  BY <1>17, Kinds DEF Reject, central, sessions, mail, reading, bounds, Answered, Rooted, CentralOK, SessionsOK, Alive
<1>18. CASE \E g \in Groups, t \in Targets : AddDestination(g, t)
  <2> PICK g \in Groups, t \in Targets : AddDestination(g, t)
    BY <1>18
  <2>1. CentralOK' /\ Project(g)
    BY CentralStays DEF AddDestination
  <2>2. UNCHANGED <<group, live, up, wish>> /\ (dests[g] # {} \/ group[g] = "alive")
    BY DEF AddDestination
  <2>3. \A h \in Groups : dests'[h] # {} => group'[h] = "alive" /\ \A u \in dests'[h] : group'[u] # "new"
    BY <2>2 DEF AddDestination, Rooted, Alive, CentralOK
  <2>4. \A z \in Sessions : \A u \in proj'[z] : group'[u] # "new"
    BY <2>1, <2>2, ProjectIs DEF Rooted, Alive
  <2>5. \A z \in Sessions : live'[z] = "none" => proj'[z] = {}
    BY <2>1, <2>2, ProjectIs DEF Rooted, SessionsOf
  <2> QED
    BY <2>2, <2>3, <2>4, <2>5 DEF Rooted
<1>19. CASE \E g \in Groups, t \in Targets : RemoveDestination(g, t)
  <2> PICK g \in Groups, t \in Targets : RemoveDestination(g, t)
    BY <1>19
  <2>1. CentralOK' /\ Project(g)
    BY CentralStays DEF RemoveDestination
  <2>2. UNCHANGED <<group, live, up, wish>> /\ (dests[g] # {} \/ group[g] = "alive")
    BY DEF RemoveDestination
  <2>3. \A h \in Groups : dests'[h] # {} => group'[h] = "alive" /\ \A u \in dests'[h] : group'[u] # "new"
    BY <2>2 DEF RemoveDestination, Rooted, Alive, CentralOK
  <2>4. \A z \in Sessions : \A u \in proj'[z] : group'[u] # "new"
    BY <2>1, <2>2, ProjectIs DEF Rooted, Alive
  <2>5. \A z \in Sessions : live'[z] = "none" => proj'[z] = {}
    BY <2>1, <2>2, ProjectIs DEF Rooted, SessionsOf
  <2> QED
    BY <2>2, <2>3, <2>4, <2>5 DEF Rooted
<1>20. CASE \E g \in Groups, c \in Channels : WireChannel(g, c)
  BY <1>20, Kinds DEF WireChannel, sessions, mail, reading, bounds, Command, Rooted, CentralOK, SessionsOK, Alive
<1>21. CASE \E g, h \in Groups : SetPolicy(g, h)
  BY <1>21, Kinds DEF SetPolicy, sessions, mail, reading, bounds, Command, Rooted, CentralOK, SessionsOK, Alive
<1>22. CASE \E g, h \in Groups : RemovePolicy(g, h)
  BY <1>22, Kinds DEF RemovePolicy, sessions, mail, reading, bounds, Command, Rooted, CentralOK, SessionsOK, Alive
<1>23. CASE \E g \in Groups : DeleteGroup(g)
  <2> PICK g \in Groups : DeleteGroup(g)
    BY <1>23
  <2>1. /\ group' = [group EXCEPT ![g] = "deleted"] /\ UNCHANGED <<up, proj>>
        /\ dests' = [h \in Groups |-> IF h = g THEN {} ELSE dests[h] \ {g}]
        /\ live' = [s \in Sessions |-> IF GroupOf[s] = g /\ live[s] # "none" THEN "deleted" ELSE live[s]]
        /\ wish' = [s \in Sessions |-> IF GroupOf[s] = g THEN NoGroup ELSE wish[s]]
    BY DEF DeleteGroup
  <2>2. \A h \in Groups : dests'[h] # {} => group'[h] = "alive" /\ \A t \in dests'[h] : group'[t] # "new"
    BY <2>1 DEF Rooted, Alive, CentralOK
  <2>3. \A s \in Sessions : live'[s] \in {"active", "closed"} => group'[GroupOf[s]] = "alive"
    BY <2>1, Kinds DEF Rooted, CentralOK, SessionsOK
  <2>4. \A s \in Sessions : /\ s \in up' => live'[s] # "none"
                            /\ wish'[s] # NoGroup => live'[s] \in {"active", "closed"}
                            /\ live'[s] = "none" => proj'[s] = {}
    BY <2>1 DEF Rooted, SessionsOK
  <2>5. \A s \in Sessions : \A t \in proj'[s] : group'[t] # "new"
    BY <2>1 DEF Rooted, CentralOK
  <2> QED
    BY <2>2, <2>3, <2>4, <2>5 DEF Rooted
<1>24. CASE UNCHANGED vars
  BY <1>24, Kinds DEF vars, central, sessions, mail, reading, bounds, Rooted, CentralOK, SessionsOK, Alive
<1>25. CASE \E c \in Channels : DeleteChannel(c)
  BY <1>25, Kinds DEF DeleteChannel, sessions, mail, reading, bounds, Command, Rooted, CentralOK, SessionsOK, Alive
<1> QED
  BY <1>1, <1>2, <1>3, <1>4, <1>5, <1>6, <1>7, <1>8, <1>9, <1>10, <1>11, <1>12, <1>13, <1>14, <1>15, <1>16, <1>17, <1>18, <1>19, <1>20, <1>21, <1>22, <1>23, <1>24, <1>25 DEF Next

LEMMA KeptStays ==
    ASSUME CentralOK, SessionsOK, InboxOK, BoundsOK, Rooted, Kept, [Next]_vars
    PROVE  Kept'
<1>1. CASE \E s \in Sessions : OpenSession(s)
  BY <1>1, Kinds DEF OpenSession, central, sessions, mail, reading, bounds, Kept, SessionsOK, Alive
<1>2. CASE \E s \in Sessions : Spawn(s)
  BY <1>2, Kinds DEF Spawn, central, sessions, mail, reading, bounds, Kept, SessionsOK, Alive
<1>3. CASE \E s \in Sessions : Exit(s)
  BY <1>3, Kinds DEF Exit, central, sessions, mail, reading, bounds, Kept, SessionsOK, Alive
<1>4. CASE \E s \in Sessions : Close(s)
  BY <1>4, Kinds DEF Close, central, sessions, mail, reading, bounds, Kept, SessionsOK, Alive
<1>5. CASE \E s \in Sessions : TakeBatch(s)
  BY <1>5, Kinds DEF TakeBatch, central, sessions, mail, reading, bounds, Kept, SessionsOK, Alive
<1>6. CASE \E s \in Sessions : FollowUp(s)
  BY <1>6, Kinds DEF FollowUp, central, sessions, mail, reading, bounds, Kept, SessionsOK, Alive
<1>7. CASE \E s \in Sessions : EndBatch(s)
  BY <1>7, Kinds DEF EndBatch, central, sessions, mail, reading, bounds, Kept, SessionsOK, Alive
<1>8. CASE \E s \in Sessions : CreateRefused(s)
  BY <1>8, Kinds DEF CreateRefused, central, sessions, mail, reading, bounds, Kept, SessionsOK, Alive
<1>9. CASE \E s \in Sessions : PerformCreateAgent(s)
  <2> PICK s \in Sessions : PerformCreateAgent(s)
    BY <1>9
  <2>1. live' = live /\ promised' = promised \union {<<s, wish[s]>>} /\ wish[s] # NoGroup
    BY DEF PerformCreateAgent
  <2>2. \A h \in Groups : dests[h] \subseteq dests'[h]
    BY CreateIs
  <2>3. wish[s] \in dests'[GroupOf[s]] /\ group'[wish[s]] # "new" /\ live[s] # "none"
    BY <2>1, CreateIs DEF Rooted, CentralOK
  <2>4. \A t \in Targets : (~Alive(t) /\ group[t] # "new") => ~Alive(t)'
    BY CreateIs DEF Alive, CentralOK
  <2>5. \A t \in Targets : group[t] # "new" => group'[t] # "new"
    BY CreateIs
  <2>6. ASSUME NEW p \in promised
        PROVE  /\ live'[p[1]] # "none" /\ group'[p[2]] # "new"
               /\ p[2] \in dests'[GroupOf[p[1]]] \/ live'[p[1]] = "deleted" \/ ~Alive(p[2])'
    <3>1. p[1] \in Sessions /\ p[2] \in Targets /\ GroupOf[p[1]] \in Groups
      BY Kinds DEF SessionsOK
    <3> QED
      BY <2>1, <2>2, <2>4, <2>5, <3>1 DEF Kept
  <2>7. ASSUME NEW p, p = <<s, wish[s]>>
        PROVE  /\ live'[p[1]] # "none" /\ group'[p[2]] # "new"
               /\ p[2] \in dests'[GroupOf[p[1]]] \/ live'[p[1]] = "deleted" \/ ~Alive(p[2])'
    BY <2>1, <2>3, <2>7
  <2> QED
    BY <2>1, <2>6, <2>7 DEF Kept
<1>10. CASE \E s \in Sessions, g \in Groups : SendMessage(s, g)
  BY <1>10, Kinds DEF SendMessage, Write, central, sessions, mail, reading, bounds, Kept, SessionsOK, Alive
<1>11. CASE \E s \in Sessions, g \in Groups : SayTo(s, g)
  BY <1>11, Kinds DEF SayTo, Write, central, sessions, mail, reading, bounds, Kept, SessionsOK, Alive
<1>12. CASE \E s \in Sessions, g \in Groups : HandleCreateAgent(s, g)
  BY <1>12, Kinds DEF HandleCreateAgent, central, sessions, mail, reading, bounds, Command, Kept, SessionsOK, Alive
<1>13. CASE \E m \in Ids : RoutePasses(m)
  <2> PICK m \in Ids : RoutePasses(m)
    BY <1>13
  <2>1. PerformAgentRoute(m, msgs[m].re) => \E s \in Sessions : Gets(m, s)
    BY RouteIs
  <2>2. UNCHANGED <<group, dests, promised>>
    BY DEF RoutePasses, central
  <2>3. \A s \in Sessions : (live[s] # "none" => live'[s] # "none") /\ (live[s] = "deleted" => live'[s] = "deleted")
    BY <2>1 DEF RoutePasses, Gets, SessionsOK
  <2> QED
    BY <2>2, <2>3 DEF Kept, Alive, SessionsOK
<1>14. CASE \E m \in Ids : RouteFails(m)
  BY <1>14, Kinds DEF RouteFails, central, sessions, mail, reading, bounds, Routable, Kept, SessionsOK, Alive
<1>15. CASE \E m \in Ids : RouteHolds(m)
  BY <1>15, Kinds DEF RouteHolds, central, sessions, mail, reading, bounds, Consume, Routable, Kept, SessionsOK, Alive
<1>16. CASE \E m \in Ids : Approve(m)
  <2> PICK m \in Ids : Approve(m)
    BY <1>16
  <2>1. PerformAgentRoute(m, msgs[m].re) => \E s \in Sessions : Gets(m, s)
    BY RouteIs
  <2>2. UNCHANGED <<group, dests, promised>>
    BY DEF Approve, central
  <2>3. \A s \in Sessions : (live[s] # "none" => live'[s] # "none") /\ (live[s] = "deleted" => live'[s] = "deleted")
    BY <2>1 DEF Approve, Gets, SessionsOK
  <2> QED
    BY <2>2, <2>3 DEF Kept, Alive, SessionsOK
<1>17. CASE \E m \in Ids : Reject(m)
  BY <1>17, Kinds DEF Reject, central, sessions, mail, reading, bounds, Answered, Kept, SessionsOK, Alive
<1>18. CASE \E g \in Groups, t \in Targets : AddDestination(g, t)
  <2> PICK g \in Groups, t \in Targets : AddDestination(g, t)
    BY <1>18
  <2>1. /\ UNCHANGED <<group, live>> /\ promised' = promised \union (SessionsOf(g) \X {t})
        /\ group[t] # "new" /\ dests' = [dests EXCEPT ![g] = @ \union {t}]
    BY DEF AddDestination
  <2>2. \A h \in Groups : dests[h] \subseteq dests'[h]
    BY <2>1 DEF CentralOK
  <2>3. \A u : Alive(u)' <=> Alive(u)
    BY <2>1 DEF Alive
  <2>4. ASSUME NEW p \in promised
        PROVE  /\ live'[p[1]] # "none" /\ group'[p[2]] # "new"
               /\ p[2] \in dests'[GroupOf[p[1]]] \/ live'[p[1]] = "deleted" \/ ~Alive(p[2])'
    <3>1. p[1] \in Sessions /\ p[2] \in Targets /\ GroupOf[p[1]] \in Groups
      BY Kinds DEF SessionsOK
    <3> QED
      BY <2>1, <2>2, <2>3, <3>1 DEF Kept
  <2>5. ASSUME NEW p \in SessionsOf(g) \X {t}
        PROVE  /\ live'[p[1]] # "none" /\ group'[p[2]] # "new"
               /\ p[2] \in dests'[GroupOf[p[1]]] \/ live'[p[1]] = "deleted" \/ ~Alive(p[2])'
    <3>1. p[1] \in SessionsOf(g) /\ p[2] = t
      OBVIOUS
    <3>2. GroupOf[p[1]] = g /\ live[p[1]] \in {"active", "closed"}
      BY <3>1 DEF SessionsOf
    <3>3. t \in dests'[g] /\ group[t] # "new"
      BY <2>1 DEF CentralOK, Alive
    <3> QED
      BY <2>1, <3>1, <3>2, <3>3
  <2> QED
    BY <2>1, <2>4, <2>5 DEF Kept
<1>19. CASE \E g \in Groups, t \in Targets : RemoveDestination(g, t)
  <2> PICK g \in Groups, t \in Targets : RemoveDestination(g, t)
    BY <1>19
  <2>1. /\ UNCHANGED <<group, live>> /\ promised' = {p \in promised : ~(GroupOf[p[1]] = g /\ p[2] = t)}
        /\ dests' = [dests EXCEPT ![g] = @ \ {t}]
    BY DEF RemoveDestination
  <2>2. ASSUME NEW p \in promised, ~(GroupOf[p[1]] = g /\ p[2] = t)
        PROVE  p[2] \in dests[GroupOf[p[1]]] => p[2] \in dests'[GroupOf[p[1]]]
    <3>1. p[1] \in Sessions /\ GroupOf[p[1]] \in Groups
      BY Kinds DEF SessionsOK
    <3> QED
      BY <2>1, <2>2, <3>1 DEF CentralOK
  <2> QED
    BY <2>1, <2>2 DEF Kept, Alive
<1>20. CASE \E g \in Groups, c \in Channels : WireChannel(g, c)
  <2> PICK g \in Groups, c \in Channels : WireChannel(g, c)
    BY <1>20
  <2>1. UNCHANGED <<group, live, promised>> /\ dests' = [dests EXCEPT ![g] = @ \union {c}]
    BY DEF WireChannel, sessions
  <2>2. \A h \in Groups : dests[h] \subseteq dests'[h]
    BY <2>1 DEF CentralOK
  <2>3. \A p \in promised : GroupOf[p[1]] \in Groups
    BY Kinds DEF SessionsOK
  <2> QED
    BY <2>1, <2>2, <2>3 DEF Kept, Alive
<1>21. CASE \E g, h \in Groups : SetPolicy(g, h)
  BY <1>21, Kinds DEF SetPolicy, sessions, mail, reading, bounds, Command, Kept, SessionsOK, Alive
<1>22. CASE \E g, h \in Groups : RemovePolicy(g, h)
  BY <1>22, Kinds DEF RemovePolicy, sessions, mail, reading, bounds, Command, Kept, SessionsOK, Alive
<1>23. CASE \E g \in Groups : DeleteGroup(g)
  <2> PICK g \in Groups : DeleteGroup(g)
    BY <1>23
  <2>1. /\ group' = [group EXCEPT ![g] = "deleted"] /\ UNCHANGED promised
        /\ dests' = [h \in Groups |-> IF h = g THEN {} ELSE dests[h] \ {g}]
        /\ live' = [s \in Sessions |-> IF GroupOf[s] = g /\ live[s] # "none" THEN "deleted" ELSE live[s]]
    BY DEF DeleteGroup
  <2>2. \A t \in Targets : group'[t] = IF t = g THEN "deleted" ELSE group[t]
    BY <2>1 DEF CentralOK
  <2>3. \A t \in Targets : ~Alive(t) => ~Alive(t)'
    BY <2>2 DEF Alive
  <2>4. ~Alive(g)'
    BY <2>2, Kinds DEF Alive
  <2>5. ASSUME NEW p \in promised
        PROVE  /\ live'[p[1]] # "none" /\ group'[p[2]] # "new"
               /\ p[2] \in dests'[GroupOf[p[1]]] \/ live'[p[1]] = "deleted" \/ ~Alive(p[2])'
    <3>1. p[1] \in Sessions /\ p[2] \in Targets /\ GroupOf[p[1]] \in Groups
      BY Kinds DEF SessionsOK
    <3>2. live'[p[1]] = IF GroupOf[p[1]] = g /\ live[p[1]] # "none" THEN "deleted" ELSE live[p[1]]
      BY <2>1, <3>1
    <3>3. dests'[GroupOf[p[1]]] = IF GroupOf[p[1]] = g THEN {} ELSE dests[GroupOf[p[1]]] \ {g}
      BY <2>1, <3>1
    <3> QED
      BY <2>2, <2>3, <2>4, <3>1, <3>2, <3>3 DEF Kept
  <2> QED
    BY <2>1, <2>5 DEF Kept
<1>24. CASE UNCHANGED vars
  BY <1>24, Kinds DEF vars, central, sessions, mail, reading, bounds, Kept, SessionsOK, Alive
<1>25. CASE \E c \in Channels : DeleteChannel(c)
  BY <1>25, Kinds DEF DeleteChannel, sessions, mail, reading, bounds, Command, Kept, SessionsOK, Alive
<1> QED
  BY <1>1, <1>2, <1>3, <1>4, <1>5, <1>6, <1>7, <1>8, <1>9, <1>10, <1>11, <1>12, <1>13, <1>14, <1>15, <1>16, <1>17, <1>18, <1>19, <1>20, <1>21, <1>22, <1>23, <1>24, <1>25 DEF Next

LEMMA PromisedStays ==
    ASSUME CentralOK, SessionsOK, InboxOK, BoundsOK, Rooted, Kept, PromisedIsKnown, [Next]_vars
    PROVE  PromisedIsKnown'
<1>1. CASE \E s \in Sessions : OpenSession(s)
  BY <1>1 DEF OpenSession, central, sessions, mail, reading, bounds, PromisedIsKnown, SessionsOK, Alive
<1>2. CASE \E s \in Sessions : Spawn(s)
  <2> PICK s \in Sessions : Spawn(s)
    BY <1>2
  <2>1. UNCHANGED <<group, dests, live, promised>> /\ proj' = [proj EXCEPT ![s] = Projection(s)]
    BY DEF Spawn, central
  <2>2. proj'[s] = Projection(s) /\ \A z \in Sessions \ {s} : proj'[z] = proj[z]
    BY <2>1 DEF SessionsOK
  <2>3. \A t \in dests[GroupOf[s]] : Alive(t) => t \in Projection(s)
    BY DEF Projection
  <2>4. \A p \in promised : p[1] \in Sessions
    BY DEF SessionsOK
  <2> QED
    BY <2>1, <2>2, <2>3, <2>4 DEF PromisedIsKnown, Alive
<1>3. CASE \E s \in Sessions : Exit(s)
  BY <1>3 DEF Exit, central, sessions, mail, reading, bounds, PromisedIsKnown, SessionsOK, Alive
<1>4. CASE \E s \in Sessions : Close(s)
  BY <1>4 DEF Close, central, sessions, mail, reading, bounds, PromisedIsKnown, SessionsOK, Alive
<1>5. CASE \E s \in Sessions : TakeBatch(s)
  BY <1>5 DEF TakeBatch, central, sessions, mail, reading, bounds, PromisedIsKnown, SessionsOK, Alive
<1>6. CASE \E s \in Sessions : FollowUp(s)
  BY <1>6 DEF FollowUp, central, sessions, mail, reading, bounds, PromisedIsKnown, SessionsOK, Alive
<1>7. CASE \E s \in Sessions : EndBatch(s)
  BY <1>7 DEF EndBatch, central, sessions, mail, reading, bounds, PromisedIsKnown, SessionsOK, Alive
<1>8. CASE \E s \in Sessions : CreateRefused(s)
  BY <1>8 DEF CreateRefused, central, sessions, mail, reading, bounds, PromisedIsKnown, SessionsOK, Alive
<1>9. CASE \E s \in Sessions : PerformCreateAgent(s)
  <2> PICK s \in Sessions : PerformCreateAgent(s)
    BY <1>9
  <2>1. live' = live /\ promised' = promised \union {<<s, wish[s]>>} /\ wish[s] # NoGroup /\ CentralOK' /\ Rooted'
    BY CentralStays, RootedStays DEF PerformCreateAgent
  <2>2. \A t \in dests'[GroupOf[s]] : Alive(t)' => t \in proj'[s]
    BY <2>1, CreateProjects
  <2>3. ASSUME NEW p \in promised, p[1] # s,
               p[2] \in dests'[GroupOf[p[1]]] /\ Alive(p[2])' /\ live[p[1]] # "deleted"
        PROVE  p[2] \in proj'[p[1]]
    <3>1. p[1] \in Sessions /\ p[2] \in Targets /\ GroupOf[p[1]] \in Groups /\ p[2] # wish[s]
      BY Kinds, CreateIs DEF SessionsOK, Kept
    <3>2. GroupOf[p[1]] # wish[s]
      <4>1. live[p[1]] \in {"active", "closed"}
        BY <2>3, <3>1 DEF Kept, SessionsOK
      <4> QED
        BY <3>1, <4>1, CreateIs DEF Rooted
    <3>3. p[2] \in dests[GroupOf[p[1]]]
      BY <2>3, <3>1, <3>2, CreateIs
    <3>4. Alive(p[2])
      BY <2>3, <3>1, CreateIs DEF Alive
    <3> QED
      BY <2>1, <2>3, <3>1, <3>3, <3>4, CreateProjects DEF PromisedIsKnown
  <2> QED
    BY <2>1, <2>2, <2>3 DEF PromisedIsKnown
<1>10. CASE \E s \in Sessions, g \in Groups : SendMessage(s, g)
  BY <1>10 DEF SendMessage, Write, central, sessions, mail, reading, bounds, PromisedIsKnown, SessionsOK, Alive
<1>11. CASE \E s \in Sessions, g \in Groups : SayTo(s, g)
  BY <1>11 DEF SayTo, Write, central, sessions, mail, reading, bounds, PromisedIsKnown, SessionsOK, Alive
<1>12. CASE \E s \in Sessions, g \in Groups : HandleCreateAgent(s, g)
  BY <1>12 DEF HandleCreateAgent, central, sessions, mail, reading, bounds, Command, PromisedIsKnown, SessionsOK, Alive
<1>13. CASE \E m \in Ids : RoutePasses(m)
  <2> PICK m \in Ids : RoutePasses(m)
    BY <1>13
  <2>1. PerformAgentRoute(m, msgs[m].re) => \E s \in Sessions : Gets(m, s)
    BY RouteIs
  <2>2. UNCHANGED <<group, dests, promised, proj>>
    BY DEF RoutePasses, central
  <2>3. \A s \in Sessions : live[s] = "deleted" => live'[s] = "deleted"
    BY <2>1 DEF RoutePasses, Gets, SessionsOK
  <2> QED
    BY <2>2, <2>3 DEF PromisedIsKnown, SessionsOK, Alive
<1>14. CASE \E m \in Ids : RouteFails(m)
  BY <1>14 DEF RouteFails, central, sessions, mail, reading, bounds, Routable, PromisedIsKnown, SessionsOK, Alive
<1>15. CASE \E m \in Ids : RouteHolds(m)
  BY <1>15 DEF RouteHolds, central, sessions, mail, reading, bounds, Consume, Routable, PromisedIsKnown, SessionsOK, Alive
<1>16. CASE \E m \in Ids : Approve(m)
  <2> PICK m \in Ids : Approve(m)
    BY <1>16
  <2>1. PerformAgentRoute(m, msgs[m].re) => \E s \in Sessions : Gets(m, s)
    BY RouteIs
  <2>2. UNCHANGED <<group, dests, promised, proj>>
    BY DEF Approve, central
  <2>3. \A s \in Sessions : live[s] = "deleted" => live'[s] = "deleted"
    BY <2>1 DEF Approve, Gets, SessionsOK
  <2> QED
    BY <2>2, <2>3 DEF PromisedIsKnown, SessionsOK, Alive
<1>17. CASE \E m \in Ids : Reject(m)
  BY <1>17 DEF Reject, central, sessions, mail, reading, bounds, Answered, PromisedIsKnown, SessionsOK, Alive
<1>18. CASE \E g \in Groups, t \in Targets : AddDestination(g, t)
  <2> PICK g \in Groups, t \in Targets : AddDestination(g, t)
    BY <1>18
  <2>1. CentralOK' /\ Rooted' /\ Kept' /\ Project(g) /\ UNCHANGED <<group, live>>
    BY CentralStays, RootedStays, KeptStays DEF AddDestination
  <2>2. \A h \in Groups \ {g} : dests'[h] = dests[h]
    BY DEF AddDestination, CentralOK
  <2>3. ASSUME NEW p \in promised', p[1] \in Sessions,
               p[2] \in dests'[GroupOf[p[1]]] /\ Alive(p[2])' /\ live[p[1]] # "deleted"
        PROVE  p[2] \in proj'[p[1]]
    <3>1. live[p[1]] \in {"active", "closed"} /\ GroupOf[p[1]] \in Groups
      BY <2>1, <2>3, Kinds DEF Kept, SessionsOK
    <3>2. CASE GroupOf[p[1]] = g
      <4>1. p[1] \in SessionsOf(g)
        BY <2>3, <3>1, <3>2 DEF SessionsOf
      <4> QED
        BY <2>1, <2>3, <4>1, ProjectIs
    <3>3. CASE GroupOf[p[1]] # g
      <4>1. p[1] \notin SessionsOf(g)
        BY <3>3 DEF SessionsOf
      <4>2. p \in promised
        BY <3>3 DEF AddDestination, SessionsOf
      <4>3. p[2] \in dests[GroupOf[p[1]]]
        BY <2>2, <2>3, <3>1, <3>3
      <4>4. Alive(p[2])
        BY <2>1, <2>3 DEF Alive
      <4> QED
        BY <2>1, <2>3, <4>1, <4>2, <4>3, <4>4, ProjectIs DEF PromisedIsKnown
    <3> QED
      BY <3>2, <3>3
  <2>4. \A p \in promised' : p[1] \in Sessions
    BY SessionsStay DEF SessionsOK
  <2> QED
    BY <2>1, <2>3, <2>4 DEF PromisedIsKnown
<1>19. CASE \E g \in Groups, t \in Targets : RemoveDestination(g, t)
  <2> PICK g \in Groups, t \in Targets : RemoveDestination(g, t)
    BY <1>19
  <2>1. CentralOK' /\ Rooted' /\ Kept' /\ Project(g) /\ UNCHANGED <<group, live>>
    BY CentralStays, RootedStays, KeptStays DEF RemoveDestination
  <2>2. \A h \in Groups \ {g} : dests'[h] = dests[h]
    BY DEF RemoveDestination, CentralOK
  <2>3. ASSUME NEW p \in promised', p[1] \in Sessions,
               p[2] \in dests'[GroupOf[p[1]]] /\ Alive(p[2])' /\ live[p[1]] # "deleted"
        PROVE  p[2] \in proj'[p[1]]
    <3>1. live[p[1]] \in {"active", "closed"} /\ GroupOf[p[1]] \in Groups
      BY <2>1, <2>3, Kinds DEF Kept, SessionsOK
    <3>2. CASE GroupOf[p[1]] = g
      <4>1. p[1] \in SessionsOf(g)
        BY <2>3, <3>1, <3>2 DEF SessionsOf
      <4> QED
        BY <2>1, <2>3, <4>1, ProjectIs
    <3>3. CASE GroupOf[p[1]] # g
      <4>1. p[1] \notin SessionsOf(g)
        BY <3>3 DEF SessionsOf
      <4>2. p \in promised
        BY <3>3 DEF RemoveDestination, SessionsOf
      <4>3. p[2] \in dests[GroupOf[p[1]]]
        BY <2>2, <2>3, <3>1, <3>3
      <4>4. Alive(p[2])
        BY <2>1, <2>3 DEF Alive
      <4> QED
        BY <2>1, <2>3, <4>1, <4>2, <4>3, <4>4, ProjectIs DEF PromisedIsKnown
    <3> QED
      BY <3>2, <3>3
  <2>4. \A p \in promised' : p[1] \in Sessions
    BY SessionsStay DEF SessionsOK
  <2> QED
    BY <2>1, <2>3, <2>4 DEF PromisedIsKnown
<1>20. CASE \E g \in Groups, c \in Channels : WireChannel(g, c)
  <2> PICK g \in Groups, c \in Channels : WireChannel(g, c)
    BY <1>20
  <2>1. UNCHANGED <<group, live, proj, promised>> /\ dests' = [dests EXCEPT ![g] = @ \union {c}] /\ c \notin dests[g]
    BY DEF WireChannel, sessions
  <2>2. Alive(c)
    BY DEF WireChannel
  <2>3. ASSUME NEW p \in promised, p[2] \in dests'[GroupOf[p[1]]] /\ live[p[1]] # "deleted"
        PROVE  p[2] \in dests[GroupOf[p[1]]]
    <3>1. GroupOf[p[1]] \in Groups
      BY Kinds DEF SessionsOK
    <3>2. p[2] = c => p[2] \in dests[GroupOf[p[1]]]
      BY <2>2, <2>3 DEF Kept
    <3> QED
      BY <2>1, <2>3, <3>1, <3>2 DEF CentralOK
  <2> QED
    BY <2>1, <2>3 DEF PromisedIsKnown, Alive
<1>21. CASE \E g, h \in Groups : SetPolicy(g, h)
  BY <1>21 DEF SetPolicy, sessions, mail, reading, bounds, Command, PromisedIsKnown, SessionsOK, Alive
<1>22. CASE \E g, h \in Groups : RemovePolicy(g, h)
  BY <1>22 DEF RemovePolicy, sessions, mail, reading, bounds, Command, PromisedIsKnown, SessionsOK, Alive
<1>23. CASE \E g \in Groups : DeleteGroup(g)
  <2> PICK g \in Groups : DeleteGroup(g)
    BY <1>23
  <2>1. /\ UNCHANGED <<promised, proj>> /\ group' = [group EXCEPT ![g] = "deleted"]
        /\ dests' = [h \in Groups |-> IF h = g THEN {} ELSE dests[h] \ {g}]
        /\ live' = [s \in Sessions |-> IF GroupOf[s] = g /\ live[s] # "none" THEN "deleted" ELSE live[s]]
    BY DEF DeleteGroup
  <2>2. \A p \in promised : p[1] \in Sessions /\ p[2] \in Targets /\ GroupOf[p[1]] \in Groups
    BY Kinds DEF SessionsOK
  <2>3. \A h \in Groups : dests'[h] \subseteq dests[h]
    BY <2>1
  <2>4. \A s \in Sessions : live[s] = "deleted" => live'[s] = "deleted"
    BY <2>1 DEF SessionsOK
  <2>5. \A t \in Targets : Alive(t)' => Alive(t)
    BY <2>1 DEF Alive, CentralOK
  <2> QED
    BY <2>1, <2>2, <2>3, <2>4, <2>5 DEF PromisedIsKnown
<1>24. CASE UNCHANGED vars
  BY <1>24 DEF vars, central, sessions, mail, reading, bounds, PromisedIsKnown, SessionsOK, Alive
<1>25. CASE \E c \in Channels : DeleteChannel(c)
  <2> PICK c \in Channels : DeleteChannel(c)
    BY <1>25
  <2>1. UNCHANGED <<dests, live, proj, promised>> /\ group' = [group EXCEPT ![c] = "deleted"]
    BY DEF DeleteChannel, sessions
  <2>2. \A t \in Targets : Alive(t)' => Alive(t)
    BY <2>1 DEF Alive, CentralOK
  <2>3. \A p \in promised : p[2] \in Targets
    BY DEF SessionsOK
  <2> QED
    BY <2>1, <2>2, <2>3 DEF PromisedIsKnown
<1> QED
  BY <1>1, <1>2, <1>3, <1>4, <1>5, <1>6, <1>7, <1>8, <1>9, <1>10, <1>11, <1>12, <1>13, <1>14, <1>15, <1>16, <1>17, <1>18, <1>19, <1>20, <1>21, <1>22, <1>23, <1>24, <1>25 DEF Next

LEMMA RevokedStays ==
    ASSUME CentralOK, SessionsOK, InboxOK, BoundsOK, Rooted, RevokedIsForgotten, [Next]_vars
    PROVE  RevokedIsForgotten'
<1>1. CASE \E s \in Sessions : OpenSession(s)
  BY <1>1 DEF OpenSession, central, sessions, mail, reading, bounds, RevokedIsForgotten, SessionsOK, Alive
<1>2. CASE \E s \in Sessions : Spawn(s)
  BY <1>2, Kinds DEF Spawn, central, sessions, mail, reading, bounds, RevokedIsForgotten, SessionsOK, Alive, Projection
<1>3. CASE \E s \in Sessions : Exit(s)
  BY <1>3 DEF Exit, central, sessions, mail, reading, bounds, RevokedIsForgotten, SessionsOK, Alive
<1>4. CASE \E s \in Sessions : Close(s)
  BY <1>4 DEF Close, central, sessions, mail, reading, bounds, RevokedIsForgotten, SessionsOK, Alive
<1>5. CASE \E s \in Sessions : TakeBatch(s)
  BY <1>5 DEF TakeBatch, central, sessions, mail, reading, bounds, RevokedIsForgotten, SessionsOK, Alive
<1>6. CASE \E s \in Sessions : FollowUp(s)
  BY <1>6 DEF FollowUp, central, sessions, mail, reading, bounds, RevokedIsForgotten, SessionsOK, Alive
<1>7. CASE \E s \in Sessions : EndBatch(s)
  BY <1>7 DEF EndBatch, central, sessions, mail, reading, bounds, RevokedIsForgotten, SessionsOK, Alive
<1>8. CASE \E s \in Sessions : CreateRefused(s)
  BY <1>8 DEF CreateRefused, central, sessions, mail, reading, bounds, RevokedIsForgotten, SessionsOK, Alive
<1>9. CASE \E s \in Sessions : PerformCreateAgent(s)
  <2> PICK s \in Sessions : PerformCreateAgent(s)
    BY <1>9
  <2>1. live' = live /\ CentralOK'
    BY CentralStays DEF PerformCreateAgent
  <2>2. \A h \in Groups : dests[h] \subseteq dests'[h]
    BY CreateIs
  <2>3. ASSUME NEW z \in Sessions \ {s}, NEW t \in proj'[z] PROVE ~Alive(t) => ~Alive(t)'
    <3>1. t \in proj[z] /\ t \in Targets
      BY <2>1, CreateProjects DEF SessionsOK
    <3> QED
      BY <3>1, CreateIs DEF Rooted, Alive
  <2>4. \A t \in proj'[s] : t \in dests'[GroupOf[s]]
    BY <2>1, CreateProjects
  <2>5. \A z \in Sessions \ {s} : proj'[z] = proj[z] /\ GroupOf[z] \in Groups
    BY <2>1, CreateProjects, Kinds
  <2> QED
    BY <2>1, <2>2, <2>3, <2>4, <2>5 DEF RevokedIsForgotten
<1>10. CASE \E s \in Sessions, g \in Groups : SendMessage(s, g)
  BY <1>10 DEF SendMessage, Write, central, sessions, mail, reading, bounds, RevokedIsForgotten, SessionsOK, Alive
<1>11. CASE \E s \in Sessions, g \in Groups : SayTo(s, g)
  BY <1>11 DEF SayTo, Write, central, sessions, mail, reading, bounds, RevokedIsForgotten, SessionsOK, Alive
<1>12. CASE \E s \in Sessions, g \in Groups : HandleCreateAgent(s, g)
  BY <1>12 DEF HandleCreateAgent, central, sessions, mail, reading, bounds, Command, RevokedIsForgotten, SessionsOK, Alive
<1>13. CASE \E m \in Ids : RoutePasses(m)
  <2> PICK m \in Ids : RoutePasses(m)
    BY <1>13
  <2>1. PerformAgentRoute(m, msgs[m].re) => \E s \in Sessions : Gets(m, s)
    BY RouteIs
  <2>2. UNCHANGED <<group, dests, proj>>
    BY DEF RoutePasses, central
  <2>3. \A s \in Sessions : live[s] = "deleted" => live'[s] = "deleted"
    BY <2>1 DEF RoutePasses, Gets, SessionsOK
  <2> QED
    BY <2>2, <2>3 DEF RevokedIsForgotten, Alive
<1>14. CASE \E m \in Ids : RouteFails(m)
  BY <1>14 DEF RouteFails, central, sessions, mail, reading, bounds, Routable, RevokedIsForgotten, SessionsOK, Alive
<1>15. CASE \E m \in Ids : RouteHolds(m)
  BY <1>15 DEF RouteHolds, central, sessions, mail, reading, bounds, Consume, Routable, RevokedIsForgotten, SessionsOK, Alive
<1>16. CASE \E m \in Ids : Approve(m)
  <2> PICK m \in Ids : Approve(m)
    BY <1>16
  <2>1. PerformAgentRoute(m, msgs[m].re) => \E s \in Sessions : Gets(m, s)
    BY RouteIs
  <2>2. UNCHANGED <<group, dests, proj>>
    BY DEF Approve, central
  <2>3. \A s \in Sessions : live[s] = "deleted" => live'[s] = "deleted"
    BY <2>1 DEF Approve, Gets, SessionsOK
  <2> QED
    BY <2>2, <2>3 DEF RevokedIsForgotten, Alive
<1>17. CASE \E m \in Ids : Reject(m)
  BY <1>17 DEF Reject, central, sessions, mail, reading, bounds, Answered, RevokedIsForgotten, SessionsOK, Alive
<1>18. CASE \E g \in Groups, t \in Targets : AddDestination(g, t)
  <2> PICK g \in Groups, t \in Targets : AddDestination(g, t)
    BY <1>18
  <2>1. CentralOK' /\ Project(g) /\ UNCHANGED <<live, group>>
    BY CentralStays DEF AddDestination
  <2>2. \A h \in Groups \ {g} : dests'[h] = dests[h]
    BY DEF AddDestination, CentralOK
  <2>3. ASSUME NEW s \in Sessions, live[s] # "deleted", NEW u \in proj'[s]
        PROVE  u \in dests'[GroupOf[s]] \/ ~Alive(u)
    <3>1. CASE s \in SessionsOf(g)
      BY <2>1, <3>1, ProjectIs
    <3>2. CASE GroupOf[s] # g
      BY <2>1, <2>2, <2>3, <3>2, Kinds, ProjectIs DEF RevokedIsForgotten, SessionsOf
    <3>3. CASE GroupOf[s] = g /\ s \notin SessionsOf(g)
      <4>1. live[s] = "none" /\ proj[s] = {}
        BY <2>3, <3>3 DEF SessionsOf, SessionsOK, Rooted
      <4> QED
        BY <2>1, <2>3, <3>3, <4>1, ProjectIs
    <3> QED
      BY <3>1, <3>2, <3>3
  <2> QED
    BY <2>1, <2>3 DEF RevokedIsForgotten, Alive
<1>19. CASE \E g \in Groups, t \in Targets : RemoveDestination(g, t)
  <2> PICK g \in Groups, t \in Targets : RemoveDestination(g, t)
    BY <1>19
  <2>1. CentralOK' /\ Project(g) /\ UNCHANGED <<live, group>>
    BY CentralStays DEF RemoveDestination
  <2>2. \A h \in Groups \ {g} : dests'[h] = dests[h]
    BY DEF RemoveDestination, CentralOK
  <2>3. ASSUME NEW s \in Sessions, live[s] # "deleted", NEW u \in proj'[s]
        PROVE  u \in dests'[GroupOf[s]] \/ ~Alive(u)
    <3>1. CASE s \in SessionsOf(g)
      BY <2>1, <3>1, ProjectIs
    <3>2. CASE GroupOf[s] # g
      BY <2>1, <2>2, <2>3, <3>2, Kinds, ProjectIs DEF RevokedIsForgotten, SessionsOf
    <3>3. CASE GroupOf[s] = g /\ s \notin SessionsOf(g)
      <4>1. live[s] = "none" /\ proj[s] = {}
        BY <2>3, <3>3 DEF SessionsOf, SessionsOK, Rooted
      <4> QED
        BY <2>1, <2>3, <3>3, <4>1, ProjectIs
    <3> QED
      BY <3>1, <3>2, <3>3
  <2> QED
    BY <2>1, <2>3 DEF RevokedIsForgotten, Alive
<1>20. CASE \E g \in Groups, c \in Channels : WireChannel(g, c)
  <2> PICK g \in Groups, c \in Channels : WireChannel(g, c)
    BY <1>20
  <2>1. UNCHANGED <<group, live, proj>> /\ dests' = [dests EXCEPT ![g] = @ \union {c}]
    BY DEF WireChannel, sessions
  <2>2. \A h \in Groups : dests[h] \subseteq dests'[h]
    BY <2>1 DEF CentralOK
  <2> QED
    BY <2>1, <2>2, Kinds DEF RevokedIsForgotten, Alive
<1>21. CASE \E g, h \in Groups : SetPolicy(g, h)
  BY <1>21 DEF SetPolicy, sessions, mail, reading, bounds, Command, RevokedIsForgotten, SessionsOK, Alive
<1>22. CASE \E g, h \in Groups : RemovePolicy(g, h)
  BY <1>22 DEF RemovePolicy, sessions, mail, reading, bounds, Command, RevokedIsForgotten, SessionsOK, Alive
<1>23. CASE \E g \in Groups : DeleteGroup(g)
  <2> PICK g \in Groups : DeleteGroup(g)
    BY <1>23
  <2>1. /\ UNCHANGED proj /\ dests' = [h \in Groups |-> IF h = g THEN {} ELSE dests[h] \ {g}]
        /\ live' = [s \in Sessions |-> IF GroupOf[s] = g /\ live[s] # "none" THEN "deleted" ELSE live[s]]
        /\ group' = [group EXCEPT ![g] = "deleted"]
    BY DEF DeleteGroup
  <2>2. \A t \in Targets : ~Alive(t) \/ t = g => ~Alive(t)'
    BY <2>1 DEF Alive, CentralOK
  <2>3. ASSUME NEW s \in Sessions, live'[s] # "deleted", NEW t \in proj[s]
        PROVE  t \in dests'[GroupOf[s]] \/ ~Alive(t)'
    <3>1. live[s] # "deleted"
      BY <2>1, <2>3
    <3>2. CASE GroupOf[s] = g
      <4>1. live[s] = "none"
        BY <2>1, <2>3, <3>2
      <4> QED
        BY <2>3, <4>1 DEF Rooted
    <3>3. CASE GroupOf[s] # g
      <4>1. t \in Targets /\ GroupOf[s] \in Groups
        BY <2>3, Kinds DEF SessionsOK
      <4>2. t \in dests[GroupOf[s]] \/ ~Alive(t)
        BY <2>3, <3>1 DEF RevokedIsForgotten
      <4> QED
        BY <2>1, <2>2, <3>3, <4>1, <4>2
    <3> QED
      BY <3>2, <3>3
  <2> QED
    BY <2>1, <2>3 DEF RevokedIsForgotten
<1>24. CASE UNCHANGED vars
  BY <1>24 DEF vars, central, sessions, mail, reading, bounds, RevokedIsForgotten, SessionsOK, Alive
<1>25. CASE \E c \in Channels : DeleteChannel(c)
  BY <1>25 DEF DeleteChannel, sessions, mail, reading, bounds, Command, RevokedIsForgotten, SessionsOK, Alive
<1> QED
  BY <1>1, <1>2, <1>3, <1>4, <1>5, <1>6, <1>7, <1>8, <1>9, <1>10, <1>11, <1>12, <1>13, <1>14, <1>15, <1>16, <1>17, <1>18, <1>19, <1>20, <1>21, <1>22, <1>23, <1>24, <1>25 DEF Next

\* The inboxes and what is known of each message stay as they are.
LEMMA HeldFrame ==
    ASSUME HeldUntilApproved, UNCHANGED <<msgs, queue, held, inbox, asked, approved, crashed>>
    PROVE  HeldUntilApproved'
  BY DEF HeldUntilApproved, Arrived, ArrivesAt, Ids

\* A message that arrives where it was sent to, and for the first time.
LEMMA ArrivesOnce ==
    ASSUME MsgsOK, InboxOK, InboxOK', HeldUntilApproved, NEW m \in Ids, NEW s \in Sessions, Gets(m, s), UNCHANGED msgs,
           crashed \subseteq crashed', m \notin crashed' => ~Arrived(m)
    PROVE  /\ \A z \in Sessions : \A i \in 1..Len(inbox'[z]) : GroupOf[z] = msgs[inbox'[z][i]].to
           /\ \A n \in Ids, z \in Sessions : ArrivesAt(n, z)' <=> ArrivesAt(n, z) \/ (n = m /\ z = s)
           /\ \A n \in Ids \ crashed', z \in Sessions : \A i, j \in 1..Len(inbox'[z]) :
                 inbox'[z][i] = n /\ inbox'[z][j] = n => i = j
<1>1. \A z \in Sessions : Len(inbox[z]) \in Nat
  BY DEF InboxOK
<1>2. /\ Len(inbox'[s]) = Len(inbox[s]) + 1 /\ inbox'[s][Len(inbox[s]) + 1] = m
      /\ \A i \in 1..Len(inbox[s]) : inbox'[s][i] = inbox[s][i]
      /\ \A z \in Sessions \ {s} : inbox'[z] = inbox[z]
      /\ GroupOf[s] = msgs[m].to
  BY DEF Gets
<1>3. \A i \in 1..Len(inbox'[s]) : i \in 1..Len(inbox[s]) \/ i = Len(inbox[s]) + 1
  BY <1>1, <1>2
<1>4. \A z \in Sessions : \A i \in 1..Len(inbox'[z]) : GroupOf[z] = msgs[inbox'[z][i]].to
  BY SMTT(30), <1>1, <1>2, <1>3 DEF HeldUntilApproved
<1>5. ASSUME NEW n \in Ids, NEW z \in Sessions
      PROVE  ArrivesAt(n, z)' <=> ArrivesAt(n, z) \/ (n = m /\ z = s)
  <2>1. CASE z = s
    <3>1. 1..Len(inbox[s]) \subseteq 1..Len(inbox'[s]) /\ Len(inbox[s]) + 1 \in 1..Len(inbox'[s])
      BY <1>1, <1>2
    <3> QED
      BY <1>2, <1>3, <2>1, <3>1 DEF ArrivesAt
  <2>2. CASE z # s
    BY <1>2, <2>2 DEF ArrivesAt
  <2> QED
    BY <2>1, <2>2
<1>6. ASSUME NEW n \in Ids \ crashed', NEW z \in Sessions, NEW i \in 1..Len(inbox'[z]), NEW j \in 1..Len(inbox'[z]),
             inbox'[z][i] = n /\ inbox'[z][j] = n
      PROVE  i = j
  <2>1. CASE z # s
    BY <1>2, <1>6, <2>1 DEF HeldUntilApproved
  <2>2. CASE z = s /\ n # m
    BY SMTT(30), <1>2, <1>3, <1>6, <2>2 DEF HeldUntilApproved
  <2>3. CASE z = s /\ n = m
    <3>1. \A k \in 1..Len(inbox[s]) : inbox[s][k] # m
      BY <1>6, <2>3 DEF Arrived, ArrivesAt
    <3> QED
      BY <1>2, <1>3, <1>6, <2>3, <3>1
  <2> QED
    BY <2>1, <2>2, <2>3
<1> QED
  BY <1>4, <1>5, <1>6

LEMMA HeldUntilApprovedStays ==
    ASSUME SessionsOK, MsgsOK, MailOK, InboxOK, HeldOK, ReadOK, BoundsOK, AskedOnce, HeldUntilApproved, [Next]_vars
    PROVE  HeldUntilApproved'
<1>1. CASE \E s \in Sessions : OpenSession(s)
  BY <1>1, HeldFrame DEF OpenSession, central, sessions, mail, reading, bounds
<1>2. CASE \E s \in Sessions : Spawn(s)
  BY <1>2, HeldFrame DEF Spawn, central, sessions, mail, reading, bounds
<1>3. CASE \E s \in Sessions : Exit(s)
  BY <1>3, HeldFrame DEF Exit, central, sessions, mail, reading, bounds
<1>4. CASE \E s \in Sessions : Close(s)
  BY <1>4, HeldFrame DEF Close, central, sessions, mail, reading, bounds
<1>5. CASE \E s \in Sessions : TakeBatch(s)
  BY <1>5, HeldFrame DEF TakeBatch, central, sessions, mail, reading, bounds
<1>6. CASE \E s \in Sessions : FollowUp(s)
  BY <1>6, HeldFrame DEF FollowUp, central, sessions, mail, reading, bounds
<1>7. CASE \E s \in Sessions : EndBatch(s)
  BY <1>7, HeldFrame DEF EndBatch, central, sessions, mail, reading, bounds
<1>8. CASE \E s \in Sessions : CreateRefused(s)
  BY <1>8, HeldFrame DEF CreateRefused, central, sessions, mail, reading, bounds
<1>9. CASE \E s \in Sessions : PerformCreateAgent(s)
  BY <1>9, HeldFrame DEF PerformCreateAgent, mail, reading, bounds
<1>10. CASE \E s \in Sessions, g \in Groups : SendMessage(s, g)
  <2> PICK s \in Sessions, g \in Groups : SendMessage(s, g)
    BY <1>10
  <2>a. PICK stamp \in 0..Len(msgs) : Write(s, g, stamp)
    BY StampIs
  <2>b. MsgsOK' /\ Adds(s, g, stamp)
    BY <2>a, WriteIs
  <2>1. UNCHANGED <<held, inbox, asked, approved, crashed>>
    BY <2>a DEF Write
  <2>s. \A n : (\A z : ArrivesAt(n, z)' <=> ArrivesAt(n, z)) /\ (Arrived(n)' <=> Arrived(n))
    BY <2>1 DEF ArrivesAt, Arrived
  <2>2. /\ Ids' = Ids \union {Len(msgs) + 1} /\ Len(msgs) + 1 \notin Ids /\ Len(msgs) + 1 \in 1..MaxMessages
        /\ queue' = queue \union {Len(msgs) + 1} /\ \A n \in Ids : msgs'[n] = msgs[n]
    BY <2>b, IdsGrow DEF Adds
  <2>3. \A z \in Sessions : \A i \in 1..Len(inbox[z]) : inbox[z][i] \in Ids
    BY DEF InboxOK
  <2>4. ~Arrived(Len(msgs) + 1)
    BY <2>2, <2>3 DEF Arrived, ArrivesAt
  <2>5. ~(held[Len(msgs) + 1] > 0)
    <3>1. Len(msgs) + 1 \notin asked \union crashed
      BY <2>2 DEF MailOK
    <3>2. held[Len(msgs) + 1] <= 0 /\ held[Len(msgs) + 1] \in Nat
      BY <2>2, <3>1 DEF AskedOnce, HeldOK
    <3> QED
      BY <3>2
  <2>6. \A z \in Sessions : \A i \in 1..Len(inbox[z]) : GroupOf[z] = msgs'[inbox[z][i]].to
    BY <2>2, <2>3 DEF HeldUntilApproved
  <2>7. ASSUME NEW n \in Ids \ crashed
        PROVE  /\ Arrived(n) => n \notin queue' /\ (n \in asked => n \in approved)
               /\ held[n] > 0 => n \notin queue' /\ ~Arrived(n)
    BY <2>2 DEF HeldUntilApproved
  <2>8. ASSUME NEW n \in Ids' \ crashed
        PROVE  /\ \A y, z \in Sessions : ArrivesAt(n, y) /\ ArrivesAt(n, z) => y = z
               /\ \A z \in Sessions : \A i, j \in 1..Len(inbox[z]) : inbox[z][i] = n /\ inbox[z][j] = n => i = j
    <3>1. CASE n \in Ids
      BY <2>8, <3>1 DEF HeldUntilApproved
    <3>2. CASE n \notin Ids
      BY <2>3, <3>2 DEF ArrivesAt
    <3> QED
      BY <3>1, <3>2
  <2> QED
    BY <2>1, <2>s, <2>2, <2>4, <2>5, <2>6, <2>7, <2>8 DEF HeldUntilApproved
<1>11. CASE \E s \in Sessions, g \in Groups : SayTo(s, g)
  <2> PICK s \in Sessions, g \in Groups : SayTo(s, g)
    BY <1>11
  <2>a. PICK stamp \in 0..Len(msgs) : Write(s, g, stamp)
    BY StampIs
  <2>b. MsgsOK' /\ Adds(s, g, stamp)
    BY <2>a, WriteIs
  <2>1. UNCHANGED <<held, inbox, asked, approved, crashed>>
    BY <2>a DEF Write
  <2>s. \A n : (\A z : ArrivesAt(n, z)' <=> ArrivesAt(n, z)) /\ (Arrived(n)' <=> Arrived(n))
    BY <2>1 DEF ArrivesAt, Arrived
  <2>2. /\ Ids' = Ids \union {Len(msgs) + 1} /\ Len(msgs) + 1 \notin Ids /\ Len(msgs) + 1 \in 1..MaxMessages
        /\ queue' = queue \union {Len(msgs) + 1} /\ \A n \in Ids : msgs'[n] = msgs[n]
    BY <2>b, IdsGrow DEF Adds
  <2>3. \A z \in Sessions : \A i \in 1..Len(inbox[z]) : inbox[z][i] \in Ids
    BY DEF InboxOK
  <2>4. ~Arrived(Len(msgs) + 1)
    BY <2>2, <2>3 DEF Arrived, ArrivesAt
  <2>5. ~(held[Len(msgs) + 1] > 0)
    <3>1. Len(msgs) + 1 \notin asked \union crashed
      BY <2>2 DEF MailOK
    <3>2. held[Len(msgs) + 1] <= 0 /\ held[Len(msgs) + 1] \in Nat
      BY <2>2, <3>1 DEF AskedOnce, HeldOK
    <3> QED
      BY <3>2
  <2>6. \A z \in Sessions : \A i \in 1..Len(inbox[z]) : GroupOf[z] = msgs'[inbox[z][i]].to
    BY <2>2, <2>3 DEF HeldUntilApproved
  <2>7. ASSUME NEW n \in Ids \ crashed
        PROVE  /\ Arrived(n) => n \notin queue' /\ (n \in asked => n \in approved)
               /\ held[n] > 0 => n \notin queue' /\ ~Arrived(n)
    BY <2>2 DEF HeldUntilApproved
  <2>8. ASSUME NEW n \in Ids' \ crashed
        PROVE  /\ \A y, z \in Sessions : ArrivesAt(n, y) /\ ArrivesAt(n, z) => y = z
               /\ \A z \in Sessions : \A i, j \in 1..Len(inbox[z]) : inbox[z][i] = n /\ inbox[z][j] = n => i = j
    <3>1. CASE n \in Ids
      BY <2>8, <3>1 DEF HeldUntilApproved
    <3>2. CASE n \notin Ids
      BY <2>3, <3>2 DEF ArrivesAt
    <3> QED
      BY <3>1, <3>2
  <2> QED
    BY <2>1, <2>s, <2>2, <2>4, <2>5, <2>6, <2>7, <2>8 DEF HeldUntilApproved
<1>12. CASE \E s \in Sessions, g \in Groups : HandleCreateAgent(s, g)
  BY <1>12, HeldFrame DEF HandleCreateAgent, central, sessions, mail, reading, bounds, Command
<1>13. CASE \E m \in Ids : RoutePasses(m)
  <2> PICK m \in Ids : RoutePasses(m)
    BY <1>13
  <2>1. InboxOK' /\ UNCHANGED <<msgs, held, asked, approved>> /\ m \in queue
    BY InboxStays DEF RoutePasses, Routable
  <2>2. PICK s \in Sessions : Gets(m, s)
    BY RouteIs DEF RoutePasses
  <2>3. crashed \subseteq crashed' /\ (m \notin crashed' => m \notin queue') /\ queue' \subseteq queue
    BY DEF RoutePasses, Consume
  <2>4. m \notin crashed' => ~Arrived(m)
    BY <2>1, <2>3 DEF HeldUntilApproved
  <2>5. /\ \A z \in Sessions : \A i \in 1..Len(inbox'[z]) : GroupOf[z] = msgs[inbox'[z][i]].to
        /\ \A n \in Ids, z \in Sessions : ArrivesAt(n, z)' <=> ArrivesAt(n, z) \/ (n = m /\ z = s)
        /\ \A n \in Ids \ crashed', z \in Sessions : \A i, j \in 1..Len(inbox'[z]) :
              inbox'[z][i] = n /\ inbox'[z][j] = n => i = j
    BY <2>1, <2>2, <2>3, <2>4, ArrivesOnce
  <2>6. \A n \in Ids \ crashed' : \A y, z \in Sessions : ArrivesAt(n, y)' /\ ArrivesAt(n, z)' => y = z
    BY <2>3, <2>4, <2>5 DEF HeldUntilApproved, Arrived
  <2>7. ASSUME NEW n \in Ids \ crashed', Arrived(n)' PROVE n \notin queue' /\ (n \in asked => n \in approved)
    <3>1. Arrived(n) \/ n = m
      BY <2>5, <2>7 DEF Arrived
    <3>2. m \in asked => m \in crashed
      BY <2>1 DEF AskedOnce
    <3> QED
      BY <2>3, <2>7, <3>1, <3>2 DEF HeldUntilApproved
  <2>8. ASSUME NEW n \in Ids \ crashed', held[n] > 0 PROVE n \notin queue' /\ ~Arrived(n)'
    <3>1. n \notin queue /\ ~Arrived(n) /\ n # m
      BY <2>1, <2>3, <2>8 DEF HeldUntilApproved
    <3> QED
      BY <2>3, <2>5, <3>1 DEF Arrived
  <2>9. Ids' = Ids
    BY <2>1 DEF Ids
  <2> QED
    BY <2>1, <2>5, <2>6, <2>7, <2>8, <2>9 DEF HeldUntilApproved
<1>14. CASE \E m \in Ids : RouteFails(m)
  <2> PICK m \in Ids : RouteFails(m)
    BY <1>14
  <2>1. UNCHANGED <<msgs, held, inbox, asked, approved, crashed>> /\ queue' \subseteq queue
    BY DEF RouteFails
  <2>s. \A n : (\A z : ArrivesAt(n, z)' <=> ArrivesAt(n, z)) /\ (Arrived(n)' <=> Arrived(n))
    BY <2>1 DEF ArrivesAt, Arrived
  <2>5. Ids' = Ids
    BY <2>1 DEF Ids
  <2> QED
    BY <2>1, <2>s, <2>5 DEF HeldUntilApproved
<1>15. CASE \E m \in Ids : RouteHolds(m)
  <2> PICK m \in Ids : RouteHolds(m)
    BY <1>15
  <2>1. UNCHANGED <<msgs, inbox, approved>> /\ asked' = asked \union {m} /\ m \in queue
    BY DEF RouteHolds, Routable
  <2>s. \A n : (\A z : ArrivesAt(n, z)' <=> ArrivesAt(n, z)) /\ (Arrived(n)' <=> Arrived(n))
    BY <2>1 DEF ArrivesAt, Arrived
  <2>2. crashed \subseteq crashed' /\ (m \notin crashed' => m \notin queue') /\ queue' \subseteq queue
    BY DEF RouteHolds, Consume
  <2>3. \A n \in Ids \ {m} : held'[n] = held[n]
    <3>1. held' = held \/ held' = [held EXCEPT ![m] = @ + 1]
      BY DEF RouteHolds
    <3>2. \A n \in Ids : n \in 1..MaxMessages
      BY Numbers DEF MsgsOK, Ids
    <3> QED
      BY <3>1, <3>2 DEF HeldOK
  <2>4. m \notin crashed' => ~Arrived(m)
    BY <2>1, <2>2 DEF HeldUntilApproved
  <2>5. Ids' = Ids
    BY <2>1 DEF Ids
  <2> QED
    BY <2>1, <2>s, <2>2, <2>3, <2>4, <2>5 DEF HeldUntilApproved
<1>16. CASE \E m \in Ids : Approve(m)
  <2> PICK m \in Ids : Approve(m)
    BY <1>16
  <2>1. InboxOK' /\ UNCHANGED <<msgs, queue, asked, crashed>> /\ held[m] > 0 /\ approved' = approved \union {m}
    BY InboxStays DEF Approve, Answered
  <2>2. \A n \in Ids \ {m} : held'[n] = held[n]
    BY DEF Approve, Answered, HeldOK, MsgsOK, Ids
  <2>3. m \notin crashed => held'[m] = 0 /\ m \notin queue /\ ~Arrived(m)
    <3>1. m \in 1..MaxMessages /\ held[m] \in Nat /\ held' = [held EXCEPT ![m] = @ - 1]
      BY Numbers DEF Approve, Answered, HeldOK, MsgsOK, Ids
    <3>2. m \notin crashed => held[m] <= 1
      BY <3>1 DEF AskedOnce
    <3>3. m \notin crashed => held[m] = 1
      BY <2>1, <3>1, <3>2
    <3> QED
      BY <2>1, <3>1, <3>3 DEF HeldUntilApproved, HeldOK
  <2>4. Ids' = Ids
    BY <2>1 DEF Ids
  <2>5. CASE ~Alive(msgs[m].to)
    <3>1. UNCHANGED inbox
      BY <2>5 DEF Approve
    <3>2. \A n, z : ArrivesAt(n, z)' <=> ArrivesAt(n, z)
      BY <3>1 DEF ArrivesAt
    <3>3. \A n : Arrived(n)' <=> Arrived(n)
      BY <3>2 DEF Arrived
    <3>4. \A n \in Ids \ crashed : held'[n] > 0 => held[n] > 0
      BY <2>2, <2>3
    <3> QED
      BY <2>1, <2>4, <3>1, <3>2, <3>3, <3>4 DEF HeldUntilApproved
  <2>6. CASE Alive(msgs[m].to)
    <3>1. PICK s \in Sessions : Gets(m, s)
      BY <2>6, RouteIs DEF Approve
    <3>2. /\ \A z \in Sessions : \A i \in 1..Len(inbox'[z]) : GroupOf[z] = msgs[inbox'[z][i]].to
          /\ \A n \in Ids, z \in Sessions : ArrivesAt(n, z)' <=> ArrivesAt(n, z) \/ (n = m /\ z = s)
          /\ \A n \in Ids \ crashed', z \in Sessions : \A i, j \in 1..Len(inbox'[z]) :
                inbox'[z][i] = n /\ inbox'[z][j] = n => i = j
      BY <2>1, <2>3, <3>1, ArrivesOnce
    <3>3. \A n \in Ids \ crashed' : \A y, z \in Sessions : ArrivesAt(n, y)' /\ ArrivesAt(n, z)' => y = z
      BY <2>1, <2>3, <3>2 DEF HeldUntilApproved, Arrived
    <3>4. \A n \in Ids : Arrived(n)' => Arrived(n) \/ n = m
      BY <3>2 DEF Arrived
    <3>5. \A n \in Ids \ crashed' : Arrived(n)' => n \notin queue' /\ (n \in asked' => n \in approved')
      BY <2>1, <2>3, <3>4 DEF HeldUntilApproved
    <3>6. \A n \in Ids \ crashed' : held'[n] > 0 => n \notin queue' /\ ~Arrived(n)'
      <4>1. ASSUME NEW n \in Ids \ crashed', held'[n] > 0 PROVE n # m
        BY <2>1, <2>3, <4>1
      <4> QED
        BY <2>1, <2>2, <3>4, <4>1 DEF HeldUntilApproved
    <3> QED
      BY <2>1, <2>4, <3>2, <3>3, <3>5, <3>6 DEF HeldUntilApproved
  <2> QED
    BY <2>5, <2>6
<1>17. CASE \E m \in Ids : Reject(m)
  <2> PICK m \in Ids : Reject(m)
    BY <1>17
  <2>1. UNCHANGED <<msgs, queue, inbox, asked, approved, crashed>> /\ held' = [held EXCEPT ![m] = @ - 1] /\ held[m] > 0
    BY DEF Reject, Answered
  <2>s. \A n : (\A z : ArrivesAt(n, z)' <=> ArrivesAt(n, z)) /\ (Arrived(n)' <=> Arrived(n))
    BY <2>1 DEF ArrivesAt, Arrived
  <2>5. Ids' = Ids
    BY <2>1 DEF Ids
  <2>6. \A n \in Ids : held'[n] > 0 => held[n] > 0
    BY <2>1 DEF HeldOK, MsgsOK, Ids
  <2> QED
    BY <2>1, <2>s, <2>5, <2>6 DEF HeldUntilApproved
<1>18. CASE \E g \in Groups, t \in Targets : AddDestination(g, t)
  BY <1>18, HeldFrame DEF AddDestination, mail, reading, bounds, Command
<1>19. CASE \E g \in Groups, t \in Targets : RemoveDestination(g, t)
  BY <1>19, HeldFrame DEF RemoveDestination, mail, reading, bounds, Command
<1>20. CASE \E g \in Groups, c \in Channels : WireChannel(g, c)
  BY <1>20, HeldFrame DEF WireChannel, sessions, mail, reading, bounds, Command
<1>21. CASE \E g, h \in Groups : SetPolicy(g, h)
  BY <1>21, HeldFrame DEF SetPolicy, sessions, mail, reading, bounds, Command
<1>22. CASE \E g, h \in Groups : RemovePolicy(g, h)
  BY <1>22, HeldFrame DEF RemovePolicy, sessions, mail, reading, bounds, Command
<1>23. CASE \E g \in Groups : DeleteGroup(g)
  <2> PICK g \in Groups : DeleteGroup(g)
    BY <1>23
  <2>1. UNCHANGED <<msgs, queue, inbox, asked, approved, crashed>>
    BY DEF DeleteGroup
  <2>s. \A n : (\A z : ArrivesAt(n, z)' <=> ArrivesAt(n, z)) /\ (Arrived(n)' <=> Arrived(n))
    BY <2>1 DEF ArrivesAt, Arrived
  <2>5. Ids' = Ids
    BY <2>1 DEF Ids
  <2>6. \A n \in Ids : held'[n] > 0 => held[n] > 0
    <3>1. \A n \in Ids : n \in 1..MaxMessages
      BY Numbers DEF MsgsOK, Ids
    <3>2. held' = [n \in 1..MaxMessages |-> IF n \in Ids /\ Source(n) = g THEN 0 ELSE held[n]]
      BY DEF DeleteGroup
    <3>3. \A n \in Ids : held'[n] \in {0, held[n]}
      BY <3>1, <3>2
    <3> QED
      BY <3>3
  <2> QED
    BY <2>1, <2>s, <2>5, <2>6 DEF HeldUntilApproved
<1>24. CASE UNCHANGED vars
  BY <1>24, HeldFrame DEF vars, central, sessions, mail, reading, bounds
<1>25. CASE \E c \in Channels : DeleteChannel(c)
  BY <1>25, HeldFrame DEF DeleteChannel, sessions, mail, reading, bounds, Command
<1> QED
  BY <1>1, <1>2, <1>3, <1>4, <1>5, <1>6, <1>7, <1>8, <1>9, <1>10, <1>11, <1>12, <1>13, <1>14, <1>15, <1>16, <1>17, <1>18, <1>19, <1>20, <1>21, <1>22, <1>23, <1>24, <1>25 DEF Next

LEMMA InitOK == Init => IInv
<1> SUFFICES ASSUME Init PROVE IInv
  OBVIOUS
<1>1. CentralOK
  BY Kinds, Numbers DEF Init, CentralOK, Targets
<1>2. SessionsOK
  BY <1>1, Kinds DEF Init, SessionsOK, CentralOK
<1>3. msgs = <<>> /\ Len(msgs) = 0 /\ Ids = {}
  BY DEF Init, Ids
<1>4. MsgsOK /\ MailOK
  BY <1>3, Numbers DEF Init, MsgsOK, MailOK
<1>5. InboxOK /\ \A s \in Sessions : inbox[s] = <<>> /\ Len(inbox[s]) = 0
  BY DEF Init, InboxOK
<1>6. HeldOK /\ BoundsOK
  BY Numbers DEF Init, HeldOK, BoundsOK
<1>7. ReadOK
  BY <1>3, <1>5 DEF Init, ReadOK
<1>8. PromisedIsKnown /\ Kept
  BY DEF Init, PromisedIsKnown, Kept
<1>9. RevokedIsForgotten
  BY DEF Init, RevokedIsForgotten
<1>10. HeldUntilApproved /\ Stamped
  BY <1>3, <1>5 DEF HeldUntilApproved, Stamped
<1>11. AskedOnce
  BY Numbers DEF Init, AskedOnce
<1>12. Rooted
  <2>1. \A t \in Founders \union Channels : group[t] = "alive"
    BY Kinds DEF Init
  <2>2. \A g \in Groups : dests[g] # {} => g \in Founders /\ dests[g] \subseteq Founders
    BY DEF Init
  <2>3. \A s \in Opened : GroupOf[s] \in Founders
    BY AgentsAssumption
  <2>4. \A s \in Sessions : \A t \in proj[s] : t \in Founders
    BY <2>2, Kinds DEF Init
  <2> QED
    BY <2>1, <2>2, <2>3, <2>4 DEF Init, Rooted
<1> QED
  BY <1>1, <1>2, <1>4, <1>5, <1>6, <1>7, <1>8, <1>9, <1>10, <1>11, <1>12, Parts DEF IInv

LEMMA StepOK == IInv /\ [Next]_vars => IInv'
<1> SUFFICES ASSUME IInv, [Next]_vars PROVE IInv'
  OBVIOUS
<1>t. CentralOK /\ SessionsOK /\ MsgsOK /\ MailOK /\ InboxOK /\ HeldOK /\ ReadOK /\ BoundsOK
  BY Parts DEF IInv
<1>i. /\ PromisedIsKnown /\ RevokedIsForgotten /\ HeldUntilApproved
      /\ AskedOnce /\ Rooted /\ Kept /\ Stamped
  BY DEF IInv
<1>1. CentralOK' /\ SessionsOK' /\ MsgsOK' /\ MailOK'
  BY <1>t, CentralStays, SessionsStay, MsgsStay, MailStays
<1>2. InboxOK' /\ HeldOK' /\ ReadOK' /\ BoundsOK'
  BY <1>t, <1>i, InboxStays, HeldStays, ReadStays, BoundsStay
<1>3. AskedOnce' /\ Rooted' /\ Kept' /\ Stamped'
  BY <1>t, <1>i, AskedOnceStays, RootedStays, KeptStays, StampedStays
<1>4. PromisedIsKnown' /\ RevokedIsForgotten'
  BY <1>t, <1>i, PromisedStays, RevokedStays
<1>5. HeldUntilApproved'
  BY <1>t, <1>i, HeldUntilApprovedStays
<1> QED
  BY <1>1, <1>2, <1>3, <1>4, <1>5, PartsNext DEF IInv

(* A destination that was promised is known and one that was revoked is not, *)
(* a held message waits for its approval and arrives once (IInv).            *)
THEOREM AgentsInvariance == Spec => []IInv
<1>1. Init => IInv
  BY InitOK
<1>2. IInv /\ [Next]_vars => IInv'
  BY StepOK
<1> QED
  BY <1>1, <1>2, PTL DEF Spec

\* The step of ReplyReturns.
Returns ==
    \A s \in Sessions : inbox'[s] # inbox[s] =>
        LET m == inbox'[s][Len(inbox'[s])]
            question == msgs[m].answers
        IN question # 0 /\ live[msgs[question].from] = "active" => s = msgs[question].from

\* The stamp of an answer leads to the session that asked.
LEMMA StampLeads ==
    ASSUME SessionsOK, MsgsOK, InboxOK, Stamped, NEW m \in Ids, PerformAgentRoute(m, msgs[m].re)
    PROVE  Returns
<1>1. PICK s \in Sessions :
        /\ \/ s \in ResolveTargetSession(m, msgs[m].re)
           \/ ResolveTargetSession(m, msgs[m].re) = {}
        /\ inbox' = [inbox EXCEPT ![s] = Append(@, m)]
  BY DEF PerformAgentRoute
<1>2. inbox[s] \in Seq(Ids) /\ inbox'[s] = Append(inbox[s], m) /\ \A z \in Sessions \ {s} : inbox'[z] = inbox[z]
  BY <1>1 DEF InboxOK
<1>3. inbox'[s][Len(inbox'[s])] = m
  BY <1>2
<1>4. ASSUME msgs[m].answers # 0, live[msgs[msgs[m].answers].from] = "active" PROVE s = msgs[msgs[m].answers].from
  <2>1. /\ msgs[m].re = msgs[m].answers /\ msgs[m].re # 0
        /\ GroupOf[msgs[msgs[m].re].from] = msgs[m].to /\ live[msgs[msgs[m].re].from] = "active"
    BY <1>4 DEF Stamped
  <2>2. ResolveTargetSession(m, msgs[m].re) = {msgs[msgs[m].re].from}
    BY <2>1 DEF ResolveTargetSession
  <2> QED
    BY <1>1, <2>1, <2>2
<1> QED
  BY <1>2, <1>3, <1>4 DEF Returns

LEMMA AnswersReturn ==
    ASSUME SessionsOK, MsgsOK, InboxOK, ReadOK, BoundsOK, Stamped, [Next]_vars
    PROVE  Returns
<1>1. CASE \E s \in Sessions : OpenSession(s)
  BY <1>1 DEF OpenSession, central, sessions, mail, reading, bounds, Returns
<1>2. CASE \E s \in Sessions : Spawn(s)
  BY <1>2 DEF Spawn, central, sessions, mail, reading, bounds, Returns
<1>3. CASE \E s \in Sessions : Exit(s)
  BY <1>3 DEF Exit, central, sessions, mail, reading, bounds, Returns
<1>4. CASE \E s \in Sessions : Close(s)
  BY <1>4 DEF Close, central, sessions, mail, reading, bounds, Returns
<1>5. CASE \E s \in Sessions : TakeBatch(s)
  BY <1>5 DEF TakeBatch, central, sessions, mail, reading, bounds, Returns
<1>6. CASE \E s \in Sessions : FollowUp(s)
  BY <1>6 DEF FollowUp, central, sessions, mail, reading, bounds, Returns
<1>7. CASE \E s \in Sessions : EndBatch(s)
  BY <1>7 DEF EndBatch, central, sessions, mail, reading, bounds, Returns
<1>8. CASE \E s \in Sessions : CreateRefused(s)
  BY <1>8 DEF CreateRefused, central, sessions, mail, reading, bounds, Returns
<1>9. CASE \E s \in Sessions : PerformCreateAgent(s)
  BY <1>9 DEF PerformCreateAgent, mail, reading, bounds, Returns
<1>10. CASE \E s \in Sessions, g \in Groups : SendMessage(s, g)
  <2> PICK s \in Sessions, g \in Groups : SendMessage(s, g)
    BY <1>10
  <2>a. PICK stamp \in 0..Len(msgs) : Write(s, g, stamp)
    BY StampIs
  <2>b. MsgsOK' /\ Adds(s, g, stamp)
    BY <2>a, WriteIs
  <2> QED
    BY <2>a DEF Write, Returns
<1>11. CASE \E s \in Sessions, g \in Groups : SayTo(s, g)
  <2> PICK s \in Sessions, g \in Groups : SayTo(s, g)
    BY <1>11
  <2>a. PICK stamp \in 0..Len(msgs) : Write(s, g, stamp)
    BY StampIs
  <2>b. MsgsOK' /\ Adds(s, g, stamp)
    BY <2>a, WriteIs
  <2> QED
    BY <2>a DEF Write, Returns
<1>12. CASE \E s \in Sessions, g \in Groups : HandleCreateAgent(s, g)
  BY <1>12 DEF HandleCreateAgent, central, sessions, mail, reading, bounds, Command, Returns
<1>13. CASE \E m \in Ids : RoutePasses(m)
  <2> PICK m \in Ids : RoutePasses(m)
    BY <1>13
  <2> QED
    BY StampLeads DEF RoutePasses, Returns
<1>14. CASE \E m \in Ids : RouteFails(m)
  BY <1>14 DEF RouteFails, central, sessions, mail, reading, bounds, Routable, Returns
<1>15. CASE \E m \in Ids : RouteHolds(m)
  BY <1>15 DEF RouteHolds, central, sessions, mail, reading, bounds, Consume, Routable, Returns
<1>16. CASE \E m \in Ids : Approve(m)
  <2> PICK m \in Ids : Approve(m)
    BY <1>16
  <2> QED
    BY StampLeads DEF Approve, Returns
<1>17. CASE \E m \in Ids : Reject(m)
  BY <1>17 DEF Reject, central, sessions, mail, reading, bounds, Answered, Returns
<1>18. CASE \E g \in Groups, t \in Targets : AddDestination(g, t)
  BY <1>18 DEF AddDestination, mail, reading, bounds, Command, Returns
<1>19. CASE \E g \in Groups, t \in Targets : RemoveDestination(g, t)
  BY <1>19 DEF RemoveDestination, mail, reading, bounds, Command, Returns
<1>20. CASE \E g \in Groups, c \in Channels : WireChannel(g, c)
  BY <1>20 DEF WireChannel, sessions, mail, reading, bounds, Command, Returns
<1>21. CASE \E g, h \in Groups : SetPolicy(g, h)
  BY <1>21 DEF SetPolicy, sessions, mail, reading, bounds, Command, Returns
<1>22. CASE \E g, h \in Groups : RemovePolicy(g, h)
  BY <1>22 DEF RemovePolicy, sessions, mail, reading, bounds, Command, Returns
<1>23. CASE \E g \in Groups : DeleteGroup(g)
  BY <1>23 DEF DeleteGroup, reading, bounds, Command, Returns
<1>24. CASE UNCHANGED vars
  BY <1>24 DEF vars, central, sessions, mail, reading, bounds, Returns
<1>25. CASE \E c \in Channels : DeleteChannel(c)
  BY <1>25 DEF DeleteChannel, sessions, mail, reading, bounds, Command, Returns
<1> QED
  BY <1>1, <1>2, <1>3, <1>4, <1>5, <1>6, <1>7, <1>8, <1>9, <1>10, <1>11, <1>12, <1>13, <1>14, <1>15, <1>16, <1>17, <1>18, <1>19, <1>20, <1>21, <1>22, <1>23, <1>24, <1>25 DEF Next

(* An answer arrives in the very session that asked while it is open,        *)
(* directly or after an approval.                                            *)
THEOREM AnswersFindTheirWay == Spec => ReplyReturns
<1>1. IInv /\ [Next]_vars => [Returns]_vars
  BY Parts, AnswersReturn DEF IInv
<1>2. Returns <=>
        \A s \in Sessions : inbox'[s] # inbox[s] =>
            LET m == inbox'[s][Len(inbox'[s])]
                question == msgs[m].answers
            IN question # 0 /\ live[msgs[question].from] = "active" => s = msgs[question].from
  BY DEF Returns
<1> QED
  BY <1>1, <1>2, AgentsInvariance, PTL DEF Spec, ReplyReturns
=============================================================================
