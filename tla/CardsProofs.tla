----------------------------- MODULE CardsProofs ----------------------------
(* Theorems about Cards, for any approvals, credential requests and questions. *)
EXTENDS Cards, FiniteSetTheorems, TLAPS

\* The parts of TypeOK.
ShownOK ==
    /\ stage \in [Cards -> {"new", "reaching", "posting", "shown", "open", "over"}]
    /\ row \in [Cards -> {"none", "pending", "awaiting_reason", "expired"}]
    /\ buttons \in [Cards -> BOOLEAN]
    /\ flights \subseteq Flight

MemoryOK ==
    /\ armed \in Approvals \union {NoCard}
    /\ elapsed \subseteq Approvals /\ sweeping \subseteq Approvals
    /\ resolver \subseteq Credentials /\ stale \subseteq Credentials

ToldOK ==
    /\ told \in [Cards -> SUBSET Verdicts]
    /\ approved \subseteq Cards
    /\ tool \in [Questions -> {"idle", "waiting", "answered", "timed out"}]
    /\ answer \in [Questions -> {"none", "pending", "acked"}]

CountersOK == clicks \in 0..MaxClicks /\ faults \in 0..MaxFaults

LEMMA Parts == TypeOK <=> ShownOK /\ MemoryOK /\ ToldOK /\ CountersOK
  BY Zenon DEF TypeOK, ShownOK, MemoryOK, ToldOK, CountersOK

LEMMA PartsNext == ShownOK' /\ MemoryOK' /\ ToldOK' /\ CountersOK' => TypeOK'
  BY Zenon DEF TypeOK, ShownOK, MemoryOK, ToldOK, CountersOK

LEMMA InitOK == Init => IInv
<1> SUFFICES ASSUME Init PROVE IInv
  OBVIOUS
<1>1. ShownOK /\ MemoryOK /\ ToldOK
  BY DEF Init, ShownOK, MemoryOK, ToldOK
<1>2. CountersOK
  BY CardsAssumption DEF Init, CountersOK
<1>3. DecidedOnce
  <2>1. \A c \in Credentials : told[c] = {}
    BY DEF Init, Cards
  <2> QED
    BY <2>1, FS_EmptySet DEF DecidedOnce
<1>4. Decidable /\ CredentialRows /\ ApprovedByClick /\ Untold /\ HandlersApproved
  BY DEF Init, Cards, Decidable, CredentialRows, ApprovedByClick, Untold, HandlersApproved
<1> QED
  BY <1>1, <1>2, <1>3, <1>4, Parts DEF IInv

\* A click under way is about a card.
LEMMA FlightsAre ==
    ASSUME ShownOK, NEW f \in flights
    PROVE  f.card \in Cards /\ f.choice \in Choices /\ f.at \in {"editing", "applying", "prompting"}
<1>1. f \in Flight
  BY DEF ShownOK
<1> QED
  BY <1>1 DEF Flight

LEMMA MovesOK ==
    ASSUME ShownOK, NEW f \in flights, NEW at \in {"applying", "prompting"}, Moves(f, at)
    PROVE  /\ flights' \subseteq Flight
           /\ \E g \in flights' : g.card = f.card /\ g.at = at
           /\ \A g \in flights' \ flights : g.card = f.card /\ g.at = at
           /\ flights \ {f} \subseteq flights'
<1>1. f \in Flight
  BY DEF ShownOK
<1>2. [f EXCEPT !.at = at] \in Flight /\ [f EXCEPT !.at = at].card = f.card /\ [f EXCEPT !.at = at].at = at
  BY <1>1 DEF Flight
<1> QED
  BY <1>1, <1>2 DEF Moves, ShownOK

LEMMA ShownStays ==
    ASSUME ShownOK, MemoryOK, [Next]_vars
    PROVE  ShownOK'
<1>1. CASE \E c \in Cards : AskNobody(c)
  BY <1>1 DEF AskNobody, Tell, Refusal, ShownOK, MemoryOK, memory, question, Cards, Flight
<1>2. CASE \E c \in Cards : Ask(c)
  BY <1>2 DEF Ask, ShownOK, MemoryOK, memory, question, Cards, Flight
<1>3. CASE \E c \in Cards : Post(c)
  BY <1>3 DEF Post, ShownOK, MemoryOK, memory, question, Cards, Flight
<1>4. CASE \E c \in Cards : Show(c)
  BY <1>4 DEF Show, ShownOK, MemoryOK, memory, question, Cards, Flight
<1>5. CASE \E c \in Cards : Posted(c)
  BY <1>5 DEF Posted, ShownOK, MemoryOK, memory, question, Cards, Flight
<1>6. CASE \E c \in Cards : PostFails(c)
  BY <1>6 DEF PostFails, Tell, Fault, Refusal, ShownOK, MemoryOK, memory, question, Cards, Flight
<1>7. CASE \E c \in Cards, choice \in Choices : Click(c, choice)
  BY <1>7 DEF Click, ShownOK, MemoryOK, memory, question, Cards, Flight
<1>8. CASE \E f \in flights : ClickLost(f)
  BY <1>8, FlightsAre DEF ClickLost, Edited, Lands, Fault, ShownOK, MemoryOK, memory, question, Cards, Flight
<1>9. CASE \E f \in flights : ClickUnauthorized(f)
  BY <1>9, FlightsAre DEF ClickUnauthorized, Lands, Fault, ShownOK, MemoryOK, memory, question, Cards, Flight
<1>10. CASE \E f \in flights : ClickCredential(f)
  BY ZenonT(60), <1>10, FlightsAre DEF ClickCredential, Edited, Lands, Drop, Tell, Approves, Fault, ShownOK, MemoryOK, memory, question, Cards, Flight
<1>11. CASE \E f \in flights : ClickQuestion(f)
  BY ZenonT(60), <1>11, FlightsAre DEF ClickQuestion, Edited, Lands, Drop, Fault, ShownOK, MemoryOK, memory, question, Cards, Flight
<1>12. CASE \E f \in flights : ClickApproval(f)
  <2> PICK f \in flights : ClickApproval(f)
    BY <1>12
  <2>1. flights' \subseteq Flight
    <3>1. CASE f.choice = "approve"
      BY <3>1, MovesOK DEF ClickApproval
    <3>2. CASE f.choice = "reason"
      BY <3>2, MovesOK DEF ClickApproval
    <3>3. CASE f.choice = "reject"
      BY <3>3 DEF ClickApproval, Lands, ShownOK
    <3> QED
      BY <3>1, <3>2, <3>3, FlightsAre DEF Choices
  <2>2. row' = row \/ row' = [row EXCEPT ![f.card] = "none"]
    BY FlightsAre DEF ClickApproval, Drop, Choices
  <2>3. buttons' \in [Cards -> BOOLEAN]
    BY FlightsAre DEF ClickApproval, Edited, ShownOK
  <2> QED
    BY FlightsAre, <2>1, <2>2, <2>3 DEF ClickApproval, ShownOK
<1>13. CASE \E f \in flights : Applied(f)
  BY <1>13, FlightsAre DEF Applied, Lands, Drop, Tell, Fault, ShownOK, MemoryOK, memory, question, Cards, Flight
<1>14. CASE \E f \in flights : Prompted(f)
  BY <1>14, FlightsAre DEF Prompted, Lands, Drop, Tell, Fault, ShownOK, MemoryOK, memory, question, Cards, Flight
<1>15. CASE Reply
  BY <1>15 DEF Reply, Drop, Tell, ShownOK, MemoryOK, memory, question, Cards, Flight
<1>16. CASE SweepReads
  BY <1>16 DEF SweepReads, ShownOK, MemoryOK, memory, question, Cards, Flight
<1>17. CASE \E a \in Approvals : WindowElapses(a)
  BY <1>17 DEF WindowElapses, ShownOK, MemoryOK, memory, question, Cards, Flight
<1>18. CASE \E a \in Approvals : SweepRejects(a)
  BY <1>18 DEF SweepRejects, Drop, Tell, ShownOK, MemoryOK, memory, question, Cards, Flight
<1>19. CASE \E c \in Credentials : Expire(c)
  BY <1>19 DEF Expire, Tell, ShownOK, MemoryOK, memory, question, Cards, Flight
<1>20. CASE \E c \in Credentials : Expired(c)
  BY ZenonT(60), <1>20 DEF Expired, Drop, Fault, ShownOK, MemoryOK, memory, question, Cards, Flight
<1>21. CASE \E c \in Credentials : SweepStale(c)
  BY ZenonT(60), <1>21 DEF SweepStale, Drop, Fault, ShownOK, MemoryOK, memory, question, Cards, Flight
<1>22. CASE \E q \in Questions : ToolReads(q)
  BY <1>22 DEF ToolReads, ShownOK, MemoryOK, memory, question, Cards, Flight
<1>23. CASE \E q \in Questions : ToolTimesOut(q)
  BY <1>23 DEF ToolTimesOut, Fault, ShownOK, MemoryOK, memory, question, Cards, Flight
<1>24. CASE HostRestart
  BY <1>24 DEF HostRestart, Fault, ShownOK, MemoryOK, memory, question, Cards, Flight
<1>25. CASE UNCHANGED vars
  BY <1>25 DEF vars, ShownOK, MemoryOK, memory, question, Cards, Flight
<1> QED
  BY <1>1, <1>2, <1>3, <1>4, <1>5, <1>6, <1>7, <1>8, <1>9, <1>10, <1>11, <1>12, <1>13, <1>14, <1>15, <1>16, <1>17, <1>18, <1>19, <1>20, <1>21, <1>22, <1>23, <1>24, <1>25 DEF Next

LEMMA MemoryStays ==
    ASSUME ShownOK, MemoryOK, HandlersApproved, [Next]_vars
    PROVE  MemoryOK'
<1>1. CASE \E c \in Cards : AskNobody(c)
  BY <1>1 DEF AskNobody, Tell, Refusal, MemoryOK, memory, question
<1>2. CASE \E c \in Cards : Ask(c)
  BY <1>2 DEF Ask, MemoryOK, memory, question
<1>3. CASE \E c \in Cards : Post(c)
  BY <1>3 DEF Post, MemoryOK, memory, question
<1>4. CASE \E c \in Cards : Show(c)
  BY <1>4 DEF Show, MemoryOK, memory, question
<1>5. CASE \E c \in Cards : Posted(c)
  BY <1>5 DEF Posted, MemoryOK, memory, question
<1>6. CASE \E c \in Cards : PostFails(c)
  BY <1>6 DEF PostFails, Tell, Fault, Refusal, MemoryOK, memory, question
<1>7. CASE \E c \in Cards, choice \in Choices : Click(c, choice)
  BY <1>7 DEF Click, MemoryOK, memory, question
<1>8. CASE \E f \in flights : ClickLost(f)
  BY <1>8, FlightsAre DEF ClickLost, Edited, Lands, Fault, MemoryOK, memory, question
<1>9. CASE \E f \in flights : ClickUnauthorized(f)
  BY <1>9, FlightsAre DEF ClickUnauthorized, Lands, Fault, MemoryOK, memory, question
<1>10. CASE \E f \in flights : ClickCredential(f)
  BY <1>10, FlightsAre DEF ClickCredential, Edited, Lands, Drop, Tell, Approves, Fault, MemoryOK, memory, question
<1>11. CASE \E f \in flights : ClickQuestion(f)
  BY <1>11, FlightsAre DEF ClickQuestion, Edited, Lands, Drop, Fault, MemoryOK, memory, question
<1>12. CASE \E f \in flights : ClickApproval(f)
  BY <1>12, FlightsAre DEF ClickApproval, Edited, Lands, Moves, Drop, Tell, Approves, Fault, MemoryOK, memory, question
<1>13. CASE \E f \in flights : Applied(f)
  BY <1>13, FlightsAre DEF Applied, Lands, Drop, Tell, Fault, MemoryOK, memory, question
<1>14. CASE \E f \in flights : Prompted(f)
  <2> PICK f \in flights : Prompted(f)
    BY <1>14
  <2>1. f.card \in Approvals
    BY DEF Prompted, HandlersApproved
  <2> QED
    BY <2>1 DEF Prompted, MemoryOK
<1>15. CASE Reply
  BY <1>15 DEF Reply, Drop, Tell, MemoryOK, memory, question
<1>16. CASE SweepReads
  BY <1>16 DEF SweepReads, MemoryOK, memory, question
<1>17. CASE \E a \in Approvals : WindowElapses(a)
  BY <1>17 DEF WindowElapses, MemoryOK, memory, question
<1>18. CASE \E a \in Approvals : SweepRejects(a)
  BY <1>18 DEF SweepRejects, Drop, Tell, MemoryOK, memory, question
<1>19. CASE \E c \in Credentials : Expire(c)
  BY <1>19 DEF Expire, Tell, MemoryOK, memory, question
<1>20. CASE \E c \in Credentials : Expired(c)
  BY <1>20 DEF Expired, Drop, Fault, MemoryOK, memory, question
<1>21. CASE \E c \in Credentials : SweepStale(c)
  BY <1>21 DEF SweepStale, Drop, Fault, MemoryOK, memory, question
<1>22. CASE \E q \in Questions : ToolReads(q)
  BY <1>22 DEF ToolReads, MemoryOK, memory, question
<1>23. CASE \E q \in Questions : ToolTimesOut(q)
  BY <1>23 DEF ToolTimesOut, Fault, MemoryOK, memory, question
<1>24. CASE HostRestart
  BY <1>24 DEF HostRestart, Fault, MemoryOK, memory, question
<1>25. CASE UNCHANGED vars
  BY <1>25 DEF vars, MemoryOK, memory, question
<1> QED
  BY <1>1, <1>2, <1>3, <1>4, <1>5, <1>6, <1>7, <1>8, <1>9, <1>10, <1>11, <1>12, <1>13, <1>14, <1>15, <1>16, <1>17, <1>18, <1>19, <1>20, <1>21, <1>22, <1>23, <1>24, <1>25 DEF Next

\* A step tells one requester one thing, or nothing.
LEMMA Says ==
    ASSUME ShownOK, MemoryOK, [Next]_vars
    PROVE  UNCHANGED told \/ \E c \in Cards, v \in Verdicts : Tell(c, v)
<1>1. CASE \E c \in Cards : AskNobody(c)
  BY <1>1 DEF AskNobody, Tell, Refusal, MemoryOK, Verdicts, Cards, question
<1>2. CASE \E c \in Cards : Ask(c)
  BY <1>2 DEF Ask, MemoryOK, Verdicts, Cards, question
<1>3. CASE \E c \in Cards : Post(c)
  BY <1>3 DEF Post, MemoryOK, Verdicts, Cards, question
<1>4. CASE \E c \in Cards : Show(c)
  BY <1>4 DEF Show, MemoryOK, Verdicts, Cards, question
<1>5. CASE \E c \in Cards : Posted(c)
  BY <1>5 DEF Posted, MemoryOK, Verdicts, Cards, question
<1>6. CASE \E c \in Cards : PostFails(c)
  BY <1>6 DEF PostFails, Tell, Fault, Refusal, MemoryOK, Verdicts, Cards, question
<1>7. CASE \E c \in Cards, choice \in Choices : Click(c, choice)
  BY <1>7 DEF Click, MemoryOK, Verdicts, Cards, question
<1>8. CASE \E f \in flights : ClickLost(f)
  BY <1>8, FlightsAre DEF ClickLost, Edited, Lands, Fault, MemoryOK, Verdicts, Cards, question
<1>9. CASE \E f \in flights : ClickUnauthorized(f)
  BY <1>9, FlightsAre DEF ClickUnauthorized, Lands, Fault, MemoryOK, Verdicts, Cards, question
<1>10. CASE \E f \in flights : ClickCredential(f)
  BY <1>10, FlightsAre DEF ClickCredential, Edited, Lands, Drop, Tell, Approves, Fault, MemoryOK, Verdicts, Cards, question
<1>11. CASE \E f \in flights : ClickQuestion(f)
  BY <1>11, FlightsAre DEF ClickQuestion, Edited, Lands, Drop, Fault, MemoryOK, Verdicts, Cards, question
<1>12. CASE \E f \in flights : ClickApproval(f)
  <2> PICK f \in flights : ClickApproval(f)
    BY <1>12
  <2>1. CASE f.choice = "reject"
    BY <2>1, FlightsAre DEF ClickApproval, Tell, Verdicts
  <2>2. CASE f.choice \in {"approve", "reason"}
    BY <2>2 DEF ClickApproval
  <2> QED
    BY <2>1, <2>2, FlightsAre DEF Choices
<1>13. CASE \E f \in flights : Applied(f)
  BY <1>13, FlightsAre DEF Applied, Lands, Drop, Tell, Fault, MemoryOK, Verdicts, Cards, question
<1>14. CASE \E f \in flights : Prompted(f)
  BY <1>14, FlightsAre DEF Prompted, Lands, Drop, Tell, Fault, MemoryOK, Verdicts, Cards, question
<1>15. CASE Reply
  BY <1>15 DEF Reply, Drop, Tell, MemoryOK, Verdicts, Cards, question
<1>16. CASE SweepReads
  BY <1>16 DEF SweepReads, MemoryOK, Verdicts, Cards, question
<1>17. CASE \E a \in Approvals : WindowElapses(a)
  BY <1>17 DEF WindowElapses, MemoryOK, Verdicts, Cards, question
<1>18. CASE \E a \in Approvals : SweepRejects(a)
  BY <1>18 DEF SweepRejects, Drop, Tell, MemoryOK, Verdicts, Cards, question
<1>19. CASE \E c \in Credentials : Expire(c)
  BY <1>19 DEF Expire, Tell, MemoryOK, Verdicts, Cards, question
<1>20. CASE \E c \in Credentials : Expired(c)
  BY <1>20 DEF Expired, Drop, Fault, MemoryOK, Verdicts, Cards, question
<1>21. CASE \E c \in Credentials : SweepStale(c)
  BY <1>21 DEF SweepStale, Drop, Fault, MemoryOK, Verdicts, Cards, question
<1>22. CASE \E q \in Questions : ToolReads(q)
  BY <1>22 DEF ToolReads, MemoryOK, Verdicts, Cards, question
<1>23. CASE \E q \in Questions : ToolTimesOut(q)
  BY <1>23 DEF ToolTimesOut, Fault, MemoryOK, Verdicts, Cards, question
<1>24. CASE HostRestart
  BY <1>24 DEF HostRestart, Fault, MemoryOK, Verdicts, Cards, question
<1>25. CASE UNCHANGED vars
  BY <1>25 DEF vars, MemoryOK, Verdicts, Cards, question
<1> QED
  BY <1>1, <1>2, <1>3, <1>4, <1>5, <1>6, <1>7, <1>8, <1>9, <1>10, <1>11, <1>12, <1>13, <1>14, <1>15, <1>16, <1>17, <1>18, <1>19, <1>20, <1>21, <1>22, <1>23, <1>24, <1>25 DEF Next

LEMMA RestStays ==
    ASSUME ShownOK, ToldOK, [Next]_vars
    PROVE  /\ approved' \subseteq Cards
           /\ tool' \in [Questions -> {"idle", "waiting", "answered", "timed out"}]
           /\ answer' \in [Questions -> {"none", "pending", "acked"}]
<1>1. CASE \E c \in Cards : AskNobody(c)
  BY <1>1 DEF AskNobody, Tell, Refusal, ToldOK, question
<1>2. CASE \E c \in Cards : Ask(c)
  BY <1>2 DEF Ask, ToldOK, question
<1>3. CASE \E c \in Cards : Post(c)
  BY <1>3 DEF Post, ToldOK, question
<1>4. CASE \E c \in Cards : Show(c)
  BY <1>4 DEF Show, ToldOK, question
<1>5. CASE \E c \in Cards : Posted(c)
  BY <1>5 DEF Posted, ToldOK, question
<1>6. CASE \E c \in Cards : PostFails(c)
  BY <1>6 DEF PostFails, Tell, Fault, Refusal, ToldOK, question
<1>7. CASE \E c \in Cards, choice \in Choices : Click(c, choice)
  BY <1>7 DEF Click, ToldOK, question
<1>8. CASE \E f \in flights : ClickLost(f)
  BY <1>8, FlightsAre DEF ClickLost, Edited, Lands, Fault, ToldOK, question
<1>9. CASE \E f \in flights : ClickUnauthorized(f)
  BY <1>9, FlightsAre DEF ClickUnauthorized, Lands, Fault, ToldOK, question
<1>10. CASE \E f \in flights : ClickCredential(f)
  BY <1>10, FlightsAre DEF ClickCredential, Edited, Lands, Drop, Tell, Approves, Fault, ToldOK, question
<1>11. CASE \E f \in flights : ClickQuestion(f)
  BY <1>11, FlightsAre DEF ClickQuestion, Edited, Lands, Drop, Fault, ToldOK, question
<1>12. CASE \E f \in flights : ClickApproval(f)
  BY <1>12, FlightsAre DEF ClickApproval, Edited, Lands, Moves, Drop, Tell, Approves, Fault, ToldOK, question
<1>13. CASE \E f \in flights : Applied(f)
  BY <1>13, FlightsAre DEF Applied, Lands, Drop, Tell, Fault, ToldOK, question
<1>14. CASE \E f \in flights : Prompted(f)
  BY <1>14, FlightsAre DEF Prompted, Lands, Drop, Tell, Fault, ToldOK, question
<1>15. CASE Reply
  BY <1>15 DEF Reply, Drop, Tell, ToldOK, question
<1>16. CASE SweepReads
  BY <1>16 DEF SweepReads, ToldOK, question
<1>17. CASE \E a \in Approvals : WindowElapses(a)
  BY <1>17 DEF WindowElapses, ToldOK, question
<1>18. CASE \E a \in Approvals : SweepRejects(a)
  BY <1>18 DEF SweepRejects, Drop, Tell, ToldOK, question
<1>19. CASE \E c \in Credentials : Expire(c)
  BY <1>19 DEF Expire, Tell, ToldOK, question
<1>20. CASE \E c \in Credentials : Expired(c)
  BY <1>20 DEF Expired, Drop, Fault, ToldOK, question
<1>21. CASE \E c \in Credentials : SweepStale(c)
  BY <1>21 DEF SweepStale, Drop, Fault, ToldOK, question
<1>22. CASE \E q \in Questions : ToolReads(q)
  BY <1>22 DEF ToolReads, ToldOK, question
<1>23. CASE \E q \in Questions : ToolTimesOut(q)
  BY <1>23 DEF ToolTimesOut, Fault, ToldOK, question
<1>24. CASE HostRestart
  BY <1>24 DEF HostRestart, Fault, ToldOK, question
<1>25. CASE UNCHANGED vars
  BY <1>25 DEF vars, ToldOK, question
<1> QED
  BY <1>1, <1>2, <1>3, <1>4, <1>5, <1>6, <1>7, <1>8, <1>9, <1>10, <1>11, <1>12, <1>13, <1>14, <1>15, <1>16, <1>17, <1>18, <1>19, <1>20, <1>21, <1>22, <1>23, <1>24, <1>25 DEF Next

LEMMA ToldStays ==
    ASSUME ShownOK, MemoryOK, ToldOK, [Next]_vars
    PROVE  ToldOK'
<1>1. told' \in [Cards -> SUBSET Verdicts]
  <2>1. CASE UNCHANGED told
    BY <2>1 DEF ToldOK
  <2>2. CASE \E c \in Cards, v \in Verdicts : Tell(c, v)
    BY ZenonT(60), <2>2 DEF ToldOK, Tell
  <2> QED
    BY <2>1, <2>2, Says
<1> QED
  BY <1>1, RestStays DEF ToldOK

LEMMA CountersStay ==
    ASSUME CountersOK, [Next]_vars
    PROVE  CountersOK'
<1>1. CASE \E c \in Cards : AskNobody(c)
  BY <1>1, CardsAssumption DEF AskNobody, Tell, Refusal, CountersOK, Fault
<1>2. CASE \E c \in Cards : Ask(c)
  BY <1>2, CardsAssumption DEF Ask, CountersOK, Fault
<1>3. CASE \E c \in Cards : Post(c)
  BY <1>3, CardsAssumption DEF Post, CountersOK, Fault
<1>4. CASE \E c \in Cards : Show(c)
  BY <1>4, CardsAssumption DEF Show, CountersOK, Fault
<1>5. CASE \E c \in Cards : Posted(c)
  BY <1>5, CardsAssumption DEF Posted, CountersOK, Fault
<1>6. CASE \E c \in Cards : PostFails(c)
  BY <1>6, CardsAssumption DEF PostFails, Tell, Fault, Refusal, CountersOK, Fault
<1>7. CASE \E c \in Cards, choice \in Choices : Click(c, choice)
  BY <1>7, CardsAssumption DEF Click, CountersOK, Fault
<1>8. CASE \E f \in flights : ClickLost(f)
  BY <1>8, CardsAssumption, FlightsAre DEF ClickLost, Edited, Lands, Fault, CountersOK, Fault
<1>9. CASE \E f \in flights : ClickUnauthorized(f)
  BY <1>9, CardsAssumption, FlightsAre DEF ClickUnauthorized, Lands, Fault, CountersOK, Fault
<1>10. CASE \E f \in flights : ClickCredential(f)
  BY <1>10, CardsAssumption, FlightsAre DEF ClickCredential, Edited, Lands, Drop, Tell, Approves, Fault, CountersOK, Fault
<1>11. CASE \E f \in flights : ClickQuestion(f)
  BY <1>11, CardsAssumption, FlightsAre DEF ClickQuestion, Edited, Lands, Drop, Fault, CountersOK, Fault
<1>12. CASE \E f \in flights : ClickApproval(f)
  BY <1>12, CardsAssumption, FlightsAre DEF ClickApproval, Edited, Lands, Moves, Drop, Tell, Approves, Fault, CountersOK, Fault
<1>13. CASE \E f \in flights : Applied(f)
  BY <1>13, CardsAssumption, FlightsAre DEF Applied, Lands, Drop, Tell, Fault, CountersOK, Fault
<1>14. CASE \E f \in flights : Prompted(f)
  BY <1>14, CardsAssumption, FlightsAre DEF Prompted, Lands, Drop, Tell, Fault, CountersOK, Fault
<1>15. CASE Reply
  BY <1>15, CardsAssumption DEF Reply, Drop, Tell, CountersOK, Fault
<1>16. CASE SweepReads
  BY <1>16, CardsAssumption DEF SweepReads, CountersOK, Fault
<1>17. CASE \E a \in Approvals : WindowElapses(a)
  BY <1>17, CardsAssumption DEF WindowElapses, CountersOK, Fault
<1>18. CASE \E a \in Approvals : SweepRejects(a)
  BY <1>18, CardsAssumption DEF SweepRejects, Drop, Tell, CountersOK, Fault
<1>19. CASE \E c \in Credentials : Expire(c)
  BY <1>19, CardsAssumption DEF Expire, Tell, CountersOK, Fault
<1>20. CASE \E c \in Credentials : Expired(c)
  BY <1>20, CardsAssumption DEF Expired, Drop, Fault, CountersOK, Fault
<1>21. CASE \E c \in Credentials : SweepStale(c)
  BY <1>21, CardsAssumption DEF SweepStale, Drop, Fault, CountersOK, Fault
<1>22. CASE \E q \in Questions : ToolReads(q)
  BY <1>22, CardsAssumption DEF ToolReads, CountersOK, Fault
<1>23. CASE \E q \in Questions : ToolTimesOut(q)
  BY <1>23, CardsAssumption DEF ToolTimesOut, Fault, CountersOK, Fault
<1>24. CASE HostRestart
  BY <1>24, CardsAssumption DEF HostRestart, Fault, CountersOK, Fault
<1>25. CASE UNCHANGED vars
  BY <1>25, CardsAssumption DEF vars, CountersOK, Fault
<1> QED
  BY <1>1, <1>2, <1>3, <1>4, <1>5, <1>6, <1>7, <1>8, <1>9, <1>10, <1>11, <1>12, <1>13, <1>14, <1>15, <1>16, <1>17, <1>18, <1>19, <1>20, <1>21, <1>22, <1>23, <1>24, <1>25 DEF Next

LEMMA TellIs ==
    ASSUME ToldOK
    PROVE  \A c \in Cards : \A v : Tell(c, v) =>
               /\ told'[c] = told[c] \union {v}
               /\ \A d \in Cards : d # c => told'[d] = told[d]
  BY DEF ToldOK, Tell

\* What removes a credential row is not lost.
LEMMA CredentialRowsStay ==
    ASSUME ShownOK, MemoryOK, HandlersApproved, CredentialRows, [Next]_vars
    PROVE  CredentialRows'
<1>d. Approvals \intersect Credentials = {} /\ Approvals \intersect Questions = {} /\ Credentials \intersect Questions = {}
  BY CardsAssumption
<1>1. CASE \E c \in Cards : AskNobody(c)
  BY <1>1, <1>d DEF AskNobody, CredentialRows, HandlersApproved, ShownOK, MemoryOK, memory, question, Cards
<1>2. CASE \E c \in Cards : Ask(c)
  BY <1>2, <1>d DEF Ask, CredentialRows, HandlersApproved, ShownOK, MemoryOK, memory, question, Cards
<1>3. CASE \E c \in Cards : Post(c)
  BY <1>3, <1>d DEF Post, CredentialRows, HandlersApproved, ShownOK, MemoryOK, memory, question, Cards
<1>4. CASE \E c \in Cards : Show(c)
  BY <1>4, <1>d DEF Show, CredentialRows, HandlersApproved, ShownOK, MemoryOK, memory, question, Cards
<1>5. CASE \E c \in Cards : Posted(c)
  BY <1>5, <1>d DEF Posted, CredentialRows, HandlersApproved, ShownOK, MemoryOK, memory, question, Cards
<1>6. CASE \E c \in Cards : PostFails(c)
  BY <1>6, <1>d DEF PostFails, Fault, CredentialRows, HandlersApproved, ShownOK, MemoryOK, memory, question, Cards
<1>7. CASE \E c \in Cards, choice \in Choices : Click(c, choice)
  BY <1>7, <1>d DEF Click, CredentialRows, HandlersApproved, ShownOK, MemoryOK, memory, question, Cards
<1>8. CASE \E f \in flights : ClickLost(f)
  BY <1>8, <1>d, FlightsAre DEF ClickLost, Edited, Lands, Fault, CredentialRows, HandlersApproved, ShownOK, MemoryOK, memory, question, Cards
<1>9. CASE \E f \in flights : ClickUnauthorized(f)
  BY <1>9, <1>d, FlightsAre DEF ClickUnauthorized, Lands, Fault, CredentialRows, HandlersApproved, ShownOK, MemoryOK, memory, question, Cards
<1>10. CASE \E f \in flights : ClickCredential(f)
  BY <1>10, <1>d, FlightsAre DEF ClickCredential, Edited, Lands, Drop, Approves, Fault, CredentialRows, HandlersApproved, ShownOK, MemoryOK, memory, question, Cards
<1>11. CASE \E f \in flights : ClickQuestion(f)
  BY <1>11, <1>d, FlightsAre DEF ClickQuestion, Edited, Lands, Drop, Fault, CredentialRows, HandlersApproved, ShownOK, MemoryOK, memory, question, Cards
<1>12. CASE \E f \in flights : ClickApproval(f)
  <2> PICK f \in flights : ClickApproval(f)
    BY <1>12
  <2>1. f.card \in Approvals /\ f.card \in Cards
    BY FlightsAre DEF ClickApproval
  <2>2. CASE f.choice = "approve"
    BY <1>d, <2>1, <2>2, MovesOK, FlightsAre DEF ClickApproval, Approves, Edited, Fault, CredentialRows, ShownOK, memory, Cards
  <2>3. CASE f.choice = "reason"
    BY <1>d, <2>1, <2>3, MovesOK, FlightsAre DEF ClickApproval, Approves, Edited, Fault, CredentialRows, ShownOK, memory, Cards
  <2>4. CASE f.choice = "reject"
    BY <1>d, <2>1, <2>4, TellIs, FlightsAre DEF ClickApproval, Lands, Drop, Approves, Edited, Fault, CredentialRows, ShownOK, memory, Cards
  <2> QED
    BY <2>2, <2>3, <2>4, FlightsAre DEF Choices
<1>13. CASE \E f \in flights : Applied(f)
  BY <1>13, <1>d, FlightsAre DEF Applied, Lands, Drop, Fault, CredentialRows, HandlersApproved, ShownOK, MemoryOK, memory, question, Cards
<1>14. CASE \E f \in flights : Prompted(f)
  BY <1>14, <1>d, FlightsAre DEF Prompted, Lands, Drop, Fault, CredentialRows, HandlersApproved, ShownOK, MemoryOK, memory, question, Cards
<1>15. CASE Reply
  BY <1>15, <1>d DEF Reply, Drop, CredentialRows, HandlersApproved, ShownOK, MemoryOK, memory, question, Cards
<1>16. CASE SweepReads
  BY <1>16, <1>d DEF SweepReads, CredentialRows, HandlersApproved, ShownOK, MemoryOK, memory, question, Cards
<1>17. CASE \E a \in Approvals : WindowElapses(a)
  BY <1>17, <1>d DEF WindowElapses, CredentialRows, HandlersApproved, ShownOK, MemoryOK, memory, question, Cards
<1>18. CASE \E a \in Approvals : SweepRejects(a)
  BY <1>18, <1>d DEF SweepRejects, Drop, CredentialRows, HandlersApproved, ShownOK, MemoryOK, memory, question, Cards
<1>19. CASE \E c \in Credentials : Expire(c)
  BY <1>19, <1>d DEF Expire, CredentialRows, HandlersApproved, ShownOK, MemoryOK, memory, question, Cards
<1>20. CASE \E c \in Credentials : Expired(c)
  BY <1>20, <1>d DEF Expired, Drop, Fault, CredentialRows, HandlersApproved, ShownOK, MemoryOK, memory, question, Cards
<1>21. CASE \E c \in Credentials : SweepStale(c)
  BY <1>21, <1>d DEF SweepStale, Drop, Fault, CredentialRows, HandlersApproved, ShownOK, MemoryOK, memory, question, Cards
<1>22. CASE \E q \in Questions : ToolReads(q)
  BY <1>22, <1>d DEF ToolReads, CredentialRows, HandlersApproved, ShownOK, MemoryOK, memory, question, Cards
<1>23. CASE \E q \in Questions : ToolTimesOut(q)
  BY <1>23, <1>d DEF ToolTimesOut, Fault, CredentialRows, HandlersApproved, ShownOK, MemoryOK, memory, question, Cards
<1>24. CASE HostRestart
  BY <1>24, <1>d DEF HostRestart, Fault, CredentialRows, HandlersApproved, ShownOK, MemoryOK, memory, question, Cards
<1>25. CASE UNCHANGED vars
  BY <1>25, <1>d DEF vars, CredentialRows, HandlersApproved, ShownOK, MemoryOK, memory, question, Cards
<1> QED
  BY <1>1, <1>2, <1>3, <1>4, <1>5, <1>6, <1>7, <1>8, <1>9, <1>10, <1>11, <1>12, <1>13, <1>14, <1>15, <1>16, <1>17, <1>18, <1>19, <1>20, <1>21, <1>22, <1>23, <1>24, <1>25 DEF Next

LEMMA HandlersStayApproved ==
    ASSUME ShownOK, HandlersApproved, [Next]_vars
    PROVE  HandlersApproved'
<1>d. Approvals \intersect Credentials = {} /\ Approvals \intersect Questions = {} /\ Credentials \intersect Questions = {}
  BY CardsAssumption
<1>1. CASE \E c \in Cards : AskNobody(c)
  BY <1>1, <1>d DEF AskNobody, HandlersApproved, Cards
<1>2. CASE \E c \in Cards : Ask(c)
  BY <1>2, <1>d DEF Ask, HandlersApproved, Cards
<1>3. CASE \E c \in Cards : Post(c)
  BY <1>3, <1>d DEF Post, HandlersApproved, Cards
<1>4. CASE \E c \in Cards : Show(c)
  BY <1>4, <1>d DEF Show, HandlersApproved, Cards
<1>5. CASE \E c \in Cards : Posted(c)
  BY <1>5, <1>d DEF Posted, HandlersApproved, Cards
<1>6. CASE \E c \in Cards : PostFails(c)
  BY <1>6, <1>d DEF PostFails, Fault, HandlersApproved, Cards
<1>7. CASE \E c \in Cards, choice \in Choices : Click(c, choice)
  BY <1>7, <1>d DEF Click, HandlersApproved, Cards
<1>8. CASE \E f \in flights : ClickLost(f)
  BY <1>8, <1>d, FlightsAre DEF ClickLost, Edited, Lands, Fault, HandlersApproved, Cards
<1>9. CASE \E f \in flights : ClickUnauthorized(f)
  BY <1>9, <1>d, FlightsAre DEF ClickUnauthorized, Lands, Fault, HandlersApproved, Cards
<1>10. CASE \E f \in flights : ClickCredential(f)
  BY <1>10, <1>d, FlightsAre DEF ClickCredential, Edited, Lands, Drop, Approves, Fault, HandlersApproved, Cards
<1>11. CASE \E f \in flights : ClickQuestion(f)
  BY <1>11, <1>d, FlightsAre DEF ClickQuestion, Edited, Lands, Drop, Fault, HandlersApproved, Cards
<1>12. CASE \E f \in flights : ClickApproval(f)
  <2> PICK f \in flights : ClickApproval(f)
    BY <1>12
  <2>1. f.card \in Approvals /\ f.card \in Cards
    BY FlightsAre DEF ClickApproval
  <2>2. CASE f.choice = "approve"
    BY <1>d, <2>1, <2>2, MovesOK, FlightsAre DEF ClickApproval, Approves, Edited, Fault, HandlersApproved, Cards
  <2>3. CASE f.choice = "reason"
    BY <1>d, <2>1, <2>3, MovesOK, FlightsAre DEF ClickApproval, Approves, Edited, Fault, HandlersApproved, Cards
  <2>4. CASE f.choice = "reject"
    BY <1>d, <2>1, <2>4, TellIs, FlightsAre DEF ClickApproval, Lands, Drop, Approves, Edited, Fault, HandlersApproved, Cards
  <2> QED
    BY <2>2, <2>3, <2>4, FlightsAre DEF Choices
<1>13. CASE \E f \in flights : Applied(f)
  BY <1>13, <1>d, FlightsAre DEF Applied, Lands, Drop, Fault, HandlersApproved, Cards
<1>14. CASE \E f \in flights : Prompted(f)
  BY <1>14, <1>d, FlightsAre DEF Prompted, Lands, Drop, Fault, HandlersApproved, Cards
<1>15. CASE Reply
  BY <1>15, <1>d DEF Reply, Drop, HandlersApproved, Cards
<1>16. CASE SweepReads
  BY <1>16, <1>d DEF SweepReads, HandlersApproved, Cards
<1>17. CASE \E a \in Approvals : WindowElapses(a)
  BY <1>17, <1>d DEF WindowElapses, HandlersApproved, Cards
<1>18. CASE \E a \in Approvals : SweepRejects(a)
  BY <1>18, <1>d DEF SweepRejects, Drop, HandlersApproved, Cards
<1>19. CASE \E c \in Credentials : Expire(c)
  BY <1>19, <1>d DEF Expire, HandlersApproved, Cards
<1>20. CASE \E c \in Credentials : Expired(c)
  BY <1>20, <1>d DEF Expired, Drop, Fault, HandlersApproved, Cards
<1>21. CASE \E c \in Credentials : SweepStale(c)
  BY <1>21, <1>d DEF SweepStale, Drop, Fault, HandlersApproved, Cards
<1>22. CASE \E q \in Questions : ToolReads(q)
  BY <1>22, <1>d DEF ToolReads, HandlersApproved, Cards
<1>23. CASE \E q \in Questions : ToolTimesOut(q)
  BY <1>23, <1>d DEF ToolTimesOut, Fault, HandlersApproved, Cards
<1>24. CASE HostRestart
  BY <1>24, <1>d DEF HostRestart, Fault, HandlersApproved, Cards
<1>25. CASE UNCHANGED vars
  BY <1>25, <1>d DEF vars, HandlersApproved, Cards
<1> QED
  BY <1>1, <1>2, <1>3, <1>4, <1>5, <1>6, <1>7, <1>8, <1>9, <1>10, <1>11, <1>12, <1>13, <1>14, <1>15, <1>16, <1>17, <1>18, <1>19, <1>20, <1>21, <1>22, <1>23, <1>24, <1>25 DEF Next

LEMMA UntoldStays ==
    ASSUME ShownOK, MemoryOK, ToldOK, HandlersApproved, Untold, [Next]_vars
    PROVE  Untold'
<1>d. Approvals \intersect Credentials = {} /\ Approvals \intersect Questions = {} /\ Credentials \intersect Questions = {}
  BY CardsAssumption
<1>1. CASE \E c \in Cards : AskNobody(c)
  <2> PICK c \in Cards : AskNobody(c)
    BY <1>1
  <2>1. \A d \in Cards \ {c} : stage'[d] = stage[d] /\ told'[d] = told[d]
    BY TellIs DEF AskNobody, ShownOK
  <2>2. stage[c] \in {"new", "reaching"} /\ stage'[c] = "over" /\ resolver' = resolver
    BY DEF AskNobody, ShownOK, memory
  <2> QED
    BY <2>1, <2>2 DEF Untold, Cards
<1>2. CASE \E c \in Cards : Ask(c)
  BY <1>2, <1>d DEF Ask, Untold, ShownOK, MemoryOK, ToldOK, memory, question, Cards
<1>3. CASE \E c \in Cards : Post(c)
  BY <1>3, <1>d DEF Post, Untold, ShownOK, MemoryOK, ToldOK, memory, question, Cards
<1>4. CASE \E c \in Cards : Show(c)
  BY <1>4, <1>d DEF Show, Untold, ShownOK, MemoryOK, ToldOK, memory, question, Cards
<1>5. CASE \E c \in Cards : Posted(c)
  <2> PICK c \in Cards : Posted(c)
    BY <1>5
  <2>1. \A d \in Cards \ {c} : stage'[d] = stage[d] /\ (d \in resolver' => d \in resolver)
    BY DEF Posted, ShownOK
  <2>2. stage[c] = "shown" /\ stage'[c] = "open" /\ told' = told
    BY DEF Posted, ShownOK
  <2> QED
    BY <2>1, <2>2 DEF Untold, Cards
<1>6. CASE \E c \in Cards : PostFails(c)
  <2> PICK c \in Cards : PostFails(c)
    BY <1>6
  <2>1. \A d \in Cards \ {c} : stage'[d] = stage[d] /\ told'[d] = told[d]
    BY TellIs DEF PostFails, ShownOK
  <2>2. c \in Credentials => stage[c] \in {"posting", "shown"} /\ stage'[c] = "over"
    BY <1>d DEF PostFails, ShownOK
  <2> QED
    BY <2>1, <2>2 DEF PostFails, Untold, Cards, memory
<1>7. CASE \E c \in Cards, choice \in Choices : Click(c, choice)
  BY <1>7 DEF Click, Untold, memory
<1>8. CASE \E f \in flights : ClickLost(f)
  BY <1>8, <1>d, FlightsAre DEF ClickLost, Edited, Lands, Fault, Untold, ShownOK, MemoryOK, ToldOK, memory, question, Cards
<1>9. CASE \E f \in flights : ClickUnauthorized(f)
  BY <1>9, <1>d, FlightsAre DEF ClickUnauthorized, Lands, Fault, Untold, ShownOK, MemoryOK, ToldOK, memory, question, Cards
<1>10. CASE \E f \in flights : ClickCredential(f)
  <2> PICK f \in flights : ClickCredential(f)
    BY <1>10
  <2>1. \A d \in Cards \ {f.card} : told'[d] = told[d]
    BY TellIs, FlightsAre DEF ClickCredential
  <2>2. f.card \in resolver => f.card \notin resolver' /\ stage[f.card] \notin {"new", "reaching", "posting", "shown"}
    BY DEF ClickCredential, Untold
  <2>3. f.card \notin resolver => told' = told
    BY DEF ClickCredential
  <2> QED
    BY <2>1, <2>2, <2>3 DEF ClickCredential, Untold, Cards
<1>11. CASE \E f \in flights : ClickQuestion(f)
  BY <1>11, <1>d, FlightsAre DEF ClickQuestion, Edited, Lands, Drop, Fault, Untold, ShownOK, MemoryOK, ToldOK, memory, question, Cards
<1>12. CASE \E f \in flights : ClickApproval(f)
  <2> PICK f \in flights : ClickApproval(f)
    BY <1>12
  <2>1. f.card \in Approvals /\ f.card \in Cards
    BY FlightsAre DEF ClickApproval
  <2>2. told' = told \/ Tell(f.card, "rejected")
    BY FlightsAre DEF ClickApproval, Choices
  <2>3. \A d \in Credentials : told'[d] = told[d]
    BY <1>d, <2>1, <2>2, TellIs DEF Cards
  <2> QED
    BY <2>1, <2>3 DEF ClickApproval, Untold, memory
<1>13. CASE \E f \in flights : Applied(f)
  <2>1. \A d \in Credentials : told'[d] = told[d] /\ stage'[d] = stage[d] /\ (d \in resolver' => d \in resolver)
    BY <1>d, <1>13, TellIs, FlightsAre DEF Applied, Lands, Drop, Fault, HandlersApproved, MemoryOK, Cards, memory
  <2> QED
    BY <2>1 DEF Untold
<1>14. CASE \E f \in flights : Prompted(f)
  <2>1. \A d \in Credentials : told'[d] = told[d] /\ stage'[d] = stage[d] /\ (d \in resolver' => d \in resolver)
    BY <1>d, <1>14, TellIs, FlightsAre DEF Prompted, Lands, Drop, Fault, HandlersApproved, MemoryOK, Cards, memory
  <2> QED
    BY <2>1 DEF Untold
<1>15. CASE Reply
  <2>1. \A d \in Credentials : told'[d] = told[d] /\ stage'[d] = stage[d] /\ (d \in resolver' => d \in resolver)
    BY <1>d, <1>15, TellIs DEF Reply, Drop, HandlersApproved, MemoryOK, Cards, memory
  <2> QED
    BY <2>1 DEF Untold
<1>16. CASE SweepReads
  BY <1>16, <1>d DEF SweepReads, Untold, ShownOK, MemoryOK, ToldOK, memory, question, Cards
<1>17. CASE \E a \in Approvals : WindowElapses(a)
  BY <1>17, <1>d DEF WindowElapses, Untold, ShownOK, MemoryOK, ToldOK, memory, question, Cards
<1>18. CASE \E a \in Approvals : SweepRejects(a)
  <2>1. \A d \in Credentials : told'[d] = told[d] /\ stage'[d] = stage[d] /\ (d \in resolver' => d \in resolver)
    BY <1>d, <1>18, TellIs DEF SweepRejects, Drop, HandlersApproved, MemoryOK, Cards, memory
  <2> QED
    BY <2>1 DEF Untold
<1>19. CASE \E c \in Credentials : Expire(c)
  BY ZenonT(60), <1>19, <1>d, TellIs DEF Expire, Untold, ShownOK, MemoryOK, ToldOK, memory, question, Cards
<1>20. CASE \E c \in Credentials : Expired(c)
  BY <1>20, <1>d DEF Expired, Drop, Fault, Untold, ShownOK, MemoryOK, ToldOK, memory, question, Cards
<1>21. CASE \E c \in Credentials : SweepStale(c)
  BY <1>21, <1>d DEF SweepStale, Drop, Fault, Untold, ShownOK, MemoryOK, ToldOK, memory, question, Cards
<1>22. CASE \E q \in Questions : ToolReads(q)
  BY <1>22, <1>d DEF ToolReads, Untold, ShownOK, MemoryOK, ToldOK, memory, question, Cards
<1>23. CASE \E q \in Questions : ToolTimesOut(q)
  BY <1>23, <1>d DEF ToolTimesOut, Fault, Untold, ShownOK, MemoryOK, ToldOK, memory, question, Cards
<1>24. CASE HostRestart
  BY <1>24, <1>d DEF HostRestart, Fault, Untold, ShownOK, MemoryOK, ToldOK, memory, question, Cards
<1>25. CASE UNCHANGED vars
  BY <1>25, <1>d DEF vars, Untold, ShownOK, MemoryOK, ToldOK, memory, question, Cards
<1> QED
  BY <1>1, <1>2, <1>3, <1>4, <1>5, <1>6, <1>7, <1>8, <1>9, <1>10, <1>11, <1>12, <1>13, <1>14, <1>15, <1>16, <1>17, <1>18, <1>19, <1>20, <1>21, <1>22, <1>23, <1>24, <1>25 DEF Next

\* A requester of a credential that is told something had been told nothing.
LEMMA ToldFirst ==
    ASSUME ShownOK, MemoryOK, ToldOK, HandlersApproved, Untold, [Next]_vars
    PROVE  \A c \in Credentials : told'[c] = told[c] \/ told[c] = {}
<1>d. Approvals \intersect Credentials = {} /\ Approvals \intersect Questions = {} /\ Credentials \intersect Questions = {}
  BY CardsAssumption
<1>1. CASE \E c \in Cards : AskNobody(c)
  BY <1>1, <1>d, TellIs DEF AskNobody, Refusal, Untold, ShownOK, MemoryOK, question, Cards
<1>2. CASE \E c \in Cards : Ask(c)
  BY <1>2, <1>d DEF Ask, Untold, ShownOK, MemoryOK, question, Cards
<1>3. CASE \E c \in Cards : Post(c)
  BY <1>3, <1>d DEF Post, Untold, ShownOK, MemoryOK, question, Cards
<1>4. CASE \E c \in Cards : Show(c)
  BY <1>4, <1>d DEF Show, Untold, ShownOK, MemoryOK, question, Cards
<1>5. CASE \E c \in Cards : Posted(c)
  BY <1>5, <1>d DEF Posted, Untold, ShownOK, MemoryOK, question, Cards
<1>6. CASE \E c \in Cards : PostFails(c)
  BY <1>6, <1>d, TellIs DEF PostFails, Fault, Refusal, Untold, ShownOK, MemoryOK, question, Cards
<1>7. CASE \E c \in Cards, choice \in Choices : Click(c, choice)
  BY <1>7, <1>d DEF Click, Untold, ShownOK, MemoryOK, question, Cards
<1>8. CASE \E f \in flights : ClickLost(f)
  BY <1>8, <1>d, FlightsAre DEF ClickLost, Edited, Lands, Fault, Untold, ShownOK, MemoryOK, question, Cards
<1>9. CASE \E f \in flights : ClickUnauthorized(f)
  BY <1>9, <1>d, FlightsAre DEF ClickUnauthorized, Lands, Fault, Untold, ShownOK, MemoryOK, question, Cards
<1>10. CASE \E f \in flights : ClickCredential(f)
  <2> PICK f \in flights : ClickCredential(f)
    BY <1>10
  <2>1. \A d \in Cards \ {f.card} : told'[d] = told[d]
    BY TellIs, FlightsAre DEF ClickCredential
  <2>2. f.card \in resolver => told[f.card] = {}
    BY DEF ClickCredential, Untold
  <2>3. f.card \notin resolver => told' = told
    BY DEF ClickCredential
  <2> QED
    BY <2>1, <2>2, <2>3 DEF Cards
<1>11. CASE \E f \in flights : ClickQuestion(f)
  BY <1>11, <1>d, FlightsAre DEF ClickQuestion, Edited, Lands, Drop, Fault, Untold, ShownOK, MemoryOK, question, Cards
<1>12. CASE \E f \in flights : ClickApproval(f)
  <2> PICK f \in flights : ClickApproval(f)
    BY <1>12
  <2>1. f.card \in Approvals /\ f.card \in Cards
    BY FlightsAre DEF ClickApproval
  <2>2. told' = told \/ Tell(f.card, "rejected")
    BY FlightsAre DEF ClickApproval, Choices
  <2>3. \A d \in Credentials : told'[d] = told[d]
    BY <1>d, <2>1, <2>2, TellIs DEF Cards
  <2> QED
    BY <2>1, <2>3 DEF ClickApproval, Cards, memory
<1>13. CASE \E f \in flights : Applied(f)
  <2>1. \A d \in Credentials : told'[d] = told[d] /\ stage'[d] = stage[d] /\ (d \in resolver' => d \in resolver)
    BY <1>d, <1>13, TellIs, FlightsAre DEF Applied, Lands, Drop, Fault, HandlersApproved, MemoryOK, Cards, memory
  <2> QED
    BY <2>1
<1>14. CASE \E f \in flights : Prompted(f)
  <2>1. \A d \in Credentials : told'[d] = told[d] /\ stage'[d] = stage[d] /\ (d \in resolver' => d \in resolver)
    BY <1>d, <1>14, TellIs, FlightsAre DEF Prompted, Lands, Drop, Fault, HandlersApproved, MemoryOK, Cards, memory
  <2> QED
    BY <2>1
<1>15. CASE Reply
  <2>1. \A d \in Credentials : told'[d] = told[d] /\ stage'[d] = stage[d] /\ (d \in resolver' => d \in resolver)
    BY <1>d, <1>15, TellIs DEF Reply, Drop, HandlersApproved, MemoryOK, Cards, memory
  <2> QED
    BY <2>1
<1>16. CASE SweepReads
  BY <1>16, <1>d DEF SweepReads, Untold, ShownOK, MemoryOK, question, Cards
<1>17. CASE \E a \in Approvals : WindowElapses(a)
  BY <1>17, <1>d DEF WindowElapses, Untold, ShownOK, MemoryOK, question, Cards
<1>18. CASE \E a \in Approvals : SweepRejects(a)
  <2>1. \A d \in Credentials : told'[d] = told[d] /\ stage'[d] = stage[d] /\ (d \in resolver' => d \in resolver)
    BY <1>d, <1>18, TellIs DEF SweepRejects, Drop, HandlersApproved, MemoryOK, Cards, memory
  <2> QED
    BY <2>1
<1>19. CASE \E c \in Credentials : Expire(c)
  BY <1>19, <1>d, TellIs DEF Expire, Untold, ShownOK, MemoryOK, question, Cards
<1>20. CASE \E c \in Credentials : Expired(c)
  BY <1>20, <1>d DEF Expired, Drop, Fault, Untold, ShownOK, MemoryOK, question, Cards
<1>21. CASE \E c \in Credentials : SweepStale(c)
  BY <1>21, <1>d DEF SweepStale, Drop, Fault, Untold, ShownOK, MemoryOK, question, Cards
<1>22. CASE \E q \in Questions : ToolReads(q)
  BY <1>22, <1>d DEF ToolReads, Untold, ShownOK, MemoryOK, question, Cards
<1>23. CASE \E q \in Questions : ToolTimesOut(q)
  BY <1>23, <1>d DEF ToolTimesOut, Fault, Untold, ShownOK, MemoryOK, question, Cards
<1>24. CASE HostRestart
  BY <1>24, <1>d DEF HostRestart, Fault, Untold, ShownOK, MemoryOK, question, Cards
<1>25. CASE UNCHANGED vars
  BY <1>25, <1>d DEF vars, Untold, ShownOK, MemoryOK, question, Cards
<1> QED
  BY <1>1, <1>2, <1>3, <1>4, <1>5, <1>6, <1>7, <1>8, <1>9, <1>10, <1>11, <1>12, <1>13, <1>14, <1>15, <1>16, <1>17, <1>18, <1>19, <1>20, <1>21, <1>22, <1>23, <1>24, <1>25 DEF Next

LEMMA DecidedOnceStays ==
    ASSUME TypeOK, HandlersApproved, Untold, DecidedOnce, [Next]_vars
    PROVE  DecidedOnce'
<1>t. ShownOK /\ MemoryOK /\ ToldOK
  BY Parts
<1> SUFFICES ASSUME NEW c \in Credentials PROVE Cardinality(told'[c]) <= 1
  BY DEF DecidedOnce
<1>1. CASE told'[c] = told[c]
  BY <1>1 DEF DecidedOnce
<1>2. CASE told'[c] # told[c]
  <2>1. told[c] = {}
    BY <1>t, <1>2, ToldFirst
  <2>2. PICK d \in Cards, v \in Verdicts : Tell(d, v)
    BY <1>t, <1>2, Says
  <2>3. told'[c] = {v}
    BY <1>t, <1>2, <2>1, <2>2 DEF Tell, ToldOK, Cards
  <2>4. Cardinality({v}) = 1
    BY FS_Singleton, Zenon
  <2> QED
    BY <2>3, <2>4
<1> QED
  BY <1>1, <1>2

LEMMA ApprovedStays ==
    ASSUME ShownOK, MemoryOK, ToldOK, HandlersApproved, ApprovedByClick, [Next]_vars
    PROVE  ApprovedByClick'
<1>d. Approvals \intersect Credentials = {} /\ Approvals \intersect Questions = {} /\ Credentials \intersect Questions = {}
  BY CardsAssumption
<1>1. CASE \E c \in Cards : AskNobody(c)
  <2> PICK c \in Cards : AskNobody(c)
    BY <1>1
  <2>1. told' = told \/ Tell(c, Refusal(c))
    BY DEF AskNobody
  <2>2. Refusal(c) \notin {"applied", "approve"}
    BY DEF Refusal
  <2> QED
    BY <2>1, <2>2, TellIs DEF AskNobody, ApprovedByClick
<1>2. CASE \E c \in Cards : Ask(c)
  BY <1>2, <1>d DEF Ask, ApprovedByClick, MemoryOK, question, Cards
<1>3. CASE \E c \in Cards : Post(c)
  BY <1>3, <1>d DEF Post, ApprovedByClick, MemoryOK, question, Cards
<1>4. CASE \E c \in Cards : Show(c)
  BY <1>4, <1>d DEF Show, ApprovedByClick, MemoryOK, question, Cards
<1>5. CASE \E c \in Cards : Posted(c)
  BY <1>5, <1>d DEF Posted, ApprovedByClick, MemoryOK, question, Cards
<1>6. CASE \E c \in Cards : PostFails(c)
  <2> PICK c \in Cards : PostFails(c)
    BY <1>6
  <2>1. told' = told \/ Tell(c, Refusal(c))
    BY DEF PostFails
  <2>2. Refusal(c) \notin {"applied", "approve"}
    BY DEF Refusal
  <2> QED
    BY <2>1, <2>2, TellIs DEF PostFails, ApprovedByClick
<1>7. CASE \E c \in Cards, choice \in Choices : Click(c, choice)
  BY <1>7, <1>d DEF Click, ApprovedByClick, MemoryOK, question, Cards
<1>8. CASE \E f \in flights : ClickLost(f)
  BY <1>8, <1>d, FlightsAre DEF ClickLost, Edited, Lands, Fault, ApprovedByClick, MemoryOK, question, Cards
<1>9. CASE \E f \in flights : ClickUnauthorized(f)
  BY <1>9, <1>d, FlightsAre DEF ClickUnauthorized, Lands, Fault, ApprovedByClick, MemoryOK, question, Cards
<1>10. CASE \E f \in flights : ClickCredential(f)
  <2> PICK f \in flights : ClickCredential(f)
    BY <1>10
  <2>1. f.choice = "approve" => f.card \in approved'
    BY DEF ClickCredential, Approves
  <2>2. approved \subseteq approved'
    BY DEF ClickCredential, Approves
  <2>3. told' = told \/ Tell(f.card, IF f.choice = "approve" THEN "approve" ELSE "deny")
    BY DEF ClickCredential
  <2> QED
    BY <2>1, <2>2, <2>3, TellIs, FlightsAre DEF ApprovedByClick
<1>11. CASE \E f \in flights : ClickQuestion(f)
  BY <1>11, <1>d, FlightsAre DEF ClickQuestion, Edited, Lands, Drop, Fault, ApprovedByClick, MemoryOK, question, Cards
<1>12. CASE \E f \in flights : ClickApproval(f)
  <2> PICK f \in flights : ClickApproval(f)
    BY <1>12
  <2>1. f.card \in Approvals /\ f.card \in Cards
    BY FlightsAre DEF ClickApproval
  <2>2. CASE f.choice = "approve"
    BY <1>d, <2>1, <2>2, MovesOK, FlightsAre DEF ClickApproval, Approves, Edited, Fault, ApprovedByClick, Cards
  <2>3. CASE f.choice = "reason"
    BY <1>d, <2>1, <2>3, MovesOK, FlightsAre DEF ClickApproval, Approves, Edited, Fault, ApprovedByClick, Cards
  <2>4. CASE f.choice = "reject"
    BY <1>d, <2>1, <2>4, TellIs, FlightsAre DEF ClickApproval, Lands, Drop, Approves, Edited, Fault, ApprovedByClick, Cards
  <2> QED
    BY <2>2, <2>3, <2>4, FlightsAre DEF Choices
<1>13. CASE \E f \in flights : Applied(f)
  <2> PICK f \in flights : Applied(f)
    BY <1>13
  <2>1. f.card \in approved
    BY DEF Applied, HandlersApproved
  <2>2. Tell(f.card, "applied") \/ Tell(f.card, "failed")
    BY DEF Applied
  <2> QED
    BY <2>1, <2>2, TellIs, FlightsAre DEF Applied, ApprovedByClick
<1>14. CASE \E f \in flights : Prompted(f)
  <2> PICK f \in flights : Prompted(f)
    BY <1>14
  <2>1. told' = told \/ Tell(f.card, "rejected")
    BY DEF Prompted
  <2> QED
    BY <2>1, TellIs, FlightsAre DEF Prompted, ApprovedByClick
<1>15. CASE Reply
  BY <1>15, <1>d, TellIs DEF Reply, Drop, ApprovedByClick, MemoryOK, question, Cards
<1>16. CASE SweepReads
  BY <1>16, <1>d DEF SweepReads, ApprovedByClick, MemoryOK, question, Cards
<1>17. CASE \E a \in Approvals : WindowElapses(a)
  BY <1>17, <1>d DEF WindowElapses, ApprovedByClick, MemoryOK, question, Cards
<1>18. CASE \E a \in Approvals : SweepRejects(a)
  BY <1>18, <1>d, TellIs DEF SweepRejects, Drop, ApprovedByClick, MemoryOK, question, Cards
<1>19. CASE \E c \in Credentials : Expire(c)
  BY <1>19, <1>d, TellIs DEF Expire, ApprovedByClick, MemoryOK, question, Cards
<1>20. CASE \E c \in Credentials : Expired(c)
  BY <1>20, <1>d DEF Expired, Drop, Fault, ApprovedByClick, MemoryOK, question, Cards
<1>21. CASE \E c \in Credentials : SweepStale(c)
  BY <1>21, <1>d DEF SweepStale, Drop, Fault, ApprovedByClick, MemoryOK, question, Cards
<1>22. CASE \E q \in Questions : ToolReads(q)
  BY <1>22, <1>d DEF ToolReads, ApprovedByClick, MemoryOK, question, Cards
<1>23. CASE \E q \in Questions : ToolTimesOut(q)
  BY <1>23, <1>d DEF ToolTimesOut, Fault, ApprovedByClick, MemoryOK, question, Cards
<1>24. CASE HostRestart
  BY <1>24, <1>d DEF HostRestart, Fault, ApprovedByClick, MemoryOK, question, Cards
<1>25. CASE UNCHANGED vars
  BY <1>25, <1>d DEF vars, ApprovedByClick, MemoryOK, question, Cards
<1> QED
  BY <1>1, <1>2, <1>3, <1>4, <1>5, <1>6, <1>7, <1>8, <1>9, <1>10, <1>11, <1>12, <1>13, <1>14, <1>15, <1>16, <1>17, <1>18, <1>19, <1>20, <1>21, <1>22, <1>23, <1>24, <1>25 DEF Next

LEMMA DecidableStays ==
    ASSUME ShownOK, MemoryOK, CountersOK, HandlersApproved, Decidable, [Next]_vars
    PROVE  Decidable'
<1>d. Approvals \intersect Credentials = {} /\ Approvals \intersect Questions = {} /\ Credentials \intersect Questions = {}
  BY CardsAssumption
<1>1. CASE \E c \in Cards : AskNobody(c)
  BY <1>1, <1>d DEF AskNobody, Decidable, HandlersApproved, ShownOK, MemoryOK, CountersOK, question, memory, Cards
<1>2. CASE \E c \in Cards : Ask(c)
  BY <1>2, <1>d DEF Ask, Decidable, HandlersApproved, ShownOK, MemoryOK, CountersOK, question, memory, Cards
<1>3. CASE \E c \in Cards : Post(c)
  BY <1>3, <1>d DEF Post, Decidable, HandlersApproved, ShownOK, MemoryOK, CountersOK, question, memory, Cards
<1>4. CASE \E c \in Cards : Show(c)
  BY <1>4, <1>d DEF Show, Decidable, HandlersApproved, ShownOK, MemoryOK, CountersOK, question, memory, Cards
<1>5. CASE \E c \in Cards : Posted(c)
  BY <1>5, <1>d DEF Posted, Decidable, HandlersApproved, ShownOK, MemoryOK, CountersOK, question, memory, Cards
<1>6. CASE \E c \in Cards : PostFails(c)
  BY <1>6, <1>d DEF PostFails, Fault, Decidable, HandlersApproved, ShownOK, MemoryOK, CountersOK, question, memory, Cards
<1>7. CASE \E c \in Cards, choice \in Choices : Click(c, choice)
  BY <1>7, <1>d DEF Click, Decidable, HandlersApproved, ShownOK, MemoryOK, CountersOK, question, memory, Cards
<1>8. CASE \E f \in flights : ClickLost(f)
  BY <1>8, <1>d, FlightsAre DEF ClickLost, Edited, Lands, Fault, Decidable, HandlersApproved, ShownOK, MemoryOK, CountersOK, question, memory, Cards
<1>9. CASE \E f \in flights : ClickUnauthorized(f)
  BY <1>9, <1>d, FlightsAre DEF ClickUnauthorized, Lands, Fault, Decidable, HandlersApproved, ShownOK, MemoryOK, CountersOK, question, memory, Cards
<1>10. CASE \E f \in flights : ClickCredential(f)
  BY <1>10, <1>d, FlightsAre DEF ClickCredential, Edited, Lands, Drop, Approves, Fault, Decidable, HandlersApproved, ShownOK, MemoryOK, CountersOK, question, memory, Cards
<1>11. CASE \E f \in flights : ClickQuestion(f)
  BY <1>11, <1>d, FlightsAre DEF ClickQuestion, Edited, Lands, Drop, Fault, Decidable, HandlersApproved, ShownOK, MemoryOK, CountersOK, question, memory, Cards
<1>12. CASE \E f \in flights : ClickApproval(f)
  <2> PICK f \in flights : ClickApproval(f)
    BY <1>12
  <2>1. f.card \in Approvals /\ f.card \in Cards
    BY FlightsAre DEF ClickApproval
  <2>2. CASE f.choice = "approve"
    BY <1>d, <2>1, <2>2, MovesOK, FlightsAre DEF ClickApproval, Approves, Edited, Fault, Decidable, ShownOK, CountersOK, Cards
  <2>3. CASE f.choice = "reason"
    BY <1>d, <2>1, <2>3, MovesOK, FlightsAre DEF ClickApproval, Approves, Edited, Fault, Decidable, ShownOK, CountersOK, Cards
  <2>4. CASE f.choice = "reject"
    BY <1>d, <2>1, <2>4, TellIs, FlightsAre DEF ClickApproval, Lands, Drop, Approves, Edited, Fault, Decidable, ShownOK, CountersOK, Cards
  <2> QED
    BY <2>2, <2>3, <2>4, FlightsAre DEF Choices
<1>13. CASE \E f \in flights : Applied(f)
  BY <1>13, <1>d, FlightsAre DEF Applied, Lands, Drop, Fault, Decidable, HandlersApproved, ShownOK, MemoryOK, CountersOK, question, memory, Cards
<1>14. CASE \E f \in flights : Prompted(f)
  BY <1>14, <1>d, FlightsAre DEF Prompted, Lands, Drop, Fault, Decidable, HandlersApproved, ShownOK, MemoryOK, CountersOK, question, memory, Cards
<1>15. CASE Reply
  BY <1>15, <1>d DEF Reply, Drop, Decidable, HandlersApproved, ShownOK, MemoryOK, CountersOK, question, memory, Cards
<1>16. CASE SweepReads
  BY <1>16, <1>d DEF SweepReads, Decidable, HandlersApproved, ShownOK, MemoryOK, CountersOK, question, memory, Cards
<1>17. CASE \E a \in Approvals : WindowElapses(a)
  BY <1>17, <1>d DEF WindowElapses, Decidable, HandlersApproved, ShownOK, MemoryOK, CountersOK, question, memory, Cards
<1>18. CASE \E a \in Approvals : SweepRejects(a)
  BY <1>18, <1>d DEF SweepRejects, Drop, Decidable, HandlersApproved, ShownOK, MemoryOK, CountersOK, question, memory, Cards
<1>19. CASE \E c \in Credentials : Expire(c)
  BY <1>19, <1>d DEF Expire, Decidable, HandlersApproved, ShownOK, MemoryOK, CountersOK, question, memory, Cards
<1>20. CASE \E c \in Credentials : Expired(c)
  BY <1>20, <1>d DEF Expired, Drop, Fault, Decidable, HandlersApproved, ShownOK, MemoryOK, CountersOK, question, memory, Cards
<1>21. CASE \E c \in Credentials : SweepStale(c)
  BY <1>21, <1>d DEF SweepStale, Drop, Fault, Decidable, HandlersApproved, ShownOK, MemoryOK, CountersOK, question, memory, Cards
<1>22. CASE \E q \in Questions : ToolReads(q)
  BY <1>22, <1>d DEF ToolReads, Decidable, HandlersApproved, ShownOK, MemoryOK, CountersOK, question, memory, Cards
<1>23. CASE \E q \in Questions : ToolTimesOut(q)
  BY <1>23, <1>d DEF ToolTimesOut, Fault, Decidable, HandlersApproved, ShownOK, MemoryOK, CountersOK, question, memory, Cards
<1>24. CASE HostRestart
  BY <1>24, <1>d DEF HostRestart, Fault, Decidable, HandlersApproved, ShownOK, MemoryOK, CountersOK, question, memory, Cards
<1>25. CASE UNCHANGED vars
  BY <1>25, <1>d DEF vars, Decidable, HandlersApproved, ShownOK, MemoryOK, CountersOK, question, memory, Cards
<1> QED
  BY <1>1, <1>2, <1>3, <1>4, <1>5, <1>6, <1>7, <1>8, <1>9, <1>10, <1>11, <1>12, <1>13, <1>14, <1>15, <1>16, <1>17, <1>18, <1>19, <1>20, <1>21, <1>22, <1>23, <1>24, <1>25 DEF Next

LEMMA NextOK == IInv /\ [Next]_vars => IInv'
<1> SUFFICES ASSUME IInv, [Next]_vars PROVE IInv'
  OBVIOUS
<1>t. TypeOK /\ ShownOK /\ MemoryOK /\ ToldOK /\ CountersOK
  BY Parts DEF IInv
<1>1. TypeOK'
  BY <1>t, ShownStays, MemoryStays, ToldStays, CountersStay, PartsNext DEF IInv
<1>2. /\ CredentialRows' /\ Untold' /\ HandlersApproved' /\ DecidedOnce' /\ ApprovedByClick'
      /\ Decidable'
  BY <1>t, CredentialRowsStay, UntoldStays, HandlersStayApproved, DecidedOnceStays, ApprovedStays,
     DecidableStays DEF IInv
<1> QED
  BY <1>1, <1>2 DEF IInv

(* Whatever clicks, timers, sweeps and restarts race, the gateway is given   *)
(* one decision, nothing is applied without an authorized approve, and no    *)
(* credential row is an orphan (IInv).                                       *)
THEOREM CardsInvariance == Spec => []IInv
<1>1. Init => IInv
  BY InitOK
<1>2. IInv /\ [Next]_vars => IInv'
  BY NextOK
<1> QED
  BY <1>1, <1>2, PTL DEF Spec

(* In particular each credential request gets at most one decision.          *)
THEOREM OneDecision == Spec => []DecidedOnce
<1>1. IInv => DecidedOnce
  BY DEF IInv
<1> QED
  BY <1>1, CardsInvariance, PTL
=============================================================================
