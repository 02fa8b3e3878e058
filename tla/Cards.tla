------------------------------- MODULE Cards --------------------------------
(***************************************************************************)
(* The cards with buttons that the host shows a human, and what their      *)
(* clicks decide: approvals of an agent's action                           *)
(* (src/modules/approvals), credential requests that the gateway holds     *)
(* open, and the questions of ask_user_question (src/modules/interactive). *)
(*                                                                         *)
(* A card is a message on a platform and a row of the central database.    *)
(* The bridge (src/channels/chat-sdk-bridge.ts) edits the card before it   *)
(* hands the click on, a handler awaits other services before it deletes   *)
(* the row, and three memories live only in the process: the reason it     *)
(* waits for, the promises of the gateway, the clicks under way.           *)
(***************************************************************************)
EXTENDS Integers, FiniteSets

CONSTANTS
    Approvals,    \* requests of requestApproval, all decided in one admin's DM
    Credentials,  \* requests of the OneCLI gateway
    Questions,    \* calls of ask_user_question
    NoCard,
    MaxClicks, MaxFaults    \* bounds of the model

Cards == Approvals \union Credentials \union Questions

ASSUME CardsAssumption ==
    /\ Approvals \intersect Credentials = {}
    /\ Approvals \intersect Questions = {}
    /\ Credentials \intersect Questions = {}
    /\ NoCard \notin Cards
    /\ MaxClicks \in Nat /\ MaxFaults \in Nat

VARIABLES
    stage,     \* how far the card is on its way to the human
    row,       \* its row of pending_approvals or pending_questions
    buttons,   \* it shows buttons
    flights,   \* clicks under way: the card, the choice and what they await
    armed,     \* awaitingReason: the approval whose reason the DM is asked for
    elapsed,   \* approvals whose reply window has passed
    sweeping,  \* approvals the sweep has read and not finalized yet
    resolver,  \* credential requests with a promise in memory
    stale,     \* credential rows of an earlier process, to be swept
    told,      \* the decisions each requester was given (history)
    approved,  \* cards with an authorized click on approve (history)
    tool,      \* the MCP tool call of a question
    answer,    \* its question_response row in inbound.db
    clicks, faults

vars == <<stage, row, buttons, flights, armed, elapsed, sweeping, resolver, stale,
          told, approved, tool, answer, clicks, faults>>

Choices == {"approve", "reject", "reason"}
Flight == [card: Cards, choice: Choices, at: {"editing", "applying", "prompting"}]
Verdicts == {"applied", "rejected", "reasoned", "failed", "approve", "deny"}

TypeOK ==
    /\ stage \in [Cards -> {"new", "reaching", "posting", "shown", "open", "over"}]
    /\ row \in [Cards -> {"none", "pending", "awaiting_reason", "expired"}]
    /\ buttons \in [Cards -> BOOLEAN]
    /\ flights \subseteq Flight
    /\ armed \in Approvals \union {NoCard}
    /\ elapsed \subseteq Approvals /\ sweeping \subseteq Approvals
    /\ resolver \subseteq Credentials /\ stale \subseteq Credentials
    /\ told \in [Cards -> SUBSET Verdicts]
    /\ approved \subseteq Cards
    /\ tool \in [Questions -> {"idle", "waiting", "answered", "timed out"}]
    /\ answer \in [Questions -> {"none", "pending", "acked"}]
    /\ clicks \in 0..MaxClicks /\ faults \in 0..MaxFaults

Init ==
    /\ stage = [c \in Cards |-> "new"]
    /\ row = [c \in Cards |-> "none"]
    /\ buttons = [c \in Cards |-> FALSE]
    /\ flights = {} /\ armed = NoCard /\ elapsed = {} /\ sweeping = {}
    /\ resolver = {} /\ stale = {}
    /\ told = [c \in Cards |-> {}] /\ approved = {}
    /\ tool = [q \in Questions |-> "idle"]
    /\ answer = [q \in Questions |-> "none"]
    /\ clicks = 0 /\ faults = 0

Fault == faults < MaxFaults /\ faults' = faults + 1

Tell(c, verdict) == told' = [told EXCEPT ![c] = @ \union {verdict}]

memory == <<armed, elapsed, sweeping, resolver, stale>>
question == <<tool, answer>>
-----------------------------------------------------------------------------
(* Asking.  Whoever asks first looks for a human it can reach.               *)

Refusal(c) == IF c \in Approvals THEN "failed" ELSE "deny"

\* requestApproval and handleRequest: no approver, or none with a DM.
AskNobody(c) ==
    /\ c \notin Questions
    /\ stage[c] \in {"new", "reaching"}
    /\ stage' = [stage EXCEPT ![c] = "over"]
    /\ Tell(c, Refusal(c))
    /\ UNCHANGED <<row, buttons, flights, memory, question, approved, clicks, faults>>

\* ensureUserDm is awaited; a question goes to the outbound queue.
Ask(c) ==
    /\ stage[c] = "new"
    /\ stage' = [stage EXCEPT ![c] = "reaching"]
    /\ tool' = IF c \in Questions THEN [tool EXCEPT ![c] = "waiting"] ELSE tool
    /\ UNCHANGED <<row, buttons, flights, memory, answer, told, approved, clicks, faults>>

\* The post is sent: approvals and questions have their row by then
\* (INSERT OR IGNORE), a credential request has not.
Post(c) ==
    /\ stage[c] = "reaching"
    /\ stage' = [stage EXCEPT ![c] = "posting"]
    /\ row' = IF c \in Credentials \/ row[c] # "none" THEN row ELSE [row EXCEPT ![c] = "pending"]
    /\ UNCHANGED <<buttons, flights, memory, question, told, approved, clicks, faults>>

\* The platform shows the card before the host hears of it.
Show(c) ==
    /\ stage[c] = "posting"
    /\ stage' = [stage EXCEPT ![c] = "shown"]
    /\ buttons' = [buttons EXCEPT ![c] = TRUE]
    /\ UNCHANGED <<row, flights, memory, question, told, approved, clicks, faults>>

Posted(c) ==
    /\ stage[c] = "shown"
    /\ stage' = [stage EXCEPT ![c] = "open"]
    /\ IF c \in Credentials
       THEN row' = [row EXCEPT ![c] = "pending"] /\ resolver' = resolver \union {c}
       ELSE UNCHANGED <<row, resolver>>
    /\ UNCHANGED <<buttons, flights, armed, elapsed, sweeping, stale, question, told, approved,
                   clicks, faults>>

\* The post throws, shown or not.  The delivery queue sends a question again;
\* an approval keeps its row.
PostFails(c) ==
    /\ stage[c] \in {"posting", "shown"} /\ Fault
    /\ IF c \in Questions
       THEN stage' = [stage EXCEPT ![c] = "reaching"] /\ UNCHANGED told
       ELSE stage' = [stage EXCEPT ![c] = "over"] /\ Tell(c, Refusal(c))
    /\ UNCHANGED <<row, buttons, flights, memory, question, approved, clicks>>
-----------------------------------------------------------------------------
(* Clicking.  The bridge edits the card, then hands the click on.            *)

Click(c, choice) ==
    /\ buttons[c] /\ clicks < MaxClicks /\ clicks' = clicks + 1
    /\ c \notin Approvals => choice # "reason"
    /\ [card |-> c, choice |-> choice, at |-> "editing"] \notin flights
    /\ flights' = flights \union {[card |-> c, choice |-> choice, at |-> "editing"]}
    /\ UNCHANGED <<stage, row, buttons, memory, question, told, approved, faults>>

\* The card is edited, or keeps its buttons because the platform refuses.
Edited(f) ==
    /\ f \in flights /\ f.at = "editing"
    /\ \/ buttons' = [buttons EXCEPT ![f.card] = FALSE] /\ UNCHANGED faults
       \/ Fault /\ UNCHANGED buttons

Lands(f) == flights' = flights \ {f}
Moves(f, at) == flights' = (flights \ {f}) \union {[f EXCEPT !.at = at]}

Drop(c) == row' = [row EXCEPT ![c] = "none"]

\* No row claims the click, or the clicker may not decide any more.
ClickLost(f) ==
    /\ Edited(f) /\ Lands(f)
    /\ row[f.card] = "none"
    /\ UNCHANGED <<stage, row, memory, question, told, approved, clicks>>

ClickUnauthorized(f) ==
    /\ f \in flights /\ f.at = "editing" /\ Fault
    /\ f.card \notin Questions /\ row[f.card] # "none"
    /\ buttons' = [buttons EXCEPT ![f.card] = FALSE]
    /\ Lands(f)
    /\ UNCHANGED <<stage, row, memory, question, told, approved, clicks>>

Approves(f) == approved' = IF f.choice = "approve" THEN approved \union {f.card} ELSE approved

\* Mutant of ClickCredential: the promise stays in the map.
ClickKeepsResolver(f) ==
    /\ Edited(f) /\ Lands(f)
    /\ f.card \in Credentials /\ row[f.card] # "none"
    /\ Approves(f)
    /\ IF f.card \in resolver
       THEN Tell(f.card, IF f.choice = "approve" THEN "approve" ELSE "deny")
       ELSE UNCHANGED told
    /\ Drop(f.card)
    /\ UNCHANGED <<stage, memory, question, clicks>>

\* resolveOneCLIApproval: the promise decides once; without it only the row goes.
ClickCredential(f) ==
    /\ Edited(f) /\ Lands(f)
    /\ f.card \in Credentials /\ row[f.card] # "none"
    /\ Approves(f)
    /\ IF f.card \in resolver
       THEN /\ resolver' = resolver \ {f.card}
            /\ Tell(f.card, IF f.choice = "approve" THEN "approve" ELSE "deny")
       ELSE UNCHANGED <<resolver, told>>
    /\ Drop(f.card)
    /\ UNCHANGED <<stage, armed, elapsed, sweeping, stale, question, clicks>>

\* handleInteractiveResponse: the answer's row, then the question's goes.
ClickQuestion(f) ==
    /\ Edited(f) /\ Lands(f)
    /\ f.card \in Questions /\ row[f.card] # "none"
    /\ answer' = [answer EXCEPT ![f.card] = "pending"]
    /\ Drop(f.card)
    /\ UNCHANGED <<stage, memory, tool, told, approved, clicks>>

\* handleRegisteredApproval: a reject ends it; an approve awaits the handler
\* and a reject with reason the prompt, both with the row still there.
ClickApproval(f) ==
    /\ Edited(f)
    /\ f.card \in Approvals /\ row[f.card] # "none"
    /\ Approves(f)
    /\ CASE f.choice = "approve" -> Moves(f, "applying") /\ UNCHANGED <<row, told>>
         [] f.choice = "reason"  -> Moves(f, "prompting") /\ UNCHANGED <<row, told>>
         [] f.choice = "reject"  -> Lands(f) /\ Drop(f.card) /\ Tell(f.card, "rejected")
    /\ UNCHANGED <<stage, memory, question, clicks>>

\* The handler applied the action, or threw and the agent is told.
Applied(f) ==
    /\ f \in flights /\ f.at = "applying" /\ Lands(f)
    /\ \/ Tell(f.card, "applied") /\ UNCHANGED faults
       \/ Tell(f.card, "failed") /\ Fault
    /\ Drop(f.card)
    /\ UNCHANGED <<stage, buttons, memory, question, approved, clicks>>

\* armReasonCapture: the prompt is out, the row is held (UPDATE: not revived)
\* and the DM armed, over whatever it was armed for; or a plain reject.
Prompted(f) ==
    /\ f \in flights /\ f.at = "prompting" /\ Lands(f)
    /\ \/ /\ row' = [row EXCEPT ![f.card] = IF @ = "none" THEN @ ELSE "awaiting_reason"]
          /\ armed' = f.card /\ elapsed' = elapsed \ {f.card}
          /\ UNCHANGED <<told, faults>>
       \/ Fault /\ Drop(f.card) /\ Tell(f.card, "rejected") /\ UNCHANGED <<armed, elapsed>>
    /\ UNCHANGED <<stage, buttons, sweeping, resolver, stale, question, approved, clicks>>

\* captureReasonReply: the admin's next DM, a reason only while the row is held.
Reply ==
    /\ armed # NoCard /\ armed' = NoCard
    /\ IF row[armed] = "awaiting_reason"
       THEN Drop(armed) /\ Tell(armed, "reasoned")
       ELSE UNCHANGED <<row, told>>
    /\ UNCHANGED <<stage, buttons, flights, elapsed, sweeping, resolver, stale, question, approved,
                   clicks, faults>>
-----------------------------------------------------------------------------
(* Time: the reply window, the gateway's deadline, the tool's.               *)

WindowElapses(a) ==
    /\ row[a] = "awaiting_reason" /\ a \notin elapsed
    /\ elapsed' = elapsed \union {a}
    /\ UNCHANGED <<stage, row, buttons, flights, armed, sweeping, resolver, stale, question, told,
                   approved, clicks, faults>>

\* Mutant of SweepReads: only holds whose reason can still be captured.
SweepReadsArmed ==
    /\ sweeping = {}
    /\ sweeping' = {a \in elapsed : row[a] = "awaiting_reason" /\ armed = a} /\ sweeping' # {}
    /\ UNCHANGED <<stage, row, buttons, flights, armed, elapsed, resolver, stale, question, told,
                   approved, clicks, faults>>

\* sweepAwaitingReasonRejects reads the list once and awaits between its rows.
SweepReads ==
    /\ sweeping = {}
    /\ sweeping' = {a \in elapsed : row[a] = "awaiting_reason"} /\ sweeping' # {}
    /\ UNCHANGED <<stage, row, buttons, flights, armed, elapsed, resolver, stale, question, told,
                   approved, clicks, faults>>

SweepRejects(a) ==
    /\ a \in sweeping /\ sweeping' = sweeping \ {a}
    /\ Drop(a) /\ Tell(a, "rejected")
    /\ UNCHANGED <<stage, buttons, flights, armed, elapsed, resolver, stale, question, approved,
                   clicks, faults>>

\* Mutant of Expire: the promise is dropped, not resolved.
ExpireSilently(c) ==
    /\ c \in resolver /\ resolver' = resolver \ {c}
    /\ row' = [row EXCEPT ![c] = "expired"]
    /\ UNCHANGED <<stage, buttons, flights, armed, elapsed, sweeping, stale, question, told, approved,
                   clicks, faults>>

\* The timer of handleRequest: the row is marked at once and dropped after the edit.
Expire(c) ==
    /\ c \in resolver /\ resolver' = resolver \ {c}
    /\ Tell(c, "deny")
    /\ row' = [row EXCEPT ![c] = "expired"]
    /\ UNCHANGED <<stage, buttons, flights, armed, elapsed, sweeping, stale, question, approved,
                   clicks, faults>>

Expired(c) ==
    /\ row[c] = "expired" /\ c \notin stale
    /\ \/ buttons' = [buttons EXCEPT ![c] = FALSE] /\ UNCHANGED faults
       \/ Fault /\ UNCHANGED buttons
    /\ Drop(c)
    /\ UNCHANGED <<stage, flights, memory, question, told, approved, clicks>>

\* The tool polls inbound.db, acks what it finds, and gives up in the end.
ToolReads(q) ==
    /\ tool[q] = "waiting" /\ answer[q] = "pending"
    /\ tool' = [tool EXCEPT ![q] = "answered"]
    /\ answer' = [answer EXCEPT ![q] = "acked"]
    /\ UNCHANGED <<stage, row, buttons, flights, memory, told, approved, clicks, faults>>

ToolTimesOut(q) ==
    /\ tool[q] = "waiting" /\ answer[q] # "pending"
    /\ tool' = [tool EXCEPT ![q] = "timed out"]
    /\ UNCHANGED <<stage, row, buttons, flights, memory, answer, told, approved, clicks, faults>>
-----------------------------------------------------------------------------
(* The host restarts: what was in memory is gone, and so is what a request   *)
(* awaited; an approval or a question keeps its row, a question is delivered *)
(* again, and the credential rows found are swept (sweepStaleApprovals).     *)
HostRestart ==
    /\ Fault
    /\ flights' = {} /\ armed' = NoCard /\ sweeping' = {} /\ resolver' = {}
    /\ stale' = {c \in Credentials : row[c] # "none"}
    /\ stage' = [c \in Cards |->
                    IF stage[c] \in {"new", "open", "over"} THEN stage[c]
                    ELSE IF c \in Questions THEN "reaching" ELSE "over"]
    /\ UNCHANGED <<row, buttons, elapsed, question, told, approved, clicks>>

SweepStale(c) ==
    /\ c \in stale /\ stale' = stale \ {c}
    /\ \/ buttons' = [buttons EXCEPT ![c] = FALSE] /\ UNCHANGED faults
       \/ Fault /\ UNCHANGED buttons
    /\ Drop(c)
    /\ UNCHANGED <<stage, flights, armed, elapsed, sweeping, resolver, question, told, approved, clicks>>
-----------------------------------------------------------------------------
Next ==
    \/ \E c \in Cards : AskNobody(c) \/ Ask(c) \/ Post(c) \/ Show(c) \/ Posted(c) \/ PostFails(c)
    \/ \E c \in Cards, choice \in Choices : Click(c, choice)
    \/ \E f \in flights : \/ ClickLost(f) \/ ClickUnauthorized(f) \/ ClickCredential(f)
                          \/ ClickQuestion(f) \/ ClickApproval(f) \/ Applied(f) \/ Prompted(f)
    \/ Reply \/ SweepReads
    \/ \E a \in Approvals : WindowElapses(a) \/ SweepRejects(a)
    \/ \E c \in Credentials : Expire(c) \/ Expired(c) \/ SweepStale(c)
    \/ \E q \in Questions : ToolReads(q) \/ ToolTimesOut(q)
    \/ HostRestart

Spec == Init /\ [][Next]_vars

\* Timers fire, the sweep comes back and what is awaited returns; no human is
\* bound to click or to reply.
FairSpec ==
    /\ Spec
    /\ \A c \in Cards : WF_vars(Ask(c)) /\ WF_vars(Post(c)) /\ WF_vars(Show(c)) /\ WF_vars(Posted(c))
    /\ \A a \in Approvals : WF_vars(WindowElapses(a)) /\ WF_vars(SweepRejects(a))
    /\ WF_vars(SweepReads)
    /\ \A c \in Credentials : WF_vars(Expire(c)) /\ WF_vars(Expired(c)) /\ WF_vars(SweepStale(c))
    /\ \A q \in Questions : WF_vars(ToolReads(q)) /\ WF_vars(ToolTimesOut(q))
-----------------------------------------------------------------------------
(* What must hold. *)

\* A row of a credential request is never an orphan: a promise, an expiry under
\* way or the start-up sweep will remove it.
CredentialRows ==
    \A c \in Credentials : row[c] # "none" => c \in resolver \/ row[c] = "expired" \/ c \in stale

\* The gateway is given one decision, whatever click, timer and restart race.
DecidedOnce == \A c \in Credentials : Cardinality(told[c]) <= 1

\* Nothing is applied or let through without an authorized click on approve.
ApprovedByClick ==
    \A c \in Cards : "applied" \in told[c] \/ "approve" \in told[c] => c \in approved

\* While nothing fails, whoever holds a card that is out can still decide it.
Decidable ==
    faults = 0 => \A a \in Approvals :
        stage[a] \in {"shown", "open"} /\ row[a] = "pending" => buttons[a] \/ \E f \in flights : f.card = a

\* Why: the gateway is told nothing while its card is on its way or its promise
\* is kept, and a handler runs for an approve only.
Untold ==
    \A c \in Credentials :
        /\ stage[c] \in {"new", "reaching", "posting", "shown"} => told[c] = {} /\ c \notin resolver
        /\ c \in resolver => told[c] = {}

HandlersApproved ==
    \A f \in flights : /\ f.at # "editing" => f.card \in Approvals
                       /\ f.at = "applying" => f.card \in approved

IInv ==
    /\ TypeOK /\ Decidable /\ CredentialRows /\ DecidedOnce /\ ApprovedByClick
    /\ Untold /\ HandlersApproved

\* A rejection held for its reason ends, with the reason or without, through
\* restarts: the agent is never stranded.
HoldsEnd == \A a \in Approvals : row[a] = "awaiting_reason" ~> row[a] = "none" /\ told[a] # {}

\* The gateway gets its decision unless the host dies while it waits.
GatewayAnswered ==
    \A c \in Credentials : stage[c] = "open" ~> told[c] # {} \/ (row[c] = "none" /\ faults > 0)
=============================================================================
