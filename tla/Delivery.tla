------------------------------ MODULE Delivery ------------------------------
(***************************************************************************)
(* Delivery of the rows that sessions write to messages_out.  Two poll     *)
(* chains visit sessions one by one, the active chain those whose          *)
(* container runs, the sweep chain all that are not closed; a notice the   *)
(* host composes drains its session at once.  A drain takes a snapshot of  *)
(* the rows that are not recorded in `delivered` and awaits the platform   *)
(* row by row; a set of sessions being drained keeps drains of one session *)
(* apart.                                                                  *)
(*                                                                         *)
(* The host is one event loop: a host action is the code between two       *)
(* awaits.  The platform, or the handler of a system action, may take a    *)
(* row and answer, refuse it, take it and throw, or never answer; the host *)
(* may die at any await, and then only the databases remain.               *)
(***************************************************************************)
EXTENDS Naturals

CONSTANTS
    Rows,        \* rows of messages_out, numbered in the order of their timestamps
    Sessions,
    SessionOf,   \* the session that writes a row
    Chats,       \* rows of kind chat for a channel; the others are actions and messages to agents
    Unroutable,  \* rows with an unknown or forbidden destination
    TaskSessions,\* sessions that exist for one task and are closed after it
    Origins,     \* sessions whose limit or error may switch the provider
    Hanging,     \* sessions whose platform may leave a call unanswered for ever
    MaxAttempts, \* MAX_DELIVERY_ATTEMPTS
    MaxFaults    \* bound on host crashes and unreadable databases

ASSUME DeliveryAssumption ==
    /\ Rows \subseteq Nat
    /\ SessionOf \in [Rows -> Sessions]
    /\ Chats \subseteq Rows
    /\ Unroutable \subseteq Rows
    /\ TaskSessions \subseteq Sessions
    /\ Origins \subseteq Sessions
    /\ "active" \notin Sessions /\ "sweep" \notin Sessions
    /\ MaxAttempts \in Nat \ {0}
    /\ MaxFaults \in Nat

Chains == {"active", "sweep"}

\* Who calls deliverSessionMessages: the chains, and the notices of a session.
Callers == Chains \cup Sessions

VARIABLES
    \* the databases
    written,    \* rows in messages_out
    recorded,   \* a row's status in `delivered`
    notice,     \* sessions with a row in fallback_pending_notices
    running,    \* sessions whose container_status is running or idle
    closed,     \* sessions whose status is closed
    \* the host's memory
    attempts,   \* deliveryAttempts
    inflight,   \* inflightDeliveries
    todo,       \* sessions a chain has still to visit
    left,       \* rows a caller's drain has still to deliver, the oldest is under way
    sent,       \* callers whose row under way has reached the platform
    carrying,   \* callers whose row under way begins with the session's notice
    \* history
    shown,      \* how often a row reached the platform
    unheard,    \* how often it did without the host being told
    untold,     \* sessions whose latest notice has not reached the platform
    faults

dbVars == <<written, recorded, notice, running, closed>>
memoryVars == <<attempts, inflight, todo, left, sent, carrying>>
history == <<shown, unheard, untold, faults>>
vars == <<dbVars, memoryVars, history>>

TypeOK ==
    /\ written \subseteq Rows
    /\ recorded \in [Rows -> {"none", "delivered", "failed"}]
    /\ notice \subseteq Sessions
    /\ running \subseteq Sessions
    /\ closed \subseteq TaskSessions
    /\ attempts \in [Rows -> 0..(MaxAttempts - 1)]
    /\ inflight \subseteq Sessions
    /\ todo \in [Chains -> SUBSET Sessions]
    /\ left \in [Callers -> SUBSET Rows]
    /\ sent \subseteq Callers
    /\ carrying \subseteq Callers
    /\ shown \in [Rows -> Nat]
    /\ unheard \in [Rows -> Nat]
    /\ untold \subseteq Sessions
    /\ faults \in 0..MaxFaults

Init ==
    /\ written = {}
    /\ recorded = [r \in Rows |-> "none"]
    /\ notice = {}
    /\ running = {}
    /\ closed = {}
    /\ attempts = [r \in Rows |-> 0]
    /\ inflight = {}
    /\ todo = [c \in Chains |-> {}]
    /\ left = [c \in Callers |-> {}]
    /\ sent = {}
    /\ carrying = {}
    /\ shown = [r \in Rows |-> 0]
    /\ unheard = [r \in Rows |-> 0]
    /\ untold = {}
    /\ faults = 0

\* Mutant: ORDER BY timestamp DESC.
Newest(R) == CHOOSE r \in R : \A q \in R : r >= q

Oldest(R) == CHOOSE r \in R : \A q \in R : r <= q

UnderWay(c) == Oldest(left[c])

Busy(c) == left[c] # {}

Undelivered(s) == {r \in written : SessionOf[r] = s /\ recorded[r] = "none"}

-----------------------------------------------------------------------------
(* The sessions: what else writes the tables delivery reads. *)

\* Timestamps order the rows of a session as they were written.
InOrder(r) ==
    /\ r \notin written
    /\ \A q \in Rows \ written : SessionOf[q] = SessionOf[r] => r <= q

ContainerStarts(s) ==
    /\ s \notin running \cup closed
    /\ running' = running \cup {s}
    /\ UNCHANGED <<written, recorded, notice, closed, memoryVars, history>>

ContainerStops(s) ==
    /\ s \in running
    /\ running' = running \ {s}
    /\ UNCHANGED <<written, recorded, notice, closed, memoryVars, history>>

WriteMessageOut(r) ==
    /\ SessionOf[r] \in running
    /\ InOrder(r)
    /\ written' = written \cup {r}
    /\ UNCHANGED <<recorded, notice, running, closed, memoryVars, history>>

\* A fallback switch leaves its notice for the next chat row.
StoreNotice(s) ==
    /\ s \in Origins
    /\ notice' = notice \cup {s}
    /\ untold' = untold \cup {s}
    /\ UNCHANGED <<written, recorded, running, closed, memoryVars, shown, unheard, faults>>

\* Step 6 of the host's sweep: no container and no live task.
CloseTaskSession(s) ==
    /\ s \in TaskSessions \ (closed \cup running)
    /\ closed' = closed \cup {s}
    /\ UNCHANGED <<written, recorded, notice, running, memoryVars, history>>

-----------------------------------------------------------------------------
(* Draining a session. *)

\* Mutant of DrainSession: the notice is deleted whatever the row's kind.
DrainDeletesNotice(c, s, R) ==
    LET prefixed == R # {} /\ Oldest(R) \in Chats \ Unroutable /\ s \in notice
    IN  /\ left' = [left EXCEPT ![c] = R]
        /\ inflight' = IF R = {} THEN inflight \ {s} ELSE inflight \cup {s}
        /\ sent' = sent \ {c}
        /\ carrying' = IF prefixed THEN carrying \cup {c} ELSE carrying \ {c}
        /\ notice' = IF R # {} THEN notice \ {s} ELSE notice

\* Caller c has rows R of session s left.  The first is looked at up to the
\* await of the platform: the notice is put in front of a chat row and
\* deleted.  Without rows the drain is over and the guard is released.
DrainSession(c, s, R) ==
    LET prefixed == R # {} /\ Oldest(R) \in Chats \ Unroutable /\ s \in notice
    IN  /\ left' = [left EXCEPT ![c] = R]
        /\ inflight' = IF R = {} THEN inflight \ {s} ELSE inflight \cup {s}
        /\ sent' = sent \ {c}
        /\ carrying' = IF prefixed THEN carrying \cup {c} ELSE carrying \ {c}
        /\ notice' = IF prefixed THEN notice \ {s} ELSE notice

\* Mutant: without the guard two drains of one session overlap.
DeliverUnguarded(c, s, rows) == DrainSession(c, s, rows)

\* Mutant: a second caller waits for the first drain.
DeliverQueued(c, s, rows) ==
    /\ s \notin inflight
    /\ DrainSession(c, s, rows)

DeliverSessionMessages(c, s, rows) ==
    IF s \in inflight
    THEN UNCHANGED <<left, inflight, sent, carrying, notice>>
    ELSE DrainSession(c, s, rows)

Tick(c) ==
    /\ todo[c] = {} /\ ~Busy(c)
    /\ todo' = [todo EXCEPT ![c] = IF c = "active" THEN running ELSE Sessions \ closed]
    /\ UNCHANGED <<dbVars, attempts, inflight, left, sent, carrying, history>>

Visit(c, s) ==
    /\ s \in todo[c] /\ ~Busy(c)
    /\ todo' = [todo EXCEPT ![c] = @ \ {s}]
    /\ DeliverSessionMessages(c, s, Undelivered(s))
    /\ UNCHANGED <<written, recorded, running, closed, attempts, history>>

\* A database that cannot be read ends the tick of the whole chain.
VisitFails(c, s) ==
    /\ faults < MaxFaults
    /\ s \in todo[c] \ inflight /\ ~Busy(c)
    /\ todo' = [todo EXCEPT ![c] = {}]
    /\ faults' = faults + 1
    /\ UNCHANGED <<dbVars, attempts, inflight, left, sent, carrying, shown, unheard, untold>>

\* writeOutboundDirect, followed by a drain if the writer pushes its row.
WriteOutboundDirect(r) ==
    LET s == SessionOf[r] IN
    /\ r \in Chats /\ InOrder(r)
    /\ written' = written \cup {r}
    /\ \/ DeliverSessionMessages(s, s, Undelivered(s) \cup {r})
       \/ UNCHANGED <<left, inflight, sent, carrying, notice>>
    /\ UNCHANGED <<recorded, running, closed, attempts, todo, history>>

-----------------------------------------------------------------------------
(* One row: its effect outside, and the answer the drain awaits. *)

\* The row reaches the platform, or the handler has done its work.
Accept(c) ==
    LET r == UnderWay(c) s == SessionOf[r] IN
    /\ Busy(c) /\ c \notin sent
    /\ r \notin Unroutable
    /\ shown' = [shown EXCEPT ![r] = @ + 1]
    /\ sent' = sent \cup {c}
    /\ untold' = IF c \in carrying /\ s \notin notice THEN untold \ {s} ELSE untold
    /\ UNCHANGED <<dbVars, attempts, inflight, todo, left, carrying, unheard, faults>>

\* INSERT OR IGNORE INTO delivered.
Record(r, status) ==
    recorded' = [recorded EXCEPT ![r] = IF @ = "none" THEN status ELSE @]

Returned(c) ==
    LET r == UnderWay(c) IN
    /\ Busy(c) /\ c \in sent
    /\ Record(r, "delivered")
    /\ attempts' = [attempts EXCEPT ![r] = 0]
    /\ DrainSession(c, SessionOf[r], left[c] \ {r})
    /\ UNCHANGED <<written, running, closed, todo, history>>

\* Mutant: one attempt too many is counted.
ThrowsOnceMore(c) ==
    LET r == UnderWay(c)
        givesUp == attempts[r] + 1 > MaxAttempts
    IN  /\ Busy(c)
        /\ IF givesUp THEN Record(r, "failed") ELSE UNCHANGED recorded
        /\ attempts' = [attempts EXCEPT ![r] = IF givesUp THEN 0 ELSE @ + 1]
        /\ DrainSession(c, SessionOf[r], left[c] \ {r})
        /\ unheard' = IF c \in sent THEN [unheard EXCEPT ![r] = @ + 1] ELSE unheard
        /\ UNCHANGED <<written, running, closed, todo, shown, untold, faults>>

\* Mutant: a failure is recorded as a delivery.
ThrowsRecorded(c) ==
    LET r == UnderWay(c) IN
    /\ Busy(c)
    /\ Record(r, "delivered")
    /\ attempts' = [attempts EXCEPT ![r] = 0]
    /\ DrainSession(c, SessionOf[r], left[c] \ {r})
    /\ UNCHANGED <<written, running, closed, todo, history>>

Throws(c) ==
    LET r == UnderWay(c)
        givesUp == attempts[r] + 1 >= MaxAttempts
    IN  /\ Busy(c)
        /\ IF givesUp THEN Record(r, "failed") ELSE UNCHANGED recorded
        /\ attempts' = [attempts EXCEPT ![r] = IF givesUp THEN 0 ELSE @ + 1]
        /\ DrainSession(c, SessionOf[r], left[c] \ {r})
        /\ unheard' = IF c \in sent THEN [unheard EXCEPT ![r] = @ + 1] ELSE unheard
        /\ UNCHANGED <<written, running, closed, todo, shown, untold, faults>>

\* A caller awaits the answer of a row that has reached the platform.
AwaitedAfterEffect(r) == \E c \in sent : UnderWay(c) = r

\* The host dies and starts again; containers it left behind are stopped.
HostCrash ==
    /\ faults < MaxFaults
    /\ faults' = faults + 1
    /\ unheard' = [r \in Rows |-> IF AwaitedAfterEffect(r) THEN unheard[r] + 1 ELSE unheard[r]]
    /\ attempts' = [r \in Rows |-> 0]
    /\ inflight' = {}
    /\ todo' = [c \in Chains |-> {}]
    /\ left' = [c \in Callers |-> {}]
    /\ sent' = {}
    /\ carrying' = {}
    /\ running' = {}
    /\ UNCHANGED <<written, recorded, notice, closed, shown, untold>>

-----------------------------------------------------------------------------
Next ==
    \/ \E s \in Sessions :
          ContainerStarts(s) \/ ContainerStops(s) \/ StoreNotice(s) \/ CloseTaskSession(s)
    \/ \E r \in Rows : WriteMessageOut(r) \/ WriteOutboundDirect(r)
    \/ \E c \in Chains : Tick(c) \/ \E s \in Sessions : Visit(c, s) \/ VisitFails(c, s)
    \/ \E c \in Callers : Accept(c) \/ Returned(c) \/ Throws(c)
    \/ HostCrash

Spec == Init /\ [][Next]_vars

\* The platform of c's row answers.
Answer(c) ==
    /\ Busy(c)
    /\ SessionOf[UnderWay(c)] \notin Hanging
    /\ Returned(c) \/ Throws(c)

\* The chains' timers fire and the loop goes on; awaited calls of platforms
\* that are not Hanging come back.  Nothing else has to happen.
Fairness ==
    /\ \A c \in Chains : WF_vars(Tick(c)) /\ WF_vars(\E s \in Sessions : Visit(c, s))
    /\ \A c \in Callers : WF_vars(Answer(c))

FairSpec == Spec /\ Fairness

-----------------------------------------------------------------------------
(* Safety. *)

\* A session is marked as being drained exactly while one caller drains it;
\* a mark left behind would silence the session until the host restarts
\* (the finally of deliverSessionMessages).
OneDrainPerSession ==
    /\ \A c, d \in Callers : \A q \in left[c], r \in left[d] :
          SessionOf[q] = SessionOf[r] <=> c = d
    /\ inflight = {SessionOf[UnderWay(c)] : c \in {d \in Callers : Busy(d)}}
    /\ \A s \in Sessions : \A r \in left[s] : SessionOf[r] = s

\* What a drain has left is written and not settled, although the snapshot
\* it was taken from is old: nobody else settles rows of the session.
SnapshotIsFresh ==
    \A c \in Callers : \A r \in left[c] : r \in written /\ recorded[r] = "none"

\* Each time a row reached the platform is recorded, awaited or unheard of.
ShowingsAccounted ==
    \A r \in Rows :
       shown[r] = unheard[r] + (IF recorded[r] = "delivered" THEN 1 ELSE 0)
                             + (IF AwaitedAfterEffect(r) THEN 1 ELSE 0)

\* An older row of its session that a drain has not before it any more, and
\* that is not settled, has failed since the host started.
OlderWasTried ==
    \A c \in Callers : \A r \in left[c] : \A q \in written :
       /\ SessionOf[q] = SessionOf[r] /\ q < r /\ recorded[q] = "none"
       => q \in left[c] \/ attempts[q] > 0

\* A session's rows are written in the order of their timestamps.
WrittenInOrder ==
    \A r \in written : \A q \in Rows : SessionOf[q] = SessionOf[r] /\ q < r => q \in written

SentIsBusy == \A c \in sent : Busy(c)

OnlyWrittenRecorded == \A r \in Rows \ written : recorded[r] = "none"

\* The inductive invariant of the rows.
RowInv ==
    /\ TypeOK
    /\ OneDrainPerSession
    /\ SnapshotIsFresh
    /\ ShowingsAccounted
    /\ OlderWasTried
    /\ WrittenInOrder
    /\ SentIsBusy
    /\ OnlyWrittenRecorded

\* A carried notice belongs to a row under way, and once that row has reached
\* the platform only a notice stored since is untold.
NoticeInv ==
    /\ \A c \in carrying : Busy(c)
    /\ \A c \in carrying \cap sent :
          SessionOf[UnderWay(c)] \in untold => SessionOf[UnderWay(c)] \in notice

\* The inductive invariant of the safety proofs.
IInv == RowInv /\ NoticeInv

\* "The user has already seen the message twice" only if the host was not
\* told of the first time: polls that overlap never repeat a row.
SeenOnceUnlessUnheard == \A r \in Rows : shown[r] <= unheard[r] + 1

\* A row reaches the platform before an older one of its session only if the
\* older one was tried first and failed.
OvertakesOnlyFailed ==
    [][\A q, r \in Rows :
          /\ shown'[r] > shown[r]
          /\ SessionOf[q] = SessionOf[r] /\ q < r /\ recorded[q] = "none"
          => attempts[q] > 0]_vars

\* Every row is shown before it is recorded as delivered and never touched
\* after it is recorded (module Outbox).
fate == [r \in Rows |-> IF r \notin written THEN "absent"
                        ELSE IF recorded[r] = "none" THEN "waiting"
                        ELSE recorded[r]]

Outgoing == INSTANCE Outbox

ImplementsOutbox == Outgoing!Spec

\* The notice of a switch "will be delivered with next chat response": it is
\* stored, part of the row under way, or seen.  It is lost only when that
\* row's delivery fails or the host dies during it, never to another row.
HasNotice(s) == s \in notice \/ \E c \in carrying : SessionOf[UnderWay(c)] = s

NoticeLostOnlyByFailure ==
    [][\A s \in untold :
          HasNotice(s) =>
             \/ HasNotice(s)' \/ s \notin untold'
             \/ faults' # faults
             \/ \E c \in carrying : /\ SessionOf[UnderWay(c)] = s
                                    /\ \/ attempts'[UnderWay(c)] > attempts[UnderWay(c)]
                                       \/ recorded'[UnderWay(c)] = "failed"]_vars

-----------------------------------------------------------------------------
(* Liveness. *)

\* Rows of a session whose container keeps running are settled, also when
\* the platform of another session never answers again: callers skip a
\* session that is being drained.
SettledWhileRunning ==
    \A s \in Sessions \ Hanging : \A r \in Rows :
       SessionOf[r] = s /\ <>[](s \in running) => (r \in written ~> recorded[r] # "none")
=============================================================================
