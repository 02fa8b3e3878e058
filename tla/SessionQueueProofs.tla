------------------------- MODULE SessionQueueProofs -------------------------
(* Theorems about SessionQueue, for every set of rows and every limit. *)
EXTENDS SessionQueue, FiniteSetTheorems, SequenceTheorems, TLAPS

-----------------------------------------------------------------------------
(* Type correctness                                                        *)

\* The number of rows written is a number: messages_in is finite.
LEMMA WrittenIsCounted ==
    Cardinality({x \in Msgs : status[x] # "absent"}) \in Nat
<1>1. IsFiniteSet({x \in Msgs : status[x] # "absent"})
    BY RowsAssumption, FS_Subset
<1> QED
    BY <1>1, FS_CardinalityType

\* What insertMessage and insertTask write is a row.
LEMMA InsertType ==
    ASSUME TypeOK, NEW m \in Msgs, NEW later \in BOOLEAN, Insert(m, later)
    PROVE  /\ status' \in [Msgs -> {"absent", "pending"} \cup Terminal]
           /\ tries' \in [Msgs -> 0..MaxTries]
           /\ deferred' \in [Msgs -> BOOLEAN]
           /\ seq' \in [Msgs -> Nat]
<1>1. 1 + Cardinality({x \in Msgs : status[x] # "absent"}) \in Nat
    BY WrittenIsCounted
<1> DEFINE next == 1 + Cardinality({x \in Msgs : status[x] # "absent"})
<1> HIDE DEF next
<1>2. next \in Nat /\ seq' = [seq EXCEPT ![m] = next]
    BY <1>1 DEF Insert, next
<1> QED
    BY <1>2 DEF Insert, TypeOK

\* What a sweep's retry leaves behind is a row.
LEMMA ResetType ==
    ASSUME TypeOK, ResetStuckProcessingRows
    PROVE  /\ status' \in [Msgs -> {"absent", "pending"} \cup Terminal]
           /\ tries' \in [Msgs -> 0..MaxTries]
           /\ deferred' \in [Msgs -> BOOLEAN]
           /\ seq' \in [Msgs -> Nat]
           /\ ack' \in [Msgs -> {"none", "processing"} \cup Done]
           /\ silence' \in [Msgs -> {"fresh", "overdue", "seen"}]
           /\ heartbeat' \in {"none", "fresh", "old"}
           /\ reports' \in Seq(SUBSET Msgs)
BY LimitsAssumption DEF ResetStuckProcessingRows, TypeOK, Unclaimed, KeepAges, Terminal, Done

\* A killed container's memory is empty.
LEMMA KillType ==
    ASSUME TypeOK, NEW onExit \in {"none", "wake", "clear"}, KillContainer(onExit)
    PROVE  /\ respawn' \in {"none", "wake", "clear"}
           /\ phase' \in {"dead", "boot", "idle", "claimed", "scripts", "query", "dispatch", "drain"}
           /\ first' \in BOOLEAN
           /\ batch' \subseteq Msgs
           /\ prompts' \in Seq(SUBSET Msgs)
           /\ pushing' \subseteq Msgs
           /\ late' \subseteq Msgs
           /\ nudged' \in BOOLEAN
<1>1. CASE active
  <2>1. ProcessGone
      BY <1>1 DEF KillContainer
  <2>2. first' \in BOOLEAN /\ nudged' \in BOOLEAN
      BY <2>1, Zenon DEF ProcessGone
  <2>3. prompts' \in Seq(SUBSET Msgs)
      BY <2>1 DEF ProcessGone
  <2> QED
      BY <1>1, <2>1, <2>2, <2>3 DEF KillContainer, ProcessGone, TypeOK
<1>2. CASE ~active
    BY <1>2 DEF KillContainer, TypeOK, containerVars
<1> QED
    BY <1>1, <1>2

\* The sequences of prompts the loop builds, and those of undelivered reports.
LEMMA PromptsType ==
    ASSUME NEW S, NEW s \in Seq(S), NEW e \in S
    PROVE  /\ <<e>> \in Seq(S)
           /\ Append(s, e) \in Seq(S)
           /\ s # <<>> => Tail(s) \in Seq(S) /\ Head(s) \in S
BY AppendProperties, HeadTailProperties

LEMMA ReportsType ==
    ASSUME TypeOK
    PROVE  /\ Append(reports, batch) \in Seq(SUBSET Msgs)
           /\ reports # <<>> => Tail(reports) \in Seq(SUBSET Msgs) /\ Head(reports) \subseteq Msgs
<1> DEFINE Reports == SUBSET Msgs
<1>1. reports \in Seq(Reports) /\ batch \in Reports
    BY DEF TypeOK
<1> HIDE DEF Reports
<1>2. /\ Append(reports, batch) \in Seq(Reports)
      /\ reports # <<>> => Tail(reports) \in Seq(Reports) /\ Head(reports) \in Reports
    BY <1>1, PromptsType
<1> QED
    BY <1>2 DEF Reports

LEMMA HostType ==
    ASSUME TypeOK, ReportIsHeld, HostStep
    PROVE  TypeOK'
<1> USE DEF inboundVars, outboundVars, hostVars, containerVars
<1>1. ASSUME NEW m \in Msgs, RouteInbound(m) PROVE TypeOK'
  <2>1. Insert(m, FALSE)
      BY <1>1 DEF RouteInbound
  <2>2. waking' \in BOOLEAN
    <3>1. CASE waking \/ ~active
        BY <1>1, <3>1 DEF RouteInbound, WakeContainer, TypeOK
    <3>2. CASE ~(waking \/ ~active)
        BY <1>1, <3>2 DEF RouteInbound, WakeContainer, TypeOK
    <3> QED
        BY <3>1, <3>2
  <2>3. UNCHANGED <<outboundVars, up, active, respawn, sweep, breached, reported, containerVars,
                   answered, faults>>
      BY <1>1 DEF RouteInbound
  <2>4. /\ status' \in [Msgs -> {"absent", "pending"} \cup Terminal]
        /\ tries' \in [Msgs -> 0..MaxTries]
        /\ deferred' \in [Msgs -> BOOLEAN]
        /\ seq' \in [Msgs -> Nat]
      BY <2>1, InsertType
  <2> QED
      BY <2>2, <2>3, <2>4 DEF TypeOK
<1>2. ASSUME NEW m \in Msgs, RestartWithMessage(m) PROVE TypeOK'
  <2>1. Insert(m, FALSE) /\ KillContainer("wake")
      BY <1>2 DEF RestartWithMessage
  <2> QED
      BY <1>2, <2>1, InsertType, KillType DEF RestartWithMessage, TypeOK
<1>3. ASSUME NEW m \in Msgs, EnterFallback(m) PROVE TypeOK'
  <2>1. Insert(m, FALSE) /\ KillContainer("clear")
      BY <1>3 DEF EnterFallback
  <2>2. reports' \in Seq(SUBSET Msgs)
      BY <1>3, ReportsType DEF EnterFallback, ReportDelivered, TypeOK
  <2>3. sweep' \in {"idle", "waking", "woke", "alive", "gone", "sla", "cleanup", "kill"}
      BY <1>3 DEF EnterFallback, AfterHook, TypeOK
  <2>4. UNCHANGED <<ack, silence, heartbeat, up, active, waking, breached, reported, answered, faults>>
      BY <1>3 DEF EnterFallback
  <2> QED
      BY ZenonT(60), <2>1, <2>2, <2>3, <2>4, InsertType, KillType DEF TypeOK
<1>4. ASSUME NEW m \in Msgs, AbandonProbe(m) PROVE TypeOK'
  <2>1. KillContainer("wake")
      BY <1>4 DEF AbandonProbe
  <2>2. reports' \in Seq(SUBSET Msgs)
      BY <1>4, ReportsType DEF AbandonProbe, ReportDelivered, TypeOK
  <2>3. faults' \in 0..MaxFaults
      BY <1>4, LimitsAssumption DEF AbandonProbe, Fault, TypeOK
  <2> QED
      BY <1>4, <2>1, <2>2, <2>3, KillType DEF AbandonProbe, TypeOK, Terminal
<1>5. ASSUME NEW S \in SUBSET Trigger, GuaranteeBreached(S) PROVE TypeOK'
    BY <1>5, LimitsAssumption DEF GuaranteeBreached, Fault, TypeOK
<1>6. ASSUME NEW m \in Msgs, NEW later \in BOOLEAN, InsertTask(m, later) PROVE TypeOK'
  <2>1. Insert(m, later)
      BY <1>6 DEF InsertTask
  <2> QED
      BY <1>6, <2>1, InsertType DEF InsertTask, TypeOK
<1>7. CASE SpawnDone
    BY <1>7 DEF SpawnDone, TypeOK
<1>8. CASE SpawnFails
  <2>1. waking' \in BOOLEAN
      BY <1>8, Zenon DEF SpawnFails
  <2> QED
      BY <1>8, <2>1, LimitsAssumption DEF SpawnFails, Fault, TypeOK
<1>9. CASE RestartSilently
  <2>1. PICK onExit \in {"none", "wake", "clear"} : KillContainer(onExit)
      BY <1>9 DEF RestartSilently
  <2>2. reports' \in Seq(SUBSET Msgs)
      BY <1>9, ReportsType DEF RestartSilently, ReportDelivered, TypeOK
  <2>3. faults' \in 0..MaxFaults
      BY <1>9, LimitsAssumption DEF RestartSilently, Fault, TypeOK
  <2> QED
      BY <1>9, <2>1, <2>2, <2>3, KillType DEF RestartSilently, TypeOK
<1>10. CASE ContainerClose
    BY <1>10 DEF ContainerClose, KeepAges, Unclaimed, TypeOK
<1>11. CASE HostCrash
  <2>1. up' \in BOOLEAN /\ active' \in BOOLEAN /\ waking' \in BOOLEAN
      BY <1>11, Zenon DEF HostCrash
  <2> QED
      BY <1>11, <2>1, LimitsAssumption DEF HostCrash, Fault, TypeOK
<1>12. CASE HostStart
  <2>1. up' \in BOOLEAN /\ first' \in BOOLEAN /\ nudged' \in BOOLEAN
      BY <1>12, Zenon DEF HostStart, ProcessGone
  <2>2. prompts' \in Seq(SUBSET Msgs)
      BY <1>12 DEF HostStart, ProcessGone
  <2> QED
      BY <1>12, <2>1, <2>2 DEF HostStart, ProcessGone, TypeOK
<1>13. CASE SweepSync
    BY ZenonT(60), <1>13 DEF SweepSync, Synced, Answered, Terminal, TypeOK
<1>14. CASE FailBreached
  <2>1. KillContainer("none")
      BY <1>14 DEF FailBreached
  <2> QED
      BY <1>14, <2>1, KillType DEF FailBreached, AfterHook, TypeOK, Terminal
<1>15. CASE SweepWoke
    BY <1>15 DEF SweepWoke, TypeOK
<1>16. CASE SweepAlive
    BY <1>16 DEF SweepAlive, TypeOK
<1>17. CASE SweepKill
  <2>1. KillContainer("none") /\ ResetStuckProcessingRows
      BY <1>17 DEF SweepKill
  <2> QED
      BY <1>17, <2>1, KillType, ResetType DEF SweepKill, TypeOK
<1>18. CASE SweepGone
  <2>1. ResetStuckProcessingRows
      BY <1>18 DEF SweepGone
  <2> QED
      BY <1>18, <2>1, ResetType DEF SweepGone, TypeOK
<1>19. CASE ReadReport
    BY <1>19, ReportsType DEF ReadReport, TypeOK
<1>20. CASE FailReported
  <2>1. KillContainer("none")
      BY <1>20 DEF FailReported
  <2>2. reports' \in Seq(SUBSET Msgs)
      BY <1>20, ReportsType DEF FailReported, ReportIsHeld
  <2> QED
      BY <1>20, <2>1, <2>2, KillType DEF FailReported, TypeOK, Terminal
<1> QED
    BY <1>1, <1>2, <1>3, <1>4, <1>5, <1>6, <1>7, <1>8, <1>9, <1>10, <1>11, <1>12, <1>13,
       <1>14, <1>15, <1>16, <1>17, <1>18, <1>19, <1>20 DEF HostStep

\* Polling hands out rows; running scripts and acking leave acks.
LEMMA PolledAreRows ==
    ASSUME NEW isFirst PROVE GetPendingMessages(isFirst) \subseteq Msgs
BY DEF GetPendingMessages, Newest

LEMMA AckType ==
    ASSUME TypeOK, NEW S, NEW value \in {"none", "processing"} \cup Done
    PROVE  SetAck(S, value) \in [Msgs -> {"none", "processing"} \cup Done]
BY DEF SetAck, TypeOK

LEMMA AgesType ==
    ASSUME TypeOK, KeepAges
    PROVE  silence' \in [Msgs -> {"fresh", "overdue", "seen"}]
BY DEF KeepAges, TypeOK

LEMMA HeartbeatType ==
    ASSUME TouchHeartbeat
    PROVE  /\ silence' \in [Msgs -> {"fresh", "overdue", "seen"}]
           /\ heartbeat' \in {"none", "fresh", "old"}
BY DEF TouchHeartbeat

LEMMA ScriptsType ==
    ASSUME TypeOK, NEW S, NEW gated, NEW broken, RunScripts(S, gated, broken)
    PROVE  /\ ack' \in [Msgs -> {"none", "processing"} \cup Done]
           /\ silence' \in [Msgs -> {"fresh", "overdue", "seen"}]
           /\ heartbeat' \in {"none", "fresh", "old"}
<1>1. ack' \in [Msgs -> {"none", "processing"} \cup Done]
    BY DEF RunScripts, TypeOK, Done
<1>2. CASE S \cap Scripted = {}
    BY <1>1, <1>2, AgesType DEF RunScripts, TypeOK
<1>3. CASE S \cap Scripted # {}
    BY <1>1, <1>3, HeartbeatType DEF RunScripts
<1> QED
    BY <1>2, <1>3

LEMMA EndQueryType ==
    ASSUME TypeOK, EndQuery
    PROVE  TypeOK'
<1>1. ack' \in [Msgs -> {"none", "processing"} \cup Done]
    BY AckType DEF EndQuery, Done
<1>2. silence' \in [Msgs -> {"fresh", "overdue", "seen"}]
    BY AgesType DEF EndQuery
<1>3. prompts' \in Seq(SUBSET Msgs)
    BY DEF EndQuery
<1> QED
    BY <1>1, <1>2, <1>3 DEF EndQuery, TypeOK, inboundVars, hostVars

LEMMA ContainerType ==
    ASSUME TypeOK, DispatchHasPrompt, ContainerStep
    PROVE  TypeOK'
<1> USE DEF inboundVars, outboundVars, hostVars, containerVars
<1>1. CASE Boot
  <2>1. silence' \in [Msgs -> {"fresh", "overdue", "seen"}]
      BY <1>1, AgesType DEF Boot
  <2> QED
      BY <1>1, <2>1 DEF Boot, Unclaimed, TypeOK
<1>2. CASE Poll
  <2>1. silence' \in [Msgs -> {"fresh", "overdue", "seen"}]
      BY <1>2, AgesType DEF Poll
  <2>2. /\ batch' \subseteq Msgs
        /\ ack' \in [Msgs -> {"none", "processing"} \cup Done]
        /\ phase' \in {"idle", "claimed"}
    <3>1. CASE GetPendingMessages(first) \cap Trigger # {}
        BY <1>2, <3>1, PolledAreRows, AckType DEF Poll
    <3>2. CASE GetPendingMessages(first) \cap Trigger = {}
        BY <1>2, <3>2 DEF Poll, TypeOK
    <3> QED
        BY <3>1, <3>2
  <2>3. first' \in BOOLEAN
      BY <1>2, Zenon DEF Poll
  <2>4. UNCHANGED <<inboundVars, heartbeat, reports, hostVars, answered, prompts, pushing, late, nudged, faults>>
      BY <1>2 DEF Poll
  <2> QED
      BY <2>1, <2>2, <2>3, <2>4 DEF TypeOK
<1>3. CASE HandleCommands
  <2>1. /\ ack' \in [Msgs -> {"none", "processing"} \cup Done]
        /\ silence' \in [Msgs -> {"fresh", "overdue", "seen"}]
      BY <1>3, AckType, AgesType DEF HandleCommands, Done
  <2> QED
      BY ZenonT(60), <1>3, <2>1 DEF HandleCommands, TypeOK
<1>4. CASE StartQuery
  <2>1. PICK o \in Outcomes(batch) :
            /\ RunScripts(batch, o[1], o[2])
            /\ batch' = batch \ (o[1] \cup o[2])
            /\ prompts' = IF batch \ (o[1] \cup o[2]) = {} THEN <<>> ELSE <<batch \ (o[1] \cup o[2])>>
            /\ phase' \in {"idle", "query"}
      BY <1>4 DEF StartQuery
  <2>2. batch' \subseteq Msgs /\ prompts' \in Seq(SUBSET Msgs)
    <3> DEFINE keep == batch \ (o[1] \cup o[2])
               Prompts == SUBSET Msgs
    <3>1. keep \in Prompts /\ prompts \in Seq(Prompts)
        BY DEF TypeOK
    <3>2. batch' = keep /\ prompts' = IF keep = {} THEN <<>> ELSE <<keep>>
        BY <2>1
    <3> HIDE DEF keep, Prompts
    <3>3. prompts' \in Seq(Prompts)
        BY <3>1, <3>2, PromptsType
    <3> QED
        BY <3>1, <3>2, <3>3 DEF Prompts
  <2>3. nudged' \in BOOLEAN
      BY <1>4, Zenon DEF StartQuery
  <2>4. UNCHANGED <<inboundVars, reports, hostVars, answered, first, pushing, late, faults>>
      BY <1>4 DEF StartQuery
  <2> QED
      BY <2>1, <2>2, <2>3, <2>4, ScriptsType DEF TypeOK
<1>5. CASE QueryEvent
    BY <1>5, HeartbeatType DEF QueryEvent, TypeOK
<1>6. CASE Result
  <2>1. ack' \in [Msgs -> {"none", "processing"} \cup Done]
      BY <1>6, AckType DEF Result, Done
  <2> QED
      BY <1>6, <2>1, HeartbeatType DEF Result, TypeOK
<1>7. CASE DispatchResultText
  <2>1. prompts' \in Seq(SUBSET Msgs)
    <3> DEFINE Prompts == SUBSET Msgs
    <3>1. prompts \in Seq(Prompts) /\ {} \in Prompts
        BY DEF TypeOK
    <3>2. prompts # <<>> /\ (prompts' = Tail(prompts) \/ prompts' = prompts)
        BY <1>7 DEF DispatchResultText, DispatchHasPrompt
    <3> HIDE DEF Prompts
    <3>3. prompts' \in Seq(Prompts)
        BY <3>1, <3>2, PromptsType
    <3> QED
        BY <3>3 DEF Prompts
  <2>2. nudged' \in BOOLEAN
      BY <1>7, Zenon DEF DispatchResultText, TypeOK
  <2> QED
      BY <1>7, <2>1, <2>2 DEF DispatchResultText, TypeOK
<1>8. CASE QueryEnds
    BY <1>8, EndQueryType DEF QueryEnds
<1>9. CASE LimitHit \/ ProviderHangs
  <2>1. reports' \in Seq(SUBSET Msgs)
      BY <1>9, ReportsType DEF LimitHit, ProviderHangs, TypeOK
  <2>2. FallSilent
      BY <1>9 DEF LimitHit, ProviderHangs
  <2> QED
      BY <2>1, <2>2, HeartbeatType, LimitsAssumption DEF FallSilent, Fault, TypeOK
<1>10. CASE FollowUpAbort
    BY <1>10, EndQueryType DEF FollowUpAbort
<1>11. CASE FollowUpClaim
  <2>1. /\ ack' \in [Msgs -> {"none", "processing"} \cup Done]
        /\ silence' \in [Msgs -> {"fresh", "overdue", "seen"}]
        /\ pushing' \subseteq Msgs
      BY <1>11, AckType, AgesType, PolledAreRows DEF FollowUpClaim
  <2>2. UNCHANGED <<inboundVars, heartbeat, reports, hostVars, answered, phase, first, batch, prompts, late,
                    nudged, faults>>
      BY <1>11 DEF FollowUpClaim
  <2> QED
      BY <2>1, <2>2 DEF TypeOK
<1>12. CASE FollowUpPush
  <2>1. PICK o \in Outcomes(pushing) :
            LET keep == pushing \ (o[1] \cup o[2])
            IN  /\ RunScripts(pushing, o[1] \cup keep, o[2])
                /\ IF keep = {}
                   THEN UNCHANGED <<prompts, nudged>>
                   ELSE prompts' = Append(prompts, keep) /\ nudged' = FALSE
      BY <1>12 DEF FollowUpPush
  <2>2. /\ ack' \in [Msgs -> {"none", "processing"} \cup Done]
        /\ silence' \in [Msgs -> {"fresh", "overdue", "seen"}]
        /\ heartbeat' \in {"none", "fresh", "old"}
      BY <2>1, ScriptsType
  <2>3. prompts' \in Seq(SUBSET Msgs)
    <3> DEFINE keep == pushing \ (o[1] \cup o[2])
               Prompts == SUBSET Msgs
    <3>1. keep \in Prompts /\ prompts \in Seq(Prompts)
        BY DEF TypeOK
    <3>2. prompts' = prompts \/ prompts' = Append(prompts, keep)
        BY <2>1
    <3> HIDE DEF keep, Prompts
    <3>3. prompts' \in Seq(Prompts)
        BY <3>1, <3>2, PromptsType
    <3> QED
        BY <3>3 DEF Prompts
  <2>4. nudged' \in BOOLEAN
      BY <2>1, Zenon DEF TypeOK
  <2>5. pushing' = {} /\ UNCHANGED <<inboundVars, reports, hostVars, answered, phase, first, batch, late, faults>>
      BY <1>12 DEF FollowUpPush
  <2> QED
      BY <2>2, <2>3, <2>4, <2>5 DEF TypeOK
<1>13. CASE FollowUpTooLate
  <2>1. PICK o \in Outcomes(late) : RunScripts(late, o[1], o[2])
      BY <1>13 DEF FollowUpTooLate
  <2> QED
      BY <1>13, <2>1, ScriptsType DEF FollowUpTooLate, TypeOK
<1>14. CASE ContainerDies
  <2>1. first' \in BOOLEAN /\ nudged' \in BOOLEAN
      BY <1>14, Zenon DEF ContainerDies, ProcessGone
  <2>2. prompts' \in Seq(SUBSET Msgs)
      BY <1>14 DEF ContainerDies, ProcessGone
  <2> QED
      BY <1>14, <2>1, <2>2, LimitsAssumption DEF ContainerDies, ProcessGone, Fault, TypeOK
<1> QED
    BY <1>1, <1>2, <1>3, <1>4, <1>5, <1>6, <1>7, <1>8, <1>9, <1>10, <1>11, <1>12, <1>13, <1>14
    DEF ContainerStep

LEMMA TimeType ==
    ASSUME TypeOK, TimeStep
    PROVE  TypeOK'
<1> USE DEF inboundVars, outboundVars, hostVars, containerVars
<1>1. ASSUME NEW m \in Msgs, ProcessAfterElapses(m) PROVE TypeOK'
    BY <1>1 DEF ProcessAfterElapses, TypeOK
<1>2. ASSUME NEW m \in Msgs, ClaimAges(m) PROVE TypeOK'
    BY <1>2 DEF ClaimAges, TypeOK
<1>3. CASE HeartbeatAges
    BY <1>3 DEF HeartbeatAges, TypeOK
<1> QED
    BY <1>1, <1>2, <1>3 DEF TimeStep

-----------------------------------------------------------------------------
(* One container, and what the sweep sees of it                            *)

\* Only a running container takes a step of the loop, and it writes neither
\* inbound.db nor the host's memory.
LEMMA ContainerRuns ==
    ASSUME ContainerStep
    PROVE  phase # "dead" /\ UNCHANGED inboundVars /\ UNCHANGED hostVars /\ UNCHANGED answered
BY DEF ContainerStep, Boot, Poll, HandleCommands, StartQuery, QueryEvent, Result,
       DispatchResultText, QueryEnds, EndQuery, LimitHit, ProviderHangs, FallSilent, FollowUpAbort, FollowUpClaim,
       FollowUpPush, FollowUpTooLate, ContainerDies, inboundVars, hostVars

LEMMA TimePasses ==
    ASSUME TimeStep
    PROVE  UNCHANGED <<status, tries, ack, reports, hostVars, containerVars, answered, faults>>
BY DEF TimeStep, ProcessAfterElapses, ClaimAges, HeartbeatAges, outboundVars, inboundVars

\* After killContainer nothing runs.
LEMMA KilledIsDead ==
    ASSUME up, SingleContainer, NEW onExit, KillContainer(onExit)
    PROVE  phase' = "dead"
BY DEF KillContainer, ProcessGone, SingleContainer, containerVars

LEMMA SingleContainerHost ==
    ASSUME TypeOK, SingleContainer, SweepSeesDead, HostStep
    PROVE  SingleContainer'
<1> USE DEF SingleContainer, inboundVars, outboundVars, hostVars, containerVars, HostFree
<1>1. ASSUME NEW m \in Msgs, RouteInbound(m) PROVE SingleContainer'
    BY <1>1 DEF RouteInbound, WakeContainer
<1>2. ASSUME NEW m \in Msgs, RestartWithMessage(m) PROVE SingleContainer'
    BY <1>2 DEF RestartWithMessage, KillContainer, ProcessGone
<1>3. ASSUME NEW m \in Msgs, EnterFallback(m) PROVE SingleContainer'
    BY <1>3 DEF EnterFallback, KillContainer, ProcessGone, AtHook
<1>4. ASSUME NEW m \in Msgs, AbandonProbe(m) PROVE SingleContainer'
    BY <1>4 DEF AbandonProbe, KillContainer, ProcessGone
<1>5. ASSUME NEW S \in SUBSET Trigger, GuaranteeBreached(S) PROVE SingleContainer'
    BY <1>5 DEF GuaranteeBreached
<1>6. ASSUME NEW m \in Msgs, NEW later \in BOOLEAN, InsertTask(m, later) PROVE SingleContainer'
    BY <1>6 DEF InsertTask
<1>7. CASE SpawnDone
    BY <1>7 DEF SpawnDone
<1>8. CASE SpawnFails
    BY <1>8 DEF SpawnFails
<1>9. CASE RestartSilently
    BY <1>9 DEF RestartSilently, KillContainer, ProcessGone
<1>10. CASE ContainerClose
    BY <1>10 DEF ContainerClose
<1>11. CASE HostCrash
    BY <1>11 DEF HostCrash
<1>12. CASE HostStart
    BY <1>12 DEF HostStart, ProcessGone
<1>13. CASE SweepSync
    BY <1>13 DEF SweepSync
<1>14. CASE FailBreached
    BY <1>14 DEF FailBreached, KillContainer, ProcessGone, SweepSeesDead
<1>15. CASE SweepWoke \/ SweepAlive \/ SweepGone
    BY <1>15 DEF SweepWoke, SweepAlive, SweepGone
<1>16. CASE SweepKill
    BY <1>16 DEF SweepKill, KillContainer, ProcessGone
<1>17. CASE ReadReport
    BY <1>17 DEF ReadReport
<1>18. CASE FailReported
    BY <1>18 DEF FailReported, KillContainer, ProcessGone
<1> QED
    BY <1>1, <1>2, <1>3, <1>4, <1>5, <1>6, <1>7, <1>8, <1>9, <1>10, <1>11, <1>12, <1>13,
       <1>14, <1>15, <1>16, <1>17, <1>18 DEF HostStep

LEMMA SingleContainerStep ==
    ASSUME TypeOK, SingleContainer, SweepSeesDead, Next
    PROVE  SingleContainer'
<1>1. CASE HostStep
    BY <1>1, SingleContainerHost
<1>2. CASE ContainerStep
    BY <1>2, ContainerRuns DEF SingleContainer, hostVars
<1>3. CASE TimeStep
    BY <1>3, TimePasses DEF SingleContainer, hostVars, containerVars
<1> QED
    BY <1>1, <1>2, <1>3 DEF Next

LEMMA SweepSeesDeadStep ==
    ASSUME TypeOK, SingleContainer, SweepSeesDead, Next
    PROVE  SweepSeesDead'
<1> USE DEF SweepSeesDead, inboundVars, outboundVars, hostVars, containerVars, HostFree
<1>1. ASSUME NEW m \in Msgs, RouteInbound(m) PROVE SweepSeesDead'
    BY <1>1 DEF RouteInbound
<1>2. ASSUME NEW m \in Msgs, RestartWithMessage(m) PROVE SweepSeesDead'
    BY <1>2, KilledIsDead DEF RestartWithMessage
<1>3. ASSUME NEW m \in Msgs, EnterFallback(m) PROVE SweepSeesDead'
    BY <1>3, KilledIsDead DEF EnterFallback, AtHook, AfterHook
<1>4. ASSUME NEW m \in Msgs, AbandonProbe(m) PROVE SweepSeesDead'
    BY <1>4, KilledIsDead DEF AbandonProbe
<1>5. ASSUME NEW S \in SUBSET Trigger, GuaranteeBreached(S) PROVE SweepSeesDead'
    BY <1>5 DEF GuaranteeBreached, AtHook
<1>6. ASSUME NEW m \in Msgs, NEW later \in BOOLEAN, InsertTask(m, later) PROVE SweepSeesDead'
    BY <1>6 DEF InsertTask
<1>7. CASE SpawnDone
    BY <1>7 DEF SpawnDone
<1>8. CASE SpawnFails
    BY <1>8 DEF SpawnFails, SingleContainer
<1>9. CASE RestartSilently
    BY <1>9, KilledIsDead DEF RestartSilently
<1>10. CASE ContainerClose
    BY <1>10 DEF ContainerClose
<1>11. CASE HostCrash
    BY <1>11 DEF HostCrash
<1>12. CASE HostStart
    BY <1>12 DEF HostStart, ProcessGone
<1>13. CASE SweepSync
    BY <1>13 DEF SweepSync, SingleContainer
<1>14. CASE FailBreached
    BY <1>14, KilledIsDead DEF FailBreached, AfterHook
<1>15. CASE SweepWoke \/ SweepAlive \/ SweepGone \/ SweepKill
    BY <1>15 DEF SweepWoke, SweepAlive, SweepGone, SweepKill
<1>16. CASE ContainerStep
    BY <1>16, ContainerRuns
<1>17. CASE TimeStep
    BY <1>17, TimePasses
<1>18. CASE ReadReport
    BY <1>18 DEF ReadReport
<1>19. CASE FailReported
    BY <1>19, KilledIsDead DEF FailReported
<1> QED
    BY <1>1, <1>2, <1>3, <1>4, <1>5, <1>6, <1>7, <1>8, <1>9, <1>10, <1>11, <1>12, <1>13,
       <1>14, <1>15, <1>16, <1>17, <1>18, <1>19 DEF Next, HostStep

-----------------------------------------------------------------------------
(* What the container has in memory                                        *)

\* The host starts a container, ends it, or leaves it alone.
LEMMA HostMemory ==
    ASSUME SingleContainer, HostStep
    PROVE  \/ UNCHANGED containerVars
           \/ ProcessGone
           \/ /\ phase = "dead" /\ phase' = "boot"
              /\ UNCHANGED <<first, batch, prompts, pushing, late, nudged>>
<1> USE DEF KillContainer, containerVars
<1>1. ASSUME NEW m \in Msgs,
             RouteInbound(m) \/ RestartWithMessage(m) \/ EnterFallback(m) \/ AbandonProbe(m)
      PROVE  UNCHANGED containerVars \/ ProcessGone
    BY <1>1 DEF RouteInbound, RestartWithMessage, EnterFallback, AbandonProbe
<1>2. ASSUME NEW S \in SUBSET Trigger, GuaranteeBreached(S) PROVE UNCHANGED containerVars
    BY <1>2 DEF GuaranteeBreached
<1>3. ASSUME NEW m \in Msgs, NEW later \in BOOLEAN, InsertTask(m, later)
      PROVE  UNCHANGED containerVars
    BY <1>3 DEF InsertTask
<1>4. CASE SpawnDone
    BY <1>4 DEF SpawnDone, SingleContainer
<1>5. CASE SpawnFails \/ RestartSilently \/ ContainerClose \/ HostCrash \/ HostStart
    BY <1>5 DEF SpawnFails, RestartSilently, ContainerClose, HostCrash, HostStart
<1>6. CASE SweepSync \/ FailBreached \/ SweepWoke \/ SweepAlive \/ SweepKill \/ SweepGone
    BY <1>6 DEF SweepSync, FailBreached, SweepWoke, SweepAlive, SweepKill, SweepGone
<1>7. CASE ReadReport \/ FailReported
    BY <1>7 DEF ReadReport, FailReported
<1> QED
    BY <1>1, <1>2, <1>3, <1>4, <1>5, <1>6, <1>7 DEF HostStep

LEMMA MemoryStep ==
    ASSUME SingleContainer, MemoryFitsPhase, DispatchHasPrompt, Next
    PROVE  MemoryFitsPhase' /\ DispatchHasPrompt'
<1> USE DEF MemoryFitsPhase, DispatchHasPrompt
<1>1. CASE HostStep
    BY <1>1, HostMemory DEF ProcessGone, containerVars
<1>2. CASE TimeStep
    BY <1>2, TimePasses DEF containerVars
<1>3. CASE Boot \/ Poll
    BY <1>3 DEF Boot, Poll
<1>4. CASE HandleCommands
    BY <1>4 DEF HandleCommands
<1>5. CASE StartQuery
    BY <1>5 DEF StartQuery
<1>6. CASE QueryEvent \/ Result \/ DispatchResultText
    BY <1>6 DEF QueryEvent, Result, DispatchResultText, containerVars
<1>7. CASE QueryEnds \/ FollowUpAbort
    BY <1>7 DEF QueryEnds, FollowUpAbort, EndQuery
<1>8. CASE LimitHit \/ ProviderHangs
    BY <1>8 DEF LimitHit, ProviderHangs, FallSilent
<1>9. CASE FollowUpClaim \/ FollowUpPush
    BY <1>9 DEF FollowUpClaim, FollowUpPush
<1>10. CASE FollowUpTooLate
    BY <1>10 DEF FollowUpTooLate
<1>11. CASE ContainerDies
    BY <1>11 DEF ContainerDies, ProcessGone
<1> QED
    BY <1>1, <1>2, <1>3, <1>4, <1>5, <1>6, <1>7, <1>8, <1>9, <1>10, <1>11 DEF Next, ContainerStep

\* Without a container, or before its first poll, nothing is in memory.
LEMMA EmptyMemory ==
    ASSUME MemoryFitsPhase', phase' \in {"dead", "boot"}
    PROVE  HeldIsClaimed' /\ NoDoubleWork'
BY DEF MemoryFitsPhase, HeldIsClaimed, NoDoubleWork, InFlight

\* While the container runs the host takes no claim away and settles only
\* what was acked.
LEMMA HostLeavesHeld ==
    ASSUME TypeOK, SingleContainer, SweepSeesDead, HostStep
    PROVE  \/ phase' \in {"dead", "boot"}
           \/ /\ UNCHANGED <<containerVars, ack>>
              /\ \A m \in Msgs : status[m] = "pending" /\ ack[m] = "processing" =>
                                   status'[m] = "pending"
<1> USE DEF inboundVars, outboundVars, hostVars, containerVars, HostFree
<1>1. ASSUME NEW m \in Msgs, NEW later \in BOOLEAN, Insert(m, later)
      PROVE  \A x \in Msgs : status[x] = "pending" => status'[x] = "pending"
    BY <1>1 DEF Insert, TypeOK
<1>2. ASSUME NEW m \in Msgs,
             RestartWithMessage(m) \/ EnterFallback(m) \/ AbandonProbe(m)
      PROVE  phase' = "dead"
    BY <1>2, KilledIsDead DEF RestartWithMessage, EnterFallback, AbandonProbe, AtHook
<1>3. ASSUME NEW m \in Msgs, RouteInbound(m)
      PROVE  /\ UNCHANGED <<containerVars, ack>>
             /\ \A x \in Msgs : status[x] = "pending" => status'[x] = "pending"
    BY <1>1, <1>3 DEF RouteInbound
<1>4. ASSUME NEW m \in Msgs, NEW later \in BOOLEAN, InsertTask(m, later)
      PROVE  /\ UNCHANGED <<containerVars, ack>>
             /\ \A x \in Msgs : status[x] = "pending" => status'[x] = "pending"
    BY <1>1, <1>4 DEF InsertTask
<1>5. ASSUME NEW S \in SUBSET Trigger, GuaranteeBreached(S)
      PROVE  UNCHANGED <<status, containerVars, ack>>
    BY <1>5 DEF GuaranteeBreached
<1>6. CASE SpawnDone \/ ContainerClose \/ HostStart
    BY <1>6 DEF SpawnDone, ContainerClose, HostStart, ProcessGone
<1>7. CASE SpawnFails \/ HostCrash \/ SweepWoke \/ SweepAlive
    BY <1>7 DEF SpawnFails, HostCrash, SweepWoke, SweepAlive
<1>8. CASE RestartSilently \/ SweepKill
    BY <1>8, KilledIsDead DEF RestartSilently, SweepKill
<1>9. CASE SweepGone
    BY <1>9 DEF SweepGone, SweepSeesDead
<1>10. CASE FailBreached
    BY <1>10, KilledIsDead DEF FailBreached, SweepSeesDead
<1>11. CASE SweepSync
    BY <1>11 DEF SweepSync, Synced, Terminal, TypeOK
<1>12. CASE ReadReport
    BY <1>12 DEF ReadReport
<1>13. CASE FailReported
    BY <1>13, KilledIsDead DEF FailReported
<1> QED
    BY <1>2, <1>3, <1>4, <1>5, <1>6, <1>7, <1>8, <1>9, <1>10, <1>11, <1>12, <1>13 DEF HostStep

\* A poll hands out only rows that nobody holds and nobody has settled.
LEMMA PolledAreFree ==
    ASSUME NEW isFirst, NEW m \in GetPendingMessages(isFirst)
    PROVE  m \in Msgs /\ ack[m] = "none" /\ status[m] = "pending"
BY DEF GetPendingMessages, Newest, Due

\* Unfolded: prompts by prompts, and every set of rows on its own.
Held ==
    /\ \A i \in 1..Len(prompts) : \A m \in prompts[i] :
          ack[m] \in {"processing", "completed"} /\ (ack[m] = "processing" => status[m] = "pending")
    /\ \A m \in batch :
          ack[m] \in {"processing", "completed"} /\ (ack[m] = "processing" => status[m] = "pending")
    /\ \A m \in pushing \cup late : ack[m] = "processing" /\ status[m] = "pending"
    /\ phase \in {"claimed", "scripts"} => \A m \in batch : ack[m] = "processing"
    /\ \A i, j \in 1..Len(prompts) : i # j => prompts[i] \cap prompts[j] = {}
    /\ \A i \in 1..Len(prompts) : prompts[i] \cap (pushing \cup late) = {}
    /\ pushing \cap late = {}
    /\ batch \cap (pushing \cup late) = {}

LEMMA HeldUnfolds ==
    ASSUME TypeOK
    PROVE  Held <=> HeldIsClaimed /\ NoDoubleWork
<1>1. DOMAIN prompts = 1..Len(prompts)
    BY DEF TypeOK
<1> QED
    BY <1>1 DEF Held, HeldIsClaimed, NoDoubleWork, InFlight

LEMMA HeldUnfoldsNext ==
    ASSUME TypeOK'
    PROVE  Held' <=> HeldIsClaimed' /\ NoDoubleWork'
<1>1. DOMAIN prompts' = 1..Len(prompts')
    BY DEF TypeOK
<1> QED
    BY <1>1 DEF Held, HeldIsClaimed, NoDoubleWork, InFlight

LEMMA EndQueryHeld ==
    ASSUME TypeOK, Held, EndQuery, phase = "query"
    PROVE  Held'
BY DEF EndQuery, Held, TypeOK, SetAck, inboundVars

LEMMA ContainerHeld ==
    ASSUME TypeOK, MemoryFitsPhase, DispatchHasPrompt, Held, ContainerStep
    PROVE  Held'
<1> USE DEF inboundVars, outboundVars, hostVars, containerVars
<1>1. CASE Boot
    BY <1>1 DEF Boot, Held, MemoryFitsPhase
<1>2. CASE Poll
    BY <1>2, PolledAreFree DEF Poll, Held, MemoryFitsPhase, SetAck, TypeOK
<1>3. CASE HandleCommands
    BY <1>3 DEF HandleCommands, Held, MemoryFitsPhase, SetAck, TypeOK
<1>4. CASE StartQuery
    BY <1>4 DEF StartQuery, Outcomes, RunScripts, Held, MemoryFitsPhase, TypeOK
<1>5. CASE QueryEvent
    BY <1>5 DEF QueryEvent, Held
<1>6. CASE Result
    BY <1>6 DEF Result, SetAck, Held, TypeOK
<1>7. CASE DispatchResultText
  <2>1. CASE prompts' = Tail(prompts)
    <3>1. /\ Len(prompts') = Len(prompts) - 1
          /\ \A i \in 1..Len(prompts') : prompts'[i] = prompts[i + 1]
      <4> DEFINE Prompts == SUBSET Msgs
      <4>1. prompts \in Seq(Prompts) /\ prompts # <<>>
          BY <1>7 DEF DispatchResultText, DispatchHasPrompt, TypeOK
      <4> HIDE DEF Prompts
      <4> QED
          BY <2>1, <4>1, HeadTailProperties
    <3>2. \A i \in 1..Len(prompts') : i + 1 \in 1..Len(prompts)
      <4>1. Len(prompts) \in Nat
          BY LenProperties DEF TypeOK
      <4> QED
          BY <3>1, <4>1
    <3>3. ASSUME NEW i \in 1..Len(prompts'), NEW j \in 1..Len(prompts'), i # j
          PROVE  prompts'[i] \cap prompts'[j] = {}
      <4>1. i + 1 \in 1..Len(prompts) /\ j + 1 \in 1..Len(prompts)
          BY <3>2
      <4>2. i + 1 # j + 1
          BY <3>3
      <4>3. prompts[i + 1] \cap prompts[j + 1] = {}
          BY <4>1, <4>2 DEF Held
      <4> QED
          BY <3>1, <4>3
    <3>4. \A i \in 1..Len(prompts') :
              /\ prompts'[i] \cap (pushing \cup late) = {}
              /\ \A m \in prompts'[i] :
                    ack[m] \in {"processing", "completed"} /\ (ack[m] = "processing" => status[m] = "pending")
        BY <3>1, <3>2 DEF Held
    <3> QED
        BY <1>7, <3>3, <3>4 DEF DispatchResultText, Held
  <2>2. CASE UNCHANGED prompts
      BY <1>7, <2>2 DEF DispatchResultText, Held
  <2> QED
      BY <1>7, <2>1, <2>2 DEF DispatchResultText
<1>8. CASE QueryEnds
    BY <1>8, EndQueryHeld DEF QueryEnds
<1>9. CASE LimitHit \/ ProviderHangs
    BY <1>9 DEF LimitHit, ProviderHangs, FallSilent, Held
<1>10. CASE FollowUpAbort
    BY <1>10, EndQueryHeld DEF FollowUpAbort
<1>11. CASE FollowUpClaim
  <2>1. /\ phase = "query" /\ pushing = {}
        /\ pushing' = GetPendingMessages(FALSE)
        /\ ack' = SetAck(pushing', "processing")
        /\ UNCHANGED <<status, phase, batch, prompts, late>>
      BY <1>11 DEF FollowUpClaim
  <2>2. \A m \in pushing' : m \in Msgs /\ ack[m] = "none" /\ status[m] = "pending"
      BY <2>1, PolledAreFree
  <2>3. \A m \in Msgs : ack'[m] = IF m \in pushing' THEN "processing" ELSE ack[m]
      BY <2>1 DEF SetAck
  <2>4. /\ batch \subseteq Msgs /\ late \subseteq Msgs
        /\ \A i \in 1..Len(prompts) : prompts[i] \subseteq Msgs
      BY DEF TypeOK
  <2> QED
      BY ZenonT(60), <2>1, <2>2, <2>3, <2>4 DEF Held
<1>12. CASE FollowUpPush
  <2>1. PICK o \in Outcomes(pushing) :
            LET keep == pushing \ (o[1] \cup o[2])
            IN  /\ RunScripts(pushing, o[1] \cup keep, o[2])
                /\ IF keep = {}
                   THEN UNCHANGED <<prompts, nudged>>
                   ELSE prompts' = Append(prompts, keep) /\ nudged' = FALSE
      BY <1>12 DEF FollowUpPush
  <2> DEFINE keep == pushing \ (o[1] \cup o[2])
             Prompts == SUBSET Msgs
  <2>2. /\ o[1] \subseteq pushing /\ o[2] \subseteq pushing
        /\ keep \subseteq pushing
        /\ keep \in Prompts /\ prompts \in Seq(Prompts)
      BY <2>1 DEF Outcomes, TypeOK
  <2>3. \A m \in Msgs : ack'[m] = IF m \in o[1] \cup keep THEN "completed"
                                  ELSE IF m \in o[2] THEN "script-skip:error" ELSE ack[m]
      BY <2>1 DEF RunScripts
  <2>4. prompts' = prompts \/ prompts' = Append(prompts, keep)
      BY <2>1
  <2>5. /\ phase' = "query" /\ pushing' = {}
        /\ UNCHANGED <<status, batch, late>>
      BY <1>12 DEF FollowUpPush
  <2>6. /\ batch \subseteq Msgs /\ late \subseteq Msgs /\ pushing \subseteq Msgs
        /\ \A i \in 1..Len(prompts) : prompts[i] \subseteq Msgs
      BY DEF TypeOK
  <2> HIDE DEF keep, Prompts
  <2>7. /\ Len(prompts) \in Nat
        /\ Len(prompts') \in {Len(prompts), Len(prompts) + 1}
        /\ \A i \in 1..Len(prompts) : prompts'[i] = prompts[i]
        /\ Len(prompts') = Len(prompts) + 1 => prompts'[Len(prompts) + 1] = keep
      BY <2>2, <2>4, AppendProperties
  <2>8. \A i \in 1..Len(prompts') :
            (i \in 1..Len(prompts) /\ prompts'[i] = prompts[i]) \/
            (i = Len(prompts) + 1 /\ prompts'[i] = keep)
      BY <2>7
  <2>9. \A m \in keep : ack'[m] = "completed"
      BY <2>2, <2>3, <2>6
  <2>10. \A i \in 1..Len(prompts) : \A m \in prompts[i] : ack'[m] = ack[m]
      BY <2>2, <2>3, <2>6 DEF Held
  <2>11. \A m \in batch \cup late : ack'[m] = ack[m]
      BY <2>2, <2>3, <2>6 DEF Held
  <2>12. \A i \in 1..Len(prompts) : prompts[i] \cap keep = {}
      BY <2>2 DEF Held
  <2>13. \A i, j \in 1..Len(prompts') : i # j => prompts'[i] \cap prompts'[j] = {}
      BY <2>7, <2>8, <2>12 DEF Held
  <2>14. \A i \in 1..Len(prompts') :
            /\ prompts'[i] \cap late = {}
            /\ \A m \in prompts'[i] :
                  ack'[m] \in {"processing", "completed"} /\ (ack'[m] = "processing" => status[m] = "pending")
      BY <2>2, <2>8, <2>9, <2>10 DEF Held
  <2> QED
      BY <2>5, <2>11, <2>13, <2>14 DEF Held
<1>13. CASE FollowUpTooLate
    BY <1>13 DEF FollowUpTooLate, Outcomes, RunScripts, Held, TypeOK
<1>14. CASE ContainerDies
    BY <1>14 DEF ContainerDies, ProcessGone, Held
<1> QED
    BY <1>1, <1>2, <1>3, <1>4, <1>5, <1>6, <1>7, <1>8, <1>9, <1>10, <1>11, <1>12, <1>13, <1>14
    DEF ContainerStep

LEMMA HeldStep ==
    ASSUME IInv, TypeOK', MemoryFitsPhase', Next
    PROVE  HeldIsClaimed' /\ NoDoubleWork'
<1>1. Held
    BY HeldUnfolds DEF IInv
<1>2. CASE HostStep
  <2>1. CASE phase' \in {"dead", "boot"}
      BY <2>1, EmptyMemory
  <2>2. CASE /\ UNCHANGED <<containerVars, ack>>
             /\ \A m \in Msgs : status[m] = "pending" /\ ack[m] = "processing" =>
                                  status'[m] = "pending"
    <3>1. /\ batch \cup pushing \cup late \subseteq Msgs
          /\ \A i \in 1..Len(prompts) : prompts[i] \subseteq Msgs
        BY DEF IInv, TypeOK
    <3>2. Held'
        BY <1>1, <2>2, <3>1 DEF Held, containerVars
    <3> QED
        BY <3>2, HeldUnfoldsNext
  <2> QED
      BY <1>2, <2>1, <2>2, HostLeavesHeld DEF IInv
<1>3. CASE ContainerStep
    BY <1>1, <1>3, ContainerHeld, HeldUnfoldsNext DEF IInv
<1>4. CASE TimeStep
  <2>1. Held'
      BY <1>1, <1>4, TimePasses DEF Held, containerVars
  <2> QED
      BY <2>1, HeldUnfoldsNext
<1> QED
    BY <1>2, <1>3, <1>4 DEF Next

-----------------------------------------------------------------------------
(* What a step may do to a row, as seen from the two databases             *)

\* The host writes a row.
Written(m) == status[m] = "absent" /\ status'[m] = "pending" /\ ack'[m] = ack[m]

\* syncProcessingAcks mirrors an ack.
Mirrored(m) ==
    /\ status[m] # "absent" /\ ack'[m] = ack[m]
    /\ \/ ack[m] = "completed" /\ status'[m] = "completed"
       \/ ack[m] = "script-skip:error" /\ status[m] = "pending" /\ status'[m] = "failed"

\* Nobody works on the row any more: its claim may be taken away, and a due
\* row is retried or, its tries used up, failed.
LetGo(m) ==
    /\ phase' = "dead"
    /\ ack'[m] = IF ack[m] = "processing" THEN "none" ELSE ack[m]
    /\ \/ status'[m] = status[m]
       \/ ack[m] = "processing" /\ tries[m] = MaxTries /\ status[m] = "pending" /\ status'[m] = "failed"

\* The response guarantee, a report, or a failed probe, gives the row up.
GivenUp(m) ==
    /\ status[m] # "absent" /\ ack'[m] = ack[m]
    /\ \/ m \in breached \ answered /\ phase' = "dead" /\ status'[m] = "failed"
       \/ m \in reported /\ phase' = "dead" /\ status'[m] = "failed"
       \/ status'[m] = "completed"

SameRow(m) == status'[m] = status[m] /\ ack'[m] = ack[m]

HostRows ==
    \/ \A m \in Msgs : SameRow(m) \/ Written(m)
    \/ \A m \in Msgs : SameRow(m) \/ Mirrored(m)
    \/ \A m \in Msgs : LetGo(m)
    \/ \A m \in Msgs : SameRow(m) \/ GivenUp(m)

\* A report that is being handled names rows that were written.
LEMMA HeldReportIsWritten ==
    ASSUME TypeOK, ReportIsHeld, OnlyWrittenRows, reported # {}
    PROVE  \A m \in reported : status[m] # "absent"
<1>1. 1 \in DOMAIN reports /\ reported = reports[1]
    BY HeadTailProperties, LenProperties DEF TypeOK, ReportIsHeld
<1> QED
    BY <1>1 DEF OnlyWrittenRows

LEMMA HostEffect ==
    ASSUME IInv, HostStep
    PROVE  /\ HostRows
           /\ tries' = tries \/ phase' = "dead"
<1> USE DEF inboundVars, outboundVars, hostVars, containerVars, HostFree, IInv
<1>1. ASSUME NEW m \in Msgs, NEW later \in BOOLEAN, Insert(m, later), UNCHANGED ack
      PROVE  (\A x \in Msgs : SameRow(x) \/ Written(x)) /\ tries' = tries
    BY <1>1 DEF Insert, TypeOK, SameRow, Written
<1>2. ASSUME NEW m \in Msgs, RouteInbound(m) \/ RestartWithMessage(m) \/ EnterFallback(m)
      PROVE  (\A x \in Msgs : SameRow(x) \/ Written(x)) /\ tries' = tries
  <2>1. Insert(m, FALSE) /\ UNCHANGED ack
      BY <1>2 DEF RouteInbound, RestartWithMessage, EnterFallback
  <2> QED
      BY <1>1, <2>1
<1>3. ASSUME NEW m \in Msgs, NEW later \in BOOLEAN, InsertTask(m, later)
      PROVE  (\A x \in Msgs : SameRow(x) \/ Written(x)) /\ tries' = tries
  <2>1. Insert(m, later) /\ UNCHANGED ack
      BY <1>3 DEF InsertTask
  <2> QED
      BY <1>1, <2>1
<1>4. ASSUME NEW m \in Msgs, AbandonProbe(m)
      PROVE  (\A x \in Msgs : SameRow(x) \/ GivenUp(x)) /\ tries' = tries
    BY <1>4 DEF AbandonProbe, SameRow, GivenUp, TypeOK
<1>5. ASSUME NEW S \in SUBSET Trigger, GuaranteeBreached(S)
      PROVE  (\A x \in Msgs : SameRow(x) \/ Written(x)) /\ tries' = tries
    BY <1>5 DEF GuaranteeBreached, SameRow
<1>6. CASE SpawnDone \/ SpawnFails \/ RestartSilently \/ HostCrash \/ HostStart \/ SweepWoke \/ SweepAlive
  <2>1. UNCHANGED <<status, tries, ack>>
      BY <1>6 DEF SpawnDone, SpawnFails, RestartSilently, HostCrash, HostStart, SweepWoke, SweepAlive
  <2> QED
      BY <2>1 DEF HostRows, SameRow
<1>7. CASE ContainerClose
  <2>1. \/ \A m \in Msgs : SameRow(m) \/ Written(m)
        \/ \A m \in Msgs : LetGo(m)
      BY <1>7 DEF ContainerClose, Unclaimed, SameRow, LetGo
  <2> QED
      BY <1>7, <2>1 DEF HostRows, ContainerClose
<1>8. CASE SweepSync
  <2>1. \A m \in Msgs : SameRow(m) \/ Mirrored(m)
      BY <1>8 DEF SweepSync, Synced, SameRow, Mirrored, TypeOK, Terminal, OnlyWrittenRows
  <2> QED
      BY <1>8, <2>1 DEF HostRows, SweepSync
<1>9. CASE FailBreached
  <2>1. \A m \in Msgs : SameRow(m) \/ GivenUp(m)
    <3>1. phase' = "dead" /\ breached \cap answered = {}
        BY <1>9, KilledIsDead DEF FailBreached, SweepSeesDead, AnswersAreSettled
    <3> QED
        BY <1>9, <3>1 DEF FailBreached, SameRow, GivenUp, OnlyWrittenRows
  <2> QED
      BY <1>9, <2>1 DEF HostRows, FailBreached
<1>10. CASE SweepKill \/ SweepGone
  <2>1. phase' = "dead"
      BY <1>10, KilledIsDead DEF SweepKill, SweepGone, SweepSeesDead
  <2>2. ResetStuckProcessingRows
      BY <1>10 DEF SweepKill, SweepGone
  <2>3. \A m \in Msgs : LetGo(m)
      BY <2>1, <2>2, LimitsAssumption DEF ResetStuckProcessingRows, Due, Unclaimed, LetGo, TypeOK
  <2> QED
      BY <2>1, <2>3 DEF HostRows
<1>11. CASE ReadReport
    BY <1>11 DEF ReadReport, HostRows, SameRow
<1>12. CASE FailReported
  <2>1. phase' = "dead"
      BY <1>12, KilledIsDead DEF FailReported
  <2>2. \A m \in reported : status[m] # "absent"
      BY <1>12, HeldReportIsWritten DEF FailReported
  <2>3. \A m \in Msgs : SameRow(m) \/ GivenUp(m)
      BY <1>12, <2>1, <2>2 DEF FailReported, SameRow, GivenUp, TypeOK
  <2> QED
      BY <1>12, <2>3 DEF HostRows, FailReported
<1> QED
    BY <1>2, <1>3, <1>4, <1>5, <1>6, <1>7, <1>8, <1>9, <1>10, <1>11, <1>12 DEF HostStep, HostRows

\* The container claims a free row.
Claimed(m) == ack[m] = "none" /\ status[m] = "pending" /\ ack'[m] = "processing"

\* It settles a row it holds.
Acked(m) == ack[m] = "processing" /\ status[m] = "pending" /\ ack'[m] \in Done

\* It starts, and clears what an earlier container left.
Cleared(m) == ack'[m] = IF ack[m] = "processing" THEN "none" ELSE ack[m]

ContainerRows ==
    /\ status' = status /\ tries' = tries
    /\ \/ \A m \in Msgs : SameRow(m) \/ Claimed(m)
       \/ \A m \in Msgs : SameRow(m) \/ Acked(m)
       \/ phase = "boot" /\ \A m \in Msgs : Cleared(m)

LEMMA ContainerEffect ==
    ASSUME IInv, ContainerStep
    PROVE  ContainerRows
<1> USE DEF inboundVars, outboundVars, hostVars, containerVars, IInv
<1>1. status' = status /\ tries' = tries
    BY ContainerRuns
<1>2. /\ batch \cup pushing \cup late \subseteq InFlight
      /\ InFlight \subseteq Msgs
    BY DEF TypeOK, InFlight
<1>3. ASSUME ack' = SetAck(batch, "completed")
      PROVE  \A m \in Msgs : SameRow(m) \/ Acked(m)
    BY <1>1, <1>2, <1>3 DEF SetAck, HeldIsClaimed, SameRow, Acked, Done
<1>4. ASSUME NEW S \in SUBSET InFlight, \A m \in S : ack[m] = "processing",
             NEW gated \in SUBSET S, NEW broken \in SUBSET S, RunScripts(S, gated, broken)
      PROVE  \A m \in Msgs : SameRow(m) \/ Acked(m)
    BY <1>1, <1>4 DEF RunScripts, HeldIsClaimed, SameRow, Acked, Done
<1>5. CASE Boot
    BY <1>1, <1>5 DEF Boot, Unclaimed, ContainerRows, Cleared
<1>6. CASE Poll
  <2>1. \A m \in Msgs : SameRow(m) \/ Claimed(m)
      BY <1>1, <1>6, PolledAreFree DEF Poll, SetAck, SameRow, Claimed
  <2> QED
      BY <1>1, <2>1 DEF ContainerRows
<1>7. CASE HandleCommands
  <2>1. \A m \in Msgs : SameRow(m) \/ Acked(m)
      BY <1>1, <1>2, <1>7 DEF HandleCommands, SetAck, HeldIsClaimed, SameRow, Acked, Done
  <2> QED
      BY <1>1, <2>1 DEF ContainerRows
<1>8. CASE StartQuery
  <2>1. PICK o \in Outcomes(batch) : RunScripts(batch, o[1], o[2])
      BY <1>8 DEF StartQuery
  <2>2. o[1] \in SUBSET batch /\ o[2] \in SUBSET batch /\ \A m \in batch : ack[m] = "processing"
      BY <1>8 DEF StartQuery, Outcomes, HeldIsClaimed
  <2>3. \A m \in Msgs : SameRow(m) \/ Acked(m)
      BY <1>2, <1>4, <2>1, <2>2
  <2> QED
      BY <1>1, <2>3 DEF ContainerRows
<1>9. CASE QueryEvent \/ DispatchResultText \/ LimitHit \/ ProviderHangs \/ ContainerDies
  <2>1. ack' = ack
      BY <1>9 DEF QueryEvent, DispatchResultText, LimitHit, ProviderHangs, FallSilent, ContainerDies
  <2> QED
      BY <1>1, <2>1 DEF ContainerRows, SameRow
<1>10. CASE Result \/ QueryEnds \/ FollowUpAbort
  <2>1. ack' = SetAck(batch, "completed")
      BY <1>10 DEF Result, QueryEnds, FollowUpAbort, EndQuery
  <2> QED
      BY <1>1, <1>3, <2>1 DEF ContainerRows
<1>11. CASE FollowUpClaim
  <2>1. ack' = SetAck(GetPendingMessages(FALSE), "processing")
      BY <1>11 DEF FollowUpClaim
  <2>2. \A m \in Msgs : SameRow(m) \/ Claimed(m)
      BY <1>1, <2>1, PolledAreFree DEF SetAck, SameRow, Claimed
  <2> QED
      BY <1>1, <2>2 DEF ContainerRows
<1>12. CASE FollowUpPush
  <2>1. PICK o \in Outcomes(pushing) :
            RunScripts(pushing, o[1] \cup (pushing \ (o[1] \cup o[2])), o[2])
      BY <1>12 DEF FollowUpPush
  <2> DEFINE gated == o[1] \cup (pushing \ (o[1] \cup o[2]))
  <2>2. gated \in SUBSET pushing /\ o[2] \in SUBSET pushing /\ \A m \in pushing : ack[m] = "processing"
      BY DEF Outcomes, HeldIsClaimed
  <2>3. RunScripts(pushing, gated, o[2])
      BY <2>1
  <2> HIDE DEF gated
  <2>4. \A m \in Msgs : SameRow(m) \/ Acked(m)
      BY <1>2, <1>4, <2>2, <2>3
  <2> QED
      BY <1>1, <2>4 DEF ContainerRows
<1>13. CASE FollowUpTooLate
  <2>1. PICK o \in Outcomes(late) : RunScripts(late, o[1], o[2])
      BY <1>13 DEF FollowUpTooLate
  <2>2. o[1] \in SUBSET late /\ o[2] \in SUBSET late /\ \A m \in late : ack[m] = "processing"
      BY DEF Outcomes, HeldIsClaimed
  <2>3. \A m \in Msgs : SameRow(m) \/ Acked(m)
      BY <1>2, <1>4, <2>1, <2>2
  <2> QED
      BY <1>1, <2>3 DEF ContainerRows
<1> QED
    BY <1>5, <1>6, <1>7, <1>8, <1>9, <1>10, <1>11, <1>12, <1>13 DEF ContainerStep

\* What a host step does to the reports, and to what the hook remembers.
LEMMA HostReports ==
    ASSUME ReportIsHeld, HostStep
    PROVE  \/ reported' = {} /\ (reports' = reports \/ (reports # <<>> /\ reports' = Tail(reports)))
           \/ UNCHANGED <<up, reports, reported>>
           \/ ReadReport
<1> USE DEF inboundVars, outboundVars, hostVars, containerVars, ReportDelivered
<1>1. ASSUME NEW m \in Msgs,
             \/ RouteInbound(m) \/ RestartWithMessage(m)
             \/ \E later \in BOOLEAN : InsertTask(m, later)
      PROVE  UNCHANGED <<up, reports, reported>>
    BY <1>1 DEF RouteInbound, RestartWithMessage, InsertTask
<1>2. ASSUME NEW m \in Msgs, EnterFallback(m) \/ AbandonProbe(m)
      PROVE  \/ reported' = {} /\ reports # <<>> /\ reports' = Tail(reports)
             \/ UNCHANGED <<up, reports, reported>>
    BY <1>2 DEF EnterFallback, AbandonProbe
<1>3. ASSUME NEW S \in SUBSET Trigger, GuaranteeBreached(S) PROVE UNCHANGED <<up, reports, reported>>
    BY <1>3 DEF GuaranteeBreached
<1>4. CASE RestartSilently
    BY <1>4 DEF RestartSilently
<1>5. CASE SpawnDone \/ SpawnFails \/ ContainerClose
    BY <1>5 DEF SpawnDone, SpawnFails, ContainerClose
<1>6. CASE HostCrash
    BY <1>6 DEF HostCrash
<1>7. CASE HostStart
    BY <1>7 DEF HostStart, ReportIsHeld
<1>8. CASE SweepSync \/ FailBreached \/ SweepWoke \/ SweepAlive \/ SweepKill \/ SweepGone
    BY <1>8 DEF SweepSync, FailBreached, SweepWoke, SweepAlive, SweepKill, SweepGone,
                ResetStuckProcessingRows
<1>9. CASE FailReported
    BY <1>9 DEF FailReported, ReportIsHeld
<1> QED
    BY <1>1, <1>2, <1>3, <1>4, <1>5, <1>6, <1>7, <1>8, <1>9 DEF HostStep

LEMMA ContainerReports ==
    ASSUME ContainerStep
    PROVE  \/ reports' = reports
           \/ reports' = Append(reports, batch) /\ phase = "query"
BY DEF ContainerStep, Boot, Poll, HandleCommands, StartQuery, QueryEvent, Result,
       DispatchResultText, QueryEnds, EndQuery, LimitHit, ProviderHangs, FallSilent, FollowUpAbort,
       FollowUpClaim, FollowUpPush, FollowUpTooLate, ContainerDies, outboundVars

LEMMA HookMemory ==
    ASSUME Next
    PROVE  \/ UNCHANGED <<breached, answered>>
           \/ breached' = {} /\ answered' = answered
           \/ SweepSync
           \/ \E S \in SUBSET Trigger : GuaranteeBreached(S)
<1> USE DEF inboundVars, outboundVars, hostVars, containerVars
<1>1. ASSUME NEW m \in Msgs,
             \/ RouteInbound(m) \/ RestartWithMessage(m) \/ EnterFallback(m) \/ AbandonProbe(m)
             \/ \E later \in BOOLEAN : InsertTask(m, later)
      PROVE  UNCHANGED <<breached, answered>>
    BY <1>1 DEF RouteInbound, RestartWithMessage, EnterFallback, AbandonProbe, InsertTask
<1>2. CASE \/ SpawnDone \/ SpawnFails \/ RestartSilently \/ ContainerClose \/ HostCrash \/ HostStart
           \/ ReadReport \/ FailReported
    BY <1>2 DEF SpawnDone, SpawnFails, RestartSilently, ContainerClose, HostCrash, HostStart,
                ReadReport, FailReported
<1>3. CASE FailBreached \/ SweepWoke \/ SweepAlive \/ SweepKill \/ SweepGone
    BY <1>3 DEF FailBreached, SweepWoke, SweepAlive, SweepKill, SweepGone
<1>4. CASE ContainerStep
    BY <1>4, ContainerRuns
<1>5. CASE TimeStep
    BY <1>5, TimePasses
<1> QED
    BY <1>1, <1>2, <1>3, <1>4, <1>5 DEF Next, HostStep

LEMMA TerminalStays ==
    ASSUME IInv, Next
    PROVE  \A m \in Msgs : status[m] \in Terminal => status'[m] \in Terminal
<1>1. CASE HostStep
    BY <1>1, HostEffect DEF HostRows, SameRow, Written, Mirrored, LetGo, GivenUp, Terminal
<1>2. CASE ContainerStep
    BY <1>2, ContainerEffect DEF ContainerRows
<1>3. CASE TimeStep
    BY <1>3, TimePasses
<1> QED
    BY <1>1, <1>2, <1>3 DEF Next

\* Reports name rows that were written, and keep naming them.
LEMMA ReportedRowsStep ==
    ASSUME IInv, Next
    PROVE  \A i \in DOMAIN reports' : \A m \in reports'[i] : m \in Msgs /\ status[m] # "absent"
<1> DEFINE Reports == {R \in SUBSET Msgs : \A m \in R : status[m] # "absent"}
<1>1. reports \in Seq(Reports)
  <2>1. \A i \in 1..Len(reports) : reports[i] \in Reports
      BY DEF IInv, TypeOK, OnlyWrittenRows
  <2>2. Len(reports) \in Nat /\ reports = [i \in 1..Len(reports) |-> reports[i]]
      BY LenProperties DEF IInv, TypeOK
  <2> HIDE DEF Reports
  <2> QED
      BY <2>1, <2>2
<1>2. phase = "query" => batch \in Reports
    BY DEF IInv, HeldIsClaimed, InFlight, OnlyWrittenRows, TypeOK
<1>3. \/ reports' = reports
      \/ reports # <<>> /\ reports' = Tail(reports)
      \/ reports' = Append(reports, batch) /\ phase = "query"
  <2>1. CASE HostStep
      BY <2>1, HostReports DEF IInv, ReadReport, outboundVars
  <2>2. CASE ContainerStep
      BY <2>2, ContainerReports
  <2>3. CASE TimeStep
      BY <2>3, TimePasses
  <2> QED
      BY <2>1, <2>2, <2>3 DEF Next
<1> HIDE DEF Reports
<1>4. reports' \in Seq(Reports)
    BY <1>1, <1>2, <1>3, AppendProperties, HeadTailProperties
<1>5. \A i \in DOMAIN reports' : reports'[i] \in Reports
    BY <1>4, ElementOfSeq
<1> QED
    BY <1>5 DEF Reports

LEMMA WrittenRowsStep ==
    ASSUME IInv, Next
    PROVE  OnlyWrittenRows'
<1> USE DEF IInv, OnlyWrittenRows
<1>1. \A m \in Msgs : status'[m] = "absent" => status[m] = "absent" /\ ack'[m] = "none"
  <2>1. CASE HostStep
      BY <2>1, HostEffect DEF HostRows, SameRow, Written, Mirrored, LetGo, GivenUp
  <2>2. CASE ContainerStep
      BY <2>2, ContainerEffect DEF ContainerRows, SameRow, Claimed, Acked, Cleared
  <2>3. CASE TimeStep
      BY <2>3, TimePasses
  <2> QED
      BY <2>1, <2>2, <2>3 DEF Next
<1>2. \A m \in breached' : m \in breached \/ status[m] = "pending"
  <2>1. CASE HostStep
    <3>1. ASSUME NEW S \in SUBSET Trigger, GuaranteeBreached(S)
          PROVE  \A m \in breached' : status[m] = "pending"
        BY <3>1 DEF GuaranteeBreached
    <3>2. ASSUME NEW m \in Msgs,
                 \/ RouteInbound(m) \/ RestartWithMessage(m) \/ EnterFallback(m) \/ AbandonProbe(m)
                 \/ \E later \in BOOLEAN : InsertTask(m, later)
          PROVE  breached' = breached
        BY <3>2 DEF RouteInbound, RestartWithMessage, EnterFallback, AbandonProbe, InsertTask, hostVars
    <3>3. CASE SpawnDone \/ SpawnFails \/ RestartSilently \/ ContainerClose \/ HostCrash \/ HostStart
        BY <3>3 DEF SpawnDone, SpawnFails, RestartSilently, ContainerClose, HostCrash, HostStart
    <3>4. CASE \/ SweepSync \/ FailBreached \/ SweepWoke \/ SweepAlive \/ SweepKill \/ SweepGone
               \/ ReadReport \/ FailReported
        BY <3>4 DEF SweepSync, FailBreached, SweepWoke, SweepAlive, SweepKill, SweepGone, ReadReport,
                    FailReported
    <3> QED
        BY <2>1, <3>1, <3>2, <3>3, <3>4 DEF HostStep
  <2>2. CASE ContainerStep
      BY <2>2, ContainerRuns DEF hostVars
  <2>3. CASE TimeStep
      BY <2>3, TimePasses DEF hostVars
  <2> QED
      BY <2>1, <2>2, <2>3 DEF Next
<1>3. breached' \subseteq Msgs
  <2>1. TypeOK'
      BY HostType, ContainerType, TimeType DEF Next
  <2> QED
      BY <2>1, RowsAssumption DEF TypeOK
<1>4. \A i \in DOMAIN reports' : \A m \in reports'[i] : m \in Msgs /\ status[m] # "absent"
    BY ReportedRowsStep
<1> QED
    BY <1>1, <1>2, <1>3, <1>4

\* No step but the two of handleFallbackReport touches `reported`, the report
\* it stands for is the oldest, and the sweep's sync is the one place where
\* `answered` changes.
LEMMA ReportStep ==
    ASSUME IInv, Next
    PROVE  ReportIsHeld'
<1> USE DEF ReportIsHeld, inboundVars, outboundVars, hostVars, containerVars
<1>1. CASE HostStep
  <2>1. \/ reported' = {}
        \/ UNCHANGED <<up, reports, reported>>
        \/ ReadReport
      BY <1>1, HostReports DEF IInv
  <2> QED
      BY <2>1 DEF ReadReport, HostFree, IInv
<1>2. CASE ContainerStep
  <2>1. UNCHANGED hostVars
      BY <1>2, ContainerRuns
  <2>2. CASE reports' = reports
      BY <2>1, <2>2 DEF IInv
  <2>3. CASE reports' = Append(reports, batch)
    <3> DEFINE Reports == SUBSET Msgs
    <3>1. reports \in Seq(Reports) /\ batch \in Reports
        BY DEF IInv, TypeOK
    <3> HIDE DEF Reports
    <3>2. reports # <<>> => reports' # <<>> /\ Head(reports') = Head(reports)
        BY <2>3, <3>1, AppendProperties, HeadTailProperties, LenProperties
    <3> QED
        BY <2>1, <3>2 DEF IInv
  <2> QED
      BY <1>2, <2>2, <2>3, ContainerReports
<1>3. CASE TimeStep
    BY <1>3, TimePasses DEF IInv
<1> QED
    BY <1>1, <1>2, <1>3 DEF Next

LEMMA AnswersStep ==
    ASSUME IInv, Next
    PROVE  AnswersAreSettled'
<1>1. \A m \in Msgs : status[m] \in Terminal => status'[m] \in Terminal
    BY TerminalStays
<1>2. CASE UNCHANGED <<breached, answered>>
    BY <1>1, <1>2 DEF IInv, AnswersAreSettled, TypeOK
<1>3. CASE breached' = {} /\ answered' = answered
    BY <1>1, <1>3 DEF IInv, AnswersAreSettled, TypeOK
<1>4. CASE SweepSync
  <2>1. breached = {}
      BY <1>4 DEF SweepSync, IInv, SweepSeesDead
  <2>2. \A m \in Msgs : ack[m] \in Done => status'[m] \in Terminal
      BY <1>4 DEF SweepSync, Synced, Done, Terminal
  <2> QED
      BY <1>4, <2>1, <2>2 DEF SweepSync, Answered, AnswersAreSettled
<1>5. ASSUME NEW S \in SUBSET Trigger, GuaranteeBreached(S) PROVE AnswersAreSettled'
  <2>1. S \cap answered = {}
      BY <1>5 DEF GuaranteeBreached, IInv, AnswersAreSettled, Terminal
  <2> QED
      BY <1>1, <1>5, <2>1 DEF GuaranteeBreached, IInv, AnswersAreSettled, TypeOK
<1> QED
    BY <1>2, <1>3, <1>4, <1>5, HookMemory

-----------------------------------------------------------------------------
(* The inductive invariant                                                 *)

LEMMA InitIInv == Init => IInv
<1> SUFFICES ASSUME Init PROVE IInv
    OBVIOUS
<1> USE DEF Init
<1>1. TypeOK
  <2>1. up \in BOOLEAN /\ active \in BOOLEAN /\ waking \in BOOLEAN /\ first \in BOOLEAN /\ nudged \in BOOLEAN
      BY Zenon
  <2>2. prompts \in Seq(SUBSET Msgs) /\ reports \in Seq(SUBSET Msgs)
      OBVIOUS
  <2>3. tries \in [Msgs -> 0..MaxTries] /\ faults \in 0..MaxFaults
      BY LimitsAssumption
  <2> QED
      BY <2>1, <2>2, <2>3 DEF TypeOK
<1>2. HeldIsClaimed /\ NoDoubleWork
    BY DEF HeldIsClaimed, NoDoubleWork, InFlight
<1> QED
    BY <1>1, <1>2 DEF IInv, DispatchHasPrompt, SingleContainer, MemoryFitsPhase, SweepSeesDead,
                      OnlyWrittenRows, ReportIsHeld, AnswersAreSettled

LEMMA NextIInv == IInv /\ [Next]_vars => IInv'
<1> SUFFICES ASSUME IInv, [Next]_vars PROVE IInv'
    OBVIOUS
<1>1. CASE Next
  <2>1. TypeOK'
      BY <1>1, HostType, ContainerType, TimeType DEF IInv, Next
  <2>2. SingleContainer' /\ SweepSeesDead'
      BY <1>1, SingleContainerStep, SweepSeesDeadStep DEF IInv
  <2>3. MemoryFitsPhase' /\ DispatchHasPrompt'
      BY <1>1, MemoryStep DEF IInv
  <2>4. HeldIsClaimed' /\ NoDoubleWork'
      BY <1>1, <2>1, <2>3, HeldStep
  <2>5. OnlyWrittenRows' /\ ReportIsHeld' /\ AnswersAreSettled'
      BY <1>1, WrittenRowsStep, ReportStep, AnswersStep
  <2> QED
      BY <2>1, <2>2, <2>3, <2>4, <2>5 DEF IInv
<1>2. CASE UNCHANGED vars
    BY <1>2 DEF IInv, TypeOK, DispatchHasPrompt, SingleContainer, MemoryFitsPhase, SweepSeesDead,
                HeldIsClaimed, NoDoubleWork, InFlight, OnlyWrittenRows, ReportIsHeld,
                AnswersAreSettled, vars, inboundVars, outboundVars, hostVars, containerVars
<1> QED
    BY <1>1, <1>2

\* IInv holds in every reachable state: each property below follows from it.
THEOREM Invariance == Spec => []IInv
BY InitIInv, NextIInv, PTL DEF Spec

\* Every variable has its type in every behaviour of the host and the
\* container, whatever rows, limits and faults there are.
THEOREM TypeCorrect == Spec => []TypeOK
<1>1. IInv => TypeOK
    BY DEF IInv
<1> QED
    BY <1>1, Invariance, PTL

\* wakeContainer, killContainer and cleanupOrphans never let two containers
\* of a session live, nor one that activeContainers does not know.
THEOREM OneContainer == Spec => []SingleContainer
<1>1. IInv => SingleContainer
    BY DEF IInv
<1> QED
    BY <1>1, Invariance, PTL

\* The poll loop never holds a row without a row in processing_ack.
THEOREM HeldIsVisible == Spec => []NoInvisibleWork
<1>1. IInv => NoInvisibleWork
    BY DEF IInv, HeldIsClaimed, NoInvisibleWork
<1> QED
    BY <1>1, Invariance, PTL

\* The outer loop and the follow-up poller never give the agent a row twice.
THEOREM NothingTwice == Spec => []NoDoubleWork
<1>1. IInv => NoDoubleWork
    BY DEF IInv
<1> QED
    BY <1>1, Invariance, PTL

\* enforceRunningContainerSla and step 4 of the sweep retry a row, and take
\* its claim away, only when no container works on it.
THEOREM NoChargeWhileAlive == Spec => ChargedOnlyWhenDead
<1>1. IInv /\ [Next]_vars =>
        [\A m \in Msgs :
            /\ tries'[m] # tries[m] => phase' = "dead"
            /\ ack[m] = "processing" /\ ack'[m] = "none" => phase' = "dead" \/ phase = "boot"]_vars
  <2> SUFFICES ASSUME IInv, Next, NEW m \in Msgs
               PROVE  /\ tries'[m] # tries[m] => phase' = "dead"
                      /\ ack[m] = "processing" /\ ack'[m] = "none" => phase' = "dead" \/ phase = "boot"
      OBVIOUS
  <2>1. CASE HostStep
      BY <2>1, HostEffect DEF HostRows, SameRow, Written, Mirrored, LetGo, GivenUp
  <2>2. CASE ContainerStep
      BY <2>2, ContainerEffect DEF ContainerRows, SameRow, Claimed, Acked, Done
  <2>3. CASE TimeStep
      BY <2>3, TimePasses
  <2> QED
      BY <2>1, <2>2, <2>3 DEF Next
<1> QED
    BY <1>1, Invariance, PTL DEF Spec, ChargedOnlyWhenDead

\* A row fails, even one that was completed, only for a broken script, for
\* used-up tries with its container gone, for the response guarantee when the
\* sweep had read no answer of it, or for the report of a limit.
THEOREM FailuresHaveReasons == Spec => FailureJustified
<1>1. IInv /\ [Next]_vars =>
        [\A m \in Msgs :
            status[m] # "failed" /\ status'[m] = "failed" =>
                \/ ack[m] = "script-skip:error"
                \/ ack[m] = "processing" /\ tries[m] = MaxTries /\ phase' = "dead"
                \/ m \in breached \ answered /\ phase' = "dead"
                \/ m \in reported /\ phase' = "dead"]_vars
  <2> SUFFICES ASSUME IInv, Next, NEW m \in Msgs, status[m] # "failed", status'[m] = "failed"
               PROVE  \/ ack[m] = "script-skip:error"
                      \/ ack[m] = "processing" /\ tries[m] = MaxTries /\ phase' = "dead"
                      \/ m \in breached \ answered /\ phase' = "dead"
                      \/ m \in reported /\ phase' = "dead"
      OBVIOUS
  <2>1. CASE HostStep
      BY <2>1, HostEffect DEF HostRows, SameRow, Written, Mirrored, LetGo, GivenUp
  <2>2. CASE ContainerStep
      BY <2>2, ContainerEffect DEF ContainerRows
  <2>3. CASE TimeStep
      BY <2>3, TimePasses
  <2> QED
      BY <2>1, <2>2, <2>3 DEF Next
<1> QED
    BY <1>1, Invariance, PTL DEF Spec, FailureJustified

\* No row is handled again after its ack, or after the host gave it up.
THEOREM SettledStays == Spec => SettledIsFinal
<1>1. IInv /\ [Next]_vars =>
        [\A m \in Msgs : /\ status[m] \in Terminal => status'[m] \in Terminal
                         /\ ack[m] \in Done => ack'[m] = ack[m]
                         /\ status[m] \in Terminal /\ ack'[m] = "processing" =>
                               ack[m] = "processing"]_vars
  <2> SUFFICES ASSUME IInv, Next, NEW m \in Msgs
               PROVE  /\ status[m] \in Terminal => status'[m] \in Terminal
                      /\ ack[m] \in Done => ack'[m] = ack[m]
                      /\ status[m] \in Terminal /\ ack'[m] = "processing" => ack[m] = "processing"
      OBVIOUS
  <2>1. CASE HostStep
      BY <2>1, HostEffect DEF HostRows, SameRow, Written, Mirrored, LetGo, GivenUp, Terminal, Done
  <2>2. CASE ContainerStep
      BY <2>2, ContainerEffect DEF ContainerRows, SameRow, Claimed, Acked, Cleared, Terminal, Done
  <2>3. CASE TimeStep
      BY <2>3, TimePasses
  <2> QED
      BY <2>1, <2>2, <2>3 DEF Next
<1> QED
    BY <1>1, Invariance, PTL DEF Spec, SettledIsFinal

-----------------------------------------------------------------------------
(* Refinement: the rows of the two databases are a WorkQueue               *)

LEMMA ItemState ==
    ASSUME TypeOK PROVE Item \in [Msgs -> Queue!States]
BY DEF Item, Queue!States

LEMMA ItemStateNext ==
    ASSUME TypeOK' PROVE Item' \in [Msgs -> Queue!States]
BY DEF Item, Queue!States

LEMMA HostRefines ==
    ASSUME IInv, IInv', HostRows
    PROVE  Queue!Next \/ UNCHANGED Item
<1> USE DEF Queue!Each
<1>1. Item' \in [Msgs -> Queue!States] /\ Item \in [Msgs -> Queue!States]
    BY ItemState, ItemStateNext DEF IInv
<1>2. CASE \A m \in Msgs : SameRow(m) \/ Written(m)
  <2>1. \A m \in Msgs : Item'[m] = Item[m] \/ (Item[m] = "absent" /\ Item'[m] = "waiting")
      BY <1>2 DEF SameRow, Written, Item, IInv, OnlyWrittenRows, Terminal
  <2> QED
      BY <1>1, <2>1 DEF Queue!Next, Queue!Submit
<1>3. CASE \A m \in Msgs : SameRow(m) \/ Mirrored(m)
  <2>1. \A m \in Msgs : Item'[m] = Item[m]
      BY <1>3 DEF SameRow, Mirrored, Item, Terminal
  <2> QED
      BY <1>1, <2>1
<1>4. CASE \A m \in Msgs : LetGo(m)
  <2>1. \A m \in Msgs : Item'[m] = Item[m] \/ (Item[m] = "held" /\ Item'[m] \in {"done", "dropped", "waiting"})
      BY <1>4 DEF LetGo, Item, Terminal, IInv, TypeOK
  <2> QED
      BY <1>1, <2>1 DEF Queue!Next, Queue!Settle
<1>5. CASE \A m \in Msgs : SameRow(m) \/ GivenUp(m)
  <2>1. \A m \in Msgs : Item'[m] = Item[m] \/ (Item[m] \in {"waiting", "held"} /\ Item'[m] = "dropped")
      BY <1>5 DEF SameRow, GivenUp, Item, Terminal
  <2> QED
      BY <1>1, <2>1 DEF Queue!Next, Queue!GiveUp
<1> QED
    BY <1>2, <1>3, <1>4, <1>5 DEF HostRows

LEMMA ContainerRefines ==
    ASSUME IInv, IInv', ContainerRows
    PROVE  Queue!Next \/ UNCHANGED Item
<1> USE DEF Queue!Each
<1>1. Item' \in [Msgs -> Queue!States]
    BY ItemStateNext DEF IInv
<1>2. CASE \A m \in Msgs : SameRow(m) \/ Claimed(m)
  <2>1. \A m \in Msgs : Item'[m] = Item[m] \/ (Item[m] = "waiting" /\ Item'[m] = "held")
      BY <1>2 DEF SameRow, Claimed, ContainerRows, Item, Terminal
  <2> QED
      BY <1>1, <2>1 DEF Queue!Next, Queue!Take
<1>3. CASE \A m \in Msgs : SameRow(m) \/ Acked(m)
  <2>1. \A m \in Msgs : Item'[m] = Item[m] \/ (Item[m] = "held" /\ Item'[m] \in {"done", "dropped", "waiting"})
      BY <1>3 DEF SameRow, Acked, ContainerRows, Item, Terminal, Done
  <2> QED
      BY <1>1, <2>1 DEF Queue!Next, Queue!Settle
<1>4. CASE \A m \in Msgs : Cleared(m)
  <2>1. \A m \in Msgs : Item'[m] = Item[m] \/ (Item[m] = "held" /\ Item'[m] \in {"done", "dropped", "waiting"})
      BY <1>4 DEF Cleared, ContainerRows, Item, Terminal
  <2> QED
      BY <1>1, <2>1 DEF Queue!Next, Queue!Settle
<1> QED
    BY <1>2, <1>3, <1>4 DEF ContainerRows

\* Host, container and databases together implement WorkQueue: whatever
\* crashes, a row is held by one container at a time, is done only after it
\* was held, and is settled once.
THEOREM Refinement == Spec => ImplementsQueue
<1>1. Init => Queue!Init
    BY DEF Init, Queue!Init, Item
<1>2. IInv /\ IInv' /\ [Next]_vars => [Queue!Next]_Item
  <2> SUFFICES ASSUME IInv, IInv', [Next]_vars PROVE Queue!Next \/ UNCHANGED Item
      OBVIOUS
  <2>1. CASE HostStep
      BY <2>1, HostEffect, HostRefines
  <2>2. CASE ContainerStep
      BY <2>2, ContainerEffect, ContainerRefines
  <2>3. CASE TimeStep
      BY <2>3, TimePasses DEF Item
  <2>4. CASE UNCHANGED vars
      BY <2>4 DEF Item, vars, inboundVars, outboundVars
  <2> QED
      BY <2>1, <2>2, <2>3, <2>4 DEF Next
<1> QED
    BY <1>1, <1>2, Invariance, PTL DEF Spec, ImplementsQueue, Queue!Spec
=============================================================================
